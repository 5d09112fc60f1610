--------------------------- MODULE SessionProofs ----------------------------
(***************************************************************************)
(* Proofs about Requests and Session, for all arguments, lines and         *)
(* coordinates a user may give, buffers of any size and any number of      *)
(* commands.                                                               *)
(*   - Two spellings of one question have one key, and two questions with  *)
(*     one key are spellings of one question, for texts that fit the       *)
(*     buffers, as Fits says.                                              *)
(*   - A server that decodes a path reads what was typed, or its beginning *)
(*     where the buffers cut the path.                                     *)
(* From these, of the commands: what one shows answers what was asked,     *)
(* what it sends is what was typed, and spellings of one question share    *)
(* their answer.  And a command frees what it allocated, but for the key   *)
(* of homepage.                                                            *)
(*                                                                         *)
(* Induction is over sets: a set of texts with the empty one and, with     *)
(* each, all that are one character longer, is the set of all texts.       *)
(***************************************************************************)
EXTENDS Session, SequenceTheorems, WellFoundedInduction, TLAPS

-----------------------------------------------------------------------------
(* Induction, and the loops over a text.                                   *)

\* Induction up to L.
LEMMA UpTo ==
    ASSUME NEW L \in Nat, NEW S, 0 \in S, \A n \in 1..L : n - 1 \in S => n \in S
    PROVE  \A n \in 0..L : n \in S
<1> DEFINE Bad == (0..L) \ S
<1>1. SUFFICES ASSUME Bad # {} PROVE FALSE
    OBVIOUS
<1>2. PICK x \in Bad : \A y \in Bad : ~ (<<y, x>> \in OpToRel(<, Nat))
    <2>1. Bad \in SUBSET Nat
        OBVIOUS
    <2> QED BY <1>1, <2>1, NatLessThanWellFounded, WFMin
<1>3. x \in 1..L /\ x - 1 \in 0..L
    <2>1. x \in 0..L /\ x \notin S
        BY <1>2
    <2>2. x # 0
        BY <2>1, Zenon
    <2> QED BY <2>1, <2>2
<1>4. x - 1 \in S
    <2>1. <<x - 1, x>> \in OpToRel(<, Nat)
        BY <1>3 DEF OpToRel
    <2> QED BY <1>2, <1>3, <2>1
<1> QED BY <1>2, <1>3, <1>4

\* The runs of a loop of L steps F from base.
Loops(X, base, L, F) ==
    {g \in [0..L -> X] : g[0] = base /\ \A n \in 1..L : g[n] = F[n][g[n - 1]]}

LEMMA LoopExists ==
    ASSUME NEW X, NEW base \in X, NEW L \in Nat, NEW F \in [1..L -> [X -> X]]
    PROVE  \E g : g \in Loops(X, base, L, F)
<1> DEFINE Runs(m, g) == \A n \in 0..m : g[n] = IF n = 0 THEN base ELSE F[n][g[n - 1]]
           S == {m \in 0..L : \E g \in [0..m -> X] : Runs(m, g)}
<1>1. 0 \in S
    <2>1. [n \in 0..0 |-> base] \in [0..0 -> X] /\ Runs(0, [n \in 0..0 |-> base])
        OBVIOUS
    <2>2. \E g \in [0..0 -> X] : Runs(0, g)
        BY <2>1, Zenon
    <2> QED BY <2>2
<1>2. ASSUME NEW m \in 1..L, m - 1 \in S PROVE m \in S
    <2>1. PICK g \in [0..(m - 1) -> X] : Runs(m - 1, g)
        BY <1>2
    <2> DEFINE h == [n \in 0..m |-> IF n = m THEN F[m][g[m - 1]] ELSE g[n]]
    <2>2. h \in [0..m -> X]
        BY <1>2
    <2>3. Runs(m, h)
        <3>1. SUFFICES ASSUME NEW n \in 0..m
                       PROVE  h[n] = IF n = 0 THEN base ELSE F[n][h[n - 1]]
            OBVIOUS
        <3>2. CASE n = m
            <4>1. h[m] = F[m][g[m - 1]] /\ h[m - 1] = g[m - 1] /\ m # 0
                BY <1>2
            <4> QED BY <3>2, <4>1, Zenon
        <3>3. CASE n # m
            <4>1. n \in 0..(m - 1) /\ (n # 0 => n - 1 \in 0..(m - 1))
                BY <3>1, <3>3, <1>2
            <4>2. h[n] = g[n] /\ (n # 0 => h[n - 1] = g[n - 1])
                BY <3>3, <4>1, <1>2
            <4>3. g[n] = IF n = 0 THEN base ELSE F[n][g[n - 1]]
                BY <2>1, <4>1, Zenon
            <4> HIDE DEF h
            <4> QED BY <4>2, <4>3, Zenon
        <3> QED BY <3>2, <3>3
    <2> HIDE DEF h
    <2>4. \E f \in [0..m -> X] : Runs(m, f)
        <3> HIDE DEF Runs
        <3> QED BY <2>2, <2>3
    <2> HIDE DEF Runs
    <2> QED BY <2>4, m \in 0..L, Zenon
<1>3. L \in S
    <2> HIDE DEF S
    <2>1. \A n \in 0..L : n \in S
        BY <1>1, <1>2, UpTo
    <2> QED BY <2>1
<1>4. PICK g \in [0..L -> X] : Runs(L, g)
    BY <1>3
<1>5. g[0] = base
    BY <1>4, 0 \in 0..L
<1>6. ASSUME NEW n \in 1..L PROVE g[n] = F[n][g[n - 1]]
    BY <1>4, n \in 0..L, n # 0
<1> QED BY <1>5, <1>6 DEF Loops

\* Two loops that take the same steps up to L agree there.
LEMMA LoopsAgree ==
    ASSUME NEW L \in Nat, NEW g, NEW h, g[0] = h[0],
           \A n \in 1..L : g[n - 1] = h[n - 1] => g[n] = h[n]
    PROVE  g[L] = h[L]
<1> DEFINE S == {n \in 0..L : g[n] = h[n]}
<1>1. 0 \in S /\ \A n \in 1..L : n - 1 \in S => n \in S
    OBVIOUS
<1> HIDE DEF S
<1>2. L \in S
    BY <1>1, UpTo
<1> QED BY <1>2 DEF S

\* Induction over sequences.
LEMMA AllSequences ==
    ASSUME NEW C, NEW P, <<>> \in P, \A s \in Seq(C), c \in C : s \in P => Append(s, c) \in P
    PROVE  \A s \in Seq(C) : s \in P
<1> SUFFICES ASSUME NEW s \in Seq(C) PROVE s \in P
    OBVIOUS
<1> DEFINE S == {n \in 0..Len(s) : \A t \in Seq(C) : Len(t) = n => t \in P}
<1>1. Len(s) \in Nat
    BY LenProperties
<1>2. 0 \in S
    BY <1>1, EmptySeq
<1>3. ASSUME NEW n \in 1..Len(s), n - 1 \in S PROVE n \in S
    <2>1. SUFFICES ASSUME NEW t \in Seq(C), Len(t) = n PROVE t \in P
        BY <1>1
    <2>2. PICK u \in Seq(C), c \in C : t = Append(u, c)
        <3> HIDE DEF S
        <3>1. t # <<>>
            BY <1>1, <2>1
        <3> QED BY <3>1, SequenceEmptyOrAppend, Zenon
    <2>3. Len(u) = n - 1
        BY <1>1, <2>1, <2>2, AppendProperties, LenProperties
    <2>4. u \in P
        BY <1>3, <2>3
    <2> QED BY <2>2, <2>4
<1>4. Len(s) \in S
    <2> HIDE DEF S
    <2>1. \A n \in 1..Len(s) : n - 1 \in S => n \in S
        BY <1>3, Zenon
    <2>2. \A n \in 0..Len(s) : n \in S
        BY <1>1, <1>2, <2>1, UpTo, ZenonT(60)
    <2> QED BY <1>1, <2>2
<1> QED BY <1>4

LEMMA AppendFacts ==
    ASSUME NEW C, NEW s \in Seq(C), NEW c \in C
    PROVE  /\ Append(s, c) \in Seq(C)
           /\ Append(s, c) # <<>>
           /\ Len(Append(s, c)) = Len(s) + 1
           /\ Len(s) \in Nat
           /\ \A i \in 1..Len(s) : Append(s, c)[i] = s[i]
           /\ Append(s, c)[Len(s) + 1] = c
           /\ Last(Append(s, c)) = c
           /\ Front(Append(s, c)) = s
<1> DEFINE a == Append(s, c)
<1>1. /\ a \in Seq(C) /\ a # <<>> /\ Len(a) = Len(s) + 1 /\ Len(s) \in Nat
      /\ \A i \in 1..Len(s) : a[i] = s[i]
      /\ a[Len(s) + 1] = c
    BY AppendProperties, LenProperties
<1>2. Last(a) = c
    BY <1>1 DEF Last
<1>3. /\ SubSeq(a, 1, Len(s)) \in Seq(C)
      /\ Len(SubSeq(a, 1, Len(s))) = Len(s)
      /\ \A i \in 1..Len(s) : SubSeq(a, 1, Len(s))[i] = a[i]
    <2>1. \A i \in 1..Len(s) : a[i] \in C
        BY <1>1, ElementOfSeq
    <2> HIDE DEF a
    <2> QED BY <1>1, <2>1, SubSeqProperties, 1 \in Int
<1>4. SubSeq(a, 1, Len(s)) = s
    BY <1>1, <1>3, SeqEqual
<1>5. Front(a) = s
    BY <1>1, <1>4 DEF Front
<1> QED BY <1>1, <1>2, <1>5


-----------------------------------------------------------------------------
(* The loops of Normalize, Words and Joined, one character at a time.      *)

Word == [letter : Char \ Separators, begins : BOOLEAN]

LEMMA NormalizeCharType ==
    ASSUME NEW out \in Text, NEW c \in Char
    PROVE  NormalizeChar(out, c) \in Text
<1>1. LowerCase(c) \in Char /\ "_" \in Char
    BY CharAssumption DEF LowerCase, Unreserved
<1> QED BY <1>1, AppendProperties DEF NormalizeChar, Text

LEMMA NormalizeRuns ==
    ASSUME NEW text \in Text
    PROVE  /\ NormalizeLoop(text) \in [0..Len(text) -> Text]
           /\ NormalizeLoop(text)[0] = <<>>
           /\ \A n \in 1..Len(text) :
                NormalizeLoop(text)[n] = NormalizeChar(NormalizeLoop(text)[n - 1], text[n])
<1> DEFINE L == Len(text)
           F == [n \in 1..L |-> [x \in Text |-> NormalizeChar(x, text[n])]]
           IsLoop(g) == g = [n \in 0..L |-> IF n = 0 THEN <<>> ELSE NormalizeChar(g[n - 1], text[n])]
<1>1. L \in Nat /\ (\A n \in 1..L : text[n] \in Char) /\ <<>> \in Text
    BY LenProperties, ElementOfSeq, EmptySeq DEF Text
<1>2. \A n \in 1..L, x \in Text : NormalizeChar(x, text[n]) \in Text
    BY <1>1, NormalizeCharType
<1>3. F \in [1..L -> [Text -> Text]]
    BY <1>2
<1>4. \A n \in 1..L, x \in Text : F[n][x] = NormalizeChar(x, text[n])
    BY <1>2
<1> HIDE DEF L, F
<1>5. PICK g : g \in Loops(Text, <<>>, L, F)
    <2>1. L \in Nat /\ <<>> \in Text
        BY <1>1
    <2> QED BY <2>1, <1>3, LoopExists, Zenon
<1>6. g \in [0..L -> Text] /\ g[0] = <<>> /\ \A n \in 1..L : g[n] = F[n][g[n - 1]]
    BY <1>5 DEF Loops
<1>7. \A n \in 1..L : g[n] = NormalizeChar(g[n - 1], text[n])
    <2>1. \A n \in 1..L : g[n - 1] \in Text
        BY <1>1, <1>6
    <2> QED BY <2>1, <1>4, <1>6
<1>8. IsLoop(g)
    <2>1. \A n \in 0..L : g[n] = IF n = 0 THEN <<>> ELSE NormalizeChar(g[n - 1], text[n])
        BY <1>1, <1>6, <1>7
    <2>2. g = [n \in 0..L |-> g[n]]
        BY <1>6
    <2> QED BY <2>1, <2>2
<1>9. NormalizeLoop(text) = CHOOSE f : IsLoop(f)
    BY DEF NormalizeLoop, L
<1>10. IsLoop(NormalizeLoop(text))
    <2> HIDE DEF IsLoop
    <2> QED BY <1>8, <1>9, Zenon
<1> DEFINE f == NormalizeLoop(text)
<1>11. f[0] = <<>> /\ \A n \in 1..L : f[n] = NormalizeChar(f[n - 1], text[n])
    BY <1>1, <1>10
<1>12. \A n \in 0..L : f[n] \in Text
    <2> DEFINE S == {n \in 0..L : f[n] \in Text}
    <2>1. 0 \in S
        <3>1. f[0] \in Text
            BY <1>1, <1>11, Zenon
        <3> HIDE DEF f
        <3> QED BY <1>1, <3>1
    <2>2. ASSUME NEW n \in 1..L, n - 1 \in S PROVE n \in S
        BY <1>1, <1>2, <1>11, <2>2
    <2>3. \A n \in 0..L : n \in S
        <3> HIDE DEF S
        <3> QED BY <1>1, <2>1, <2>2, UpTo
    <2> QED BY <2>3
<1>13. f \in [0..L -> Text]
    <2>1. f = [n \in 0..L |-> f[n]]
        BY <1>10
    <2> QED BY <2>1, <1>12
<1> QED BY <1>11, <1>13 DEF L

LEMMA AddToWordsType ==
    ASSUME NEW text \in Text, NEW words \in Seq(Word), NEW n \in 1..Len(text)
    PROVE  AddToWords(words, text, n) \in Seq(Word)
<1>1. CASE text[n] \in Separators
    BY <1>1 DEF AddToWords
<1>2. CASE text[n] \notin Separators
    <2>1. text[n] \in Char
        BY ElementOfSeq DEF Text
    <2>2. LowerCase(text[n]) \in Char \ Separators
        BY <2>1, <1>2, CharAssumption DEF LowerCase, Unreserved, Separators
    <2>3. (words # <<>> /\ text[n - 1] \in Separators) \in BOOLEAN
        OBVIOUS
    <2>4. [letter |-> LowerCase(text[n]),
           begins |-> words # <<>> /\ text[n - 1] \in Separators] \in Word
        BY <2>2, <2>3 DEF Word
    <2> QED BY <1>2, <2>4, AppendProperties DEF AddToWords
<1> QED BY <1>1, <1>2

LEMMA WordsRuns ==
    ASSUME NEW text \in Text
    PROVE  /\ WordsLoop(text) \in [0..Len(text) -> Seq(Word)]
           /\ WordsLoop(text)[0] = <<>>
           /\ \A n \in 1..Len(text) :
                WordsLoop(text)[n] = AddToWords(WordsLoop(text)[n - 1], text, n)
<1> DEFINE L == Len(text)
           F == [n \in 1..L |-> [x \in Seq(Word) |-> AddToWords(x, text, n)]]
           IsLoop(g) == g = [n \in 0..L |-> IF n = 0 THEN <<>> ELSE AddToWords(g[n - 1], text, n)]
<1>1. L \in Nat /\ (\A n \in 1..L : text[n] \in Char) /\ <<>> \in Seq(Word)
    BY LenProperties, ElementOfSeq, EmptySeq DEF Text
<1>2. \A n \in 1..L, x \in Seq(Word) : AddToWords(x, text, n) \in Seq(Word)
    BY <1>1, AddToWordsType
<1>3. F \in [1..L -> [Seq(Word) -> Seq(Word)]]
    BY <1>2
<1>4. \A n \in 1..L, x \in Seq(Word) : F[n][x] = AddToWords(x, text, n)
    BY <1>2
<1> HIDE DEF L, F
<1>5. PICK g : g \in Loops(Seq(Word), <<>>, L, F)
    <2>1. L \in Nat /\ <<>> \in Seq(Word)
        BY <1>1
    <2> QED BY <2>1, <1>3, LoopExists, Zenon
<1>6. g \in [0..L -> Seq(Word)] /\ g[0] = <<>> /\ \A n \in 1..L : g[n] = F[n][g[n - 1]]
    BY <1>5 DEF Loops
<1>7. \A n \in 1..L : g[n] = AddToWords(g[n - 1], text, n)
    <2>1. \A n \in 1..L : g[n - 1] \in Seq(Word)
        BY <1>1, <1>6
    <2> QED BY <2>1, <1>4, <1>6
<1>8. IsLoop(g)
    <2>1. \A n \in 0..L : g[n] = IF n = 0 THEN <<>> ELSE AddToWords(g[n - 1], text, n)
        BY <1>1, <1>6, <1>7
    <2>2. g = [n \in 0..L |-> g[n]]
        BY <1>6
    <2> QED BY <2>1, <2>2
<1>9. WordsLoop(text) = CHOOSE f : IsLoop(f)
    BY DEF WordsLoop, L
<1>10. IsLoop(WordsLoop(text))
    <2> HIDE DEF IsLoop
    <2> QED BY <1>8, <1>9, Zenon
<1> DEFINE f == WordsLoop(text)
<1>11. f[0] = <<>> /\ \A n \in 1..L : f[n] = AddToWords(f[n - 1], text, n)
    BY <1>1, <1>10
<1>12. \A n \in 0..L : f[n] \in Seq(Word)
    <2> DEFINE S == {n \in 0..L : f[n] \in Seq(Word)}
    <2>1. 0 \in S
        <3>1. f[0] \in Seq(Word)
            BY <1>1, <1>11, Zenon
        <3> HIDE DEF f
        <3> QED BY <1>1, <3>1
    <2>2. ASSUME NEW n \in 1..L, n - 1 \in S PROVE n \in S
        BY <1>1, <1>2, <1>11, <2>2
    <2>3. \A n \in 0..L : n \in S
        <3> HIDE DEF S
        <3> QED BY <1>1, <2>1, <2>2, UpTo
    <2> QED BY <2>3
<1>13. f \in [0..L -> Seq(Word)]
    <2>1. f = [n \in 0..L |-> f[n]]
        BY <1>10
    <2> QED BY <2>1, <1>12
<1> QED BY <1>11, <1>13 DEF L

LEMMA AddLetterType ==
    ASSUME NEW out \in Text, NEW w \in Word
    PROVE  AddLetter(out, w) \in Text
<1>1. w.letter \in Char /\ "_" \in Char
    BY CharAssumption DEF Word, Unreserved
<1> QED BY <1>1, AppendProperties DEF AddLetter, Text

LEMMA JoinedRuns ==
    ASSUME NEW words \in Seq(Word)
    PROVE  /\ JoinedLoop(words) \in [0..Len(words) -> Text]
           /\ JoinedLoop(words)[0] = <<>>
           /\ \A n \in 1..Len(words) :
                JoinedLoop(words)[n] = AddLetter(JoinedLoop(words)[n - 1], words[n])
<1> DEFINE L == Len(words)
           F == [n \in 1..L |-> [x \in Text |-> AddLetter(x, words[n])]]
           IsLoop(g) == g = [n \in 0..L |-> IF n = 0 THEN <<>> ELSE AddLetter(g[n - 1], words[n])]
<1>1. L \in Nat /\ (\A n \in 1..L : words[n] \in Word) /\ <<>> \in Text
    BY LenProperties, ElementOfSeq, EmptySeq DEF Text
<1>2. \A n \in 1..L, x \in Text : AddLetter(x, words[n]) \in Text
    BY <1>1, AddLetterType
<1>3. F \in [1..L -> [Text -> Text]]
    BY <1>2
<1>4. \A n \in 1..L, x \in Text : F[n][x] = AddLetter(x, words[n])
    BY <1>2
<1> HIDE DEF L, F
<1>5. PICK g : g \in Loops(Text, <<>>, L, F)
    <2>1. L \in Nat /\ <<>> \in Text
        BY <1>1
    <2> QED BY <2>1, <1>3, LoopExists, Zenon
<1>6. g \in [0..L -> Text] /\ g[0] = <<>> /\ \A n \in 1..L : g[n] = F[n][g[n - 1]]
    BY <1>5 DEF Loops
<1>7. \A n \in 1..L : g[n] = AddLetter(g[n - 1], words[n])
    <2>1. \A n \in 1..L : g[n - 1] \in Text
        BY <1>1, <1>6
    <2> QED BY <2>1, <1>4, <1>6
<1>8. IsLoop(g)
    <2>1. \A n \in 0..L : g[n] = IF n = 0 THEN <<>> ELSE AddLetter(g[n - 1], words[n])
        BY <1>1, <1>6, <1>7
    <2>2. g = [n \in 0..L |-> g[n]]
        BY <1>6
    <2> QED BY <2>1, <2>2
<1>9. JoinedLoop(words) = CHOOSE f : IsLoop(f)
    BY DEF JoinedLoop, L
<1>10. IsLoop(JoinedLoop(words))
    <2> HIDE DEF IsLoop
    <2> QED BY <1>8, <1>9, Zenon
<1> DEFINE f == JoinedLoop(words)
<1>11. f[0] = <<>> /\ \A n \in 1..L : f[n] = AddLetter(f[n - 1], words[n])
    BY <1>1, <1>10
<1>12. \A n \in 0..L : f[n] \in Text
    <2> DEFINE S == {n \in 0..L : f[n] \in Text}
    <2>1. 0 \in S
        <3>1. f[0] \in Text
            BY <1>1, <1>11, Zenon
        <3> HIDE DEF f
        <3> QED BY <1>1, <3>1
    <2>2. ASSUME NEW n \in 1..L, n - 1 \in S PROVE n \in S
        BY <1>1, <1>2, <1>11, <2>2
    <2>3. \A n \in 0..L : n \in S
        <3> HIDE DEF S
        <3> QED BY <1>1, <2>1, <2>2, UpTo
    <2> QED BY <2>3
<1>13. f \in [0..L -> Text]
    <2>1. f = [n \in 0..L |-> f[n]]
        BY <1>10
    <2> QED BY <2>1, <1>12
<1> QED BY <1>11, <1>13 DEF L


-----------------------------------------------------------------------------
(* One character more.                                                     *)

\* What normalize_string_for_cache has before it takes back a last "_".
Raw(text) == NormalizeLoop(text)[Len(text)]

LEMMA RawEmpty == Raw(<<>>) = <<>>
<1>1. <<>> \in Text /\ Len(<<>>) = 0
    BY EmptySeq DEF Text
<1> QED BY <1>1, NormalizeRuns DEF Raw

LEMMA RawAppend ==
    ASSUME NEW text \in Text, NEW c \in Char
    PROVE  Raw(text) \in Text /\ Raw(Append(text, c)) = NormalizeChar(Raw(text), c)
<1> DEFINE t == Append(text, c)
           L == Len(text)
           g == NormalizeLoop(text)
           h == NormalizeLoop(t)
<1>1. /\ L \in Nat /\ t \in Text /\ Len(t) = L + 1
      /\ (\A i \in 1..L : t[i] = text[i]) /\ t[L + 1] = c
    BY AppendFacts DEF Text
<1>2. /\ g \in [0..L -> Text] /\ g[0] = <<>>
      /\ \A n \in 1..L : g[n] = NormalizeChar(g[n - 1], text[n])
    BY NormalizeRuns
<1>3. h[0] = <<>> /\ \A n \in 1..(L + 1) : h[n] = NormalizeChar(h[n - 1], t[n])
    BY <1>1, NormalizeRuns
<1> HIDE DEF t, g, h, L
<1>4. g[L] = h[L]
    <2>1. g[0] = h[0] /\ L \in Nat
        BY <1>1, <1>2, <1>3
    <2>2. ASSUME NEW n \in 1..L, g[n - 1] = h[n - 1] PROVE g[n] = h[n]
        <3>1. t[n] = text[n] /\ n \in 1..(L + 1)
            BY <1>1
        <3> QED BY <1>2, <1>3, <2>2, <3>1
    <2> QED BY <2>1, <2>2, LoopsAgree
<1>5. h[L + 1] = NormalizeChar(h[L], c)
    BY <1>1, <1>3, L + 1 \in 1..(L + 1), (L + 1) - 1 = L
<1>6. g[L] \in Text
    BY <1>1, <1>2
<1> QED BY <1>1, <1>4, <1>5, <1>6 DEF Raw, t, g, h, L

LEMMA WordsEmpty == Words(<<>>) = <<>>
<1>1. <<>> \in Text /\ Len(<<>>) = 0
    BY EmptySeq DEF Text
<1> QED BY <1>1, WordsRuns DEF Words

LEMMA WordsAppend ==
    ASSUME NEW text \in Text, NEW c \in Char
    PROVE  /\ Words(text) \in Seq(Word)
           /\ c \in Separators => Words(Append(text, c)) = Words(text)
           /\ c \notin Separators =>
                Words(Append(text, c)) =
                  Append(Words(text),
                         [letter |-> LowerCase(c),
                          begins |-> Words(text) # <<>> /\ Last(text) \in Separators])
<1> DEFINE t == Append(text, c)
           L == Len(text)
           g == WordsLoop(text)
           h == WordsLoop(t)
<1>1. /\ L \in Nat /\ t \in Text /\ Len(t) = L + 1
      /\ (\A i \in 1..L : t[i] = text[i]) /\ t[L + 1] = c
    BY AppendFacts DEF Text
<1>2. /\ g \in [0..L -> Seq(Word)] /\ g[0] = <<>>
      /\ \A n \in 1..L : g[n] = AddToWords(g[n - 1], text, n)
    BY WordsRuns
<1>3. h[0] = <<>> /\ \A n \in 1..(L + 1) : h[n] = AddToWords(h[n - 1], t, n)
    BY <1>1, WordsRuns
<1>4. ASSUME NEW n \in 1..L, g[n - 1] = h[n - 1] PROVE g[n] = h[n]
    <2>1. t[n] = text[n]
        BY <1>1
    <2>2. CASE n = 1
        <3>1. g[n - 1] = <<>> /\ h[n - 1] = <<>>
            BY <1>2, <1>3, <2>2
        <3>2. AddToWords(<<>>, text, n) = AddToWords(<<>>, t, n)
            BY <2>1 DEF AddToWords
        <3> QED BY <1>1, <1>2, <1>3, <3>1, <3>2
    <2>3. CASE n # 1
        <3>1. t[n - 1] = text[n - 1]
            BY <1>1, <2>3, n - 1 \in 1..L
        <3>2. AddToWords(g[n - 1], text, n) = AddToWords(h[n - 1], t, n)
            BY <1>4, <2>1, <3>1 DEF AddToWords
        <3> QED BY <1>1, <1>2, <1>3, <3>2
    <2> QED BY <2>2, <2>3
<1>5. g[L] = h[L] /\ g[L] \in Seq(Word)
    <2> HIDE DEF t, g, h, L
    <2>1. g[0] = h[0] /\ L \in Nat
        BY <1>1, <1>2, <1>3
    <2>2. g[L] = h[L]
        BY <1>4, <2>1, LoopsAgree
    <2> QED BY <1>1, <1>2, <2>2
<1>6. h[L + 1] = AddToWords(g[L], t, L + 1)
    <2> HIDE DEF t, g, h, L
    <2> QED BY <1>1, <1>3, <1>5, L + 1 \in 1..(L + 1), (L + 1) - 1 = L
<1>7. g[L] # <<>> => t[(L + 1) - 1] = Last(text)
    <2> HIDE DEF t, g, h
    <2>1. CASE L = 0
        BY <1>2, <2>1
    <2>2. CASE L # 0
        BY <1>1, <2>2 DEF Last, L
    <2> QED BY <2>1, <2>2
<1>8. (g[L] # <<>> /\ t[(L + 1) - 1] \in Separators) = (g[L] # <<>> /\ Last(text) \in Separators)
    BY <1>7
<1>9. Words(text) = g[L] /\ Words(t) = h[L + 1]
    BY <1>1 DEF Words
<1> HIDE DEF t, g, h, L
<1>10. c \in Separators => h[L + 1] = g[L]
    BY <1>1, <1>6 DEF AddToWords
<1>11. c \notin Separators =>
         h[L + 1] = Append(g[L], [letter |-> LowerCase(c),
                                  begins |-> g[L] # <<>> /\ Last(text) \in Separators])
    BY <1>1, <1>6, <1>8, Zenon DEF AddToWords
<1> QED BY <1>5, <1>9, <1>10, <1>11, Zenon DEF t

LEMMA JoinedEmpty == Joined(<<>>) = <<>>
<1>1. <<>> \in Seq(Word) /\ Len(<<>>) = 0
    BY EmptySeq
<1> QED BY <1>1, JoinedRuns DEF Joined

LEMMA JoinedAppend ==
    ASSUME NEW words \in Seq(Word), NEW w \in Word
    PROVE  /\ Joined(words) \in Text
           /\ Joined(Append(words, w)) = AddLetter(Joined(words), w)
<1> DEFINE t == Append(words, w)
           L == Len(words)
           g == JoinedLoop(words)
           h == JoinedLoop(t)
<1>1. /\ L \in Nat /\ t \in Seq(Word) /\ Len(t) = L + 1
      /\ (\A i \in 1..L : t[i] = words[i]) /\ t[L + 1] = w
    BY AppendFacts
<1>2. /\ g \in [0..L -> Text] /\ g[0] = <<>>
      /\ \A n \in 1..L : g[n] = AddLetter(g[n - 1], words[n])
    BY JoinedRuns
<1>3. h[0] = <<>> /\ \A n \in 1..(L + 1) : h[n] = AddLetter(h[n - 1], t[n])
    BY <1>1, JoinedRuns
<1> HIDE DEF t, g, h, L
<1>4. g[L] = h[L]
    <2>1. g[0] = h[0] /\ L \in Nat
        BY <1>1, <1>2, <1>3
    <2>2. ASSUME NEW n \in 1..L, g[n - 1] = h[n - 1] PROVE g[n] = h[n]
        <3>1. t[n] = words[n] /\ n \in 1..(L + 1)
            BY <1>1
        <3> QED BY <1>2, <1>3, <2>2, <3>1
    <2> QED BY <2>1, <2>2, LoopsAgree
<1>5. h[L + 1] = AddLetter(h[L], w)
    BY <1>1, <1>3, L + 1 \in 1..(L + 1), (L + 1) - 1 = L
<1>6. g[L] \in Text
    BY <1>1, <1>2
<1> QED BY <1>1, <1>4, <1>5, <1>6 DEF Joined, t, g, h, L


-----------------------------------------------------------------------------
(* A text that fits is normalized to its words, joined.                    *)

LEMMA AppendText ==
    ASSUME NEW s \in Text, NEW c \in Char
    PROVE  /\ Append(s, c) \in Text
           /\ Append(s, c) # <<>>
           /\ Len(s) \in Nat
           /\ Len(Append(s, c)) = Len(s) + 1
           /\ Last(Append(s, c)) = c
           /\ Front(Append(s, c)) = s
BY AppendFacts DEF Text

LEMMA UnderscoreIsChar == "_" \in Char
BY CharAssumption DEF Unreserved

LEMMA JoinedEnds ==
    ASSUME NEW words \in Seq(Word)
    PROVE  /\ Joined(words) \in Text
           /\ words = <<>> => Joined(words) = <<>>
           /\ words # <<>> => Joined(words) # <<>> /\ Last(Joined(words)) \notin Separators
<1>1. CASE words = <<>>
    BY <1>1, JoinedEmpty, EmptySeq DEF Text
<1>2. CASE words # <<>>
    <2>1. PICK u \in Seq(Word), w \in Word : words = Append(u, w)
        BY <1>2, SequenceEmptyOrAppend
    <2>2. Joined(u) \in Text /\ Joined(words) = AddLetter(Joined(u), w)
        BY <2>1, JoinedAppend
    <2>3. w.letter \in Char \ Separators /\ "_" \in Char
        BY UnderscoreIsChar DEF Word
    <2>4. Append(Joined(u), "_") \in Text
        BY <2>2, <2>3, AppendText
    <2>5. ASSUME NEW out \in Text
          PROVE  /\ Append(out, w.letter) \in Text
                 /\ Append(out, w.letter) # <<>>
                 /\ Last(Append(out, w.letter)) = w.letter
        BY <2>3, AppendText
    <2>6. /\ Joined(words) \in Text /\ Joined(words) # <<>>
          /\ Last(Joined(words)) = w.letter
        BY <2>2, <2>4, <2>5 DEF AddLetter
    <2> QED BY <1>2, <2>3, <2>6
<1> QED BY <1>1, <1>2

\* After each character that the buffer holds it has the words so far, and
\* "_" after them when a separator was last and there is room.
Buffered(text) ==
    LET joined == Joined(Words(text))
    IN  Len(joined) < OutSize =>
          IF Words(text) # <<>> /\ Last(text) \in Separators
            THEN \/ Raw(text) = Append(joined, "_") /\ Len(joined) + 1 < OutSize
                 \/ Raw(text) = joined /\ Len(joined) + 1 = OutSize
            ELSE Raw(text) = joined

LEMMA BufferedSeparator ==
    ASSUME NEW text \in Text, NEW c \in Char, c \in Separators, Buffered(text)
    PROVE  Buffered(Append(text, c))
<1> DEFINE t == Append(text, c)
           J == Joined(Words(text))
<1>1. /\ Words(text) \in Seq(Word) /\ Words(t) = Words(text)
      /\ Raw(text) \in Text /\ Raw(t) = NormalizeChar(Raw(text), c)
      /\ Last(t) = c
    BY WordsAppend, RawAppend, AppendText
<1>2. /\ J \in Text /\ Len(J) \in Nat
      /\ Words(text) = <<>> => J = <<>>
      /\ Words(text) # <<>> => J # <<>> /\ Last(J) # "_"
    BY <1>1, JoinedEnds, AppendText, UnderscoreIsChar DEF Separators
<1>3. /\ Append(J, "_") # <<>> /\ Len(Append(J, "_")) = Len(J) + 1
      /\ Last(Append(J, "_")) = "_"
    BY <1>2, AppendText, UnderscoreIsChar
<1>4. OutSize \in Nat /\ Len(J) \in Nat
    BY <1>2, SizesAssumption
<1>5. SUFFICES ASSUME Len(J) < OutSize
               PROVE  IF Words(text) # <<>>
                        THEN \/ Raw(t) = Append(J, "_") /\ Len(J) + 1 < OutSize
                             \/ Raw(t) = J /\ Len(J) + 1 = OutSize
                        ELSE Raw(t) = J
    BY <1>1 DEF Buffered
<1>6. IF Words(text) # <<>> /\ Last(text) \in Separators
        THEN \/ Raw(text) = Append(J, "_") /\ Len(J) + 1 < OutSize
             \/ Raw(text) = J /\ Len(J) + 1 = OutSize
        ELSE Raw(text) = J
    BY <1>5 DEF Buffered
<1> HIDE DEF J, t
<1>7. CASE Raw(text) = J
    <2>1. Raw(t) = IF Len(J) + 1 >= OutSize THEN J
                   ELSE IF J = <<>> \/ Last(J) = "_" THEN J ELSE Append(J, "_")
        BY <1>1, <1>7 DEF NormalizeChar
    <2>2. CASE Len(J) + 1 >= OutSize
        <3>1. Len(J) + 1 = OutSize
            BY <1>4, <1>5, <2>2
        <3>2. Raw(t) = J
            BY <2>1, <2>2, Zenon
        <3> QED BY <3>1, <3>2, Zenon
    <2>3. CASE ~ (Len(J) + 1 >= OutSize)
        <3>1. Len(J) + 1 < OutSize
            BY <1>4, <2>3
        <3>2. Raw(t) = IF J = <<>> \/ Last(J) = "_" THEN J ELSE Append(J, "_")
            BY <2>1, <2>3, Zenon
        <3> QED BY <1>2, <3>1, <3>2, Zenon
    <2> QED BY <2>2, <2>3
<1>8. CASE Raw(text) = Append(J, "_") /\ Len(J) + 1 < OutSize /\ Words(text) # <<>>
    <2>1. Raw(t) = Raw(text)
        BY <1>1, <1>3, <1>8 DEF NormalizeChar
    <2> QED BY <1>8, <2>1
<1> QED BY <1>6, <1>7, <1>8

LEMMA BufferedLetter ==
    ASSUME NEW text \in Text, NEW c \in Char, c \notin Separators, Buffered(text)
    PROVE  Buffered(Append(text, c))
<1> DEFINE t == Append(text, c)
           J == Joined(Words(text))
           l == LowerCase(c)
           begins == Words(text) # <<>> /\ Last(text) \in Separators
<1>1. /\ Words(text) \in Seq(Word)
      /\ Words(t) = Append(Words(text), [letter |-> l, begins |-> begins])
      /\ Raw(text) \in Text /\ Raw(t) = NormalizeChar(Raw(text), c)
      /\ Last(t) = c
    BY WordsAppend, RawAppend, AppendText
<1>2. /\ l \in Char \ Separators /\ "_" \in Char /\ OutSize \in Nat
      /\ [letter |-> l, begins |-> begins] \in Word
    BY CharAssumption, SizesAssumption DEF LowerCase, Unreserved, Separators, Word
<1>3. /\ J \in Text
      /\ Joined(Words(t)) = IF begins THEN Append(Append(J, "_"), l) ELSE Append(J, l)
    BY <1>1, <1>2, JoinedAppend DEF AddLetter
<1>4. OutSize \in Nat /\ Len(J) \in Nat
    BY <1>3, AppendText, SizesAssumption, UnderscoreIsChar
<1>5. /\ Append(J, "_") \in Text
      /\ Len(Append(J, "_")) = Len(J) + 1
      /\ Len(Append(J, l)) = Len(J) + 1
    <2> HIDE DEF J, l, begins, t
    <2> QED BY <1>2, <1>3, AppendText
<1>6. Len(Append(Append(J, "_"), l)) = (Len(J) + 1) + 1
    <2> HIDE DEF J, l, begins, t
    <2>1. Len(Append(Append(J, "_"), l)) = Len(Append(J, "_")) + 1
        BY <1>2, <1>5, AppendText
    <2> QED BY <1>5, <2>1, Zenon
<1>7. SUFFICES ASSUME Len(Joined(Words(t))) < OutSize
               PROVE  Raw(t) = Joined(Words(t))
    BY <1>1 DEF Buffered
<1>8. Len(J) < OutSize =>
        IF begins
          THEN \/ Raw(text) = Append(J, "_") /\ Len(J) + 1 < OutSize
               \/ Raw(text) = J /\ Len(J) + 1 = OutSize
          ELSE Raw(text) = J
    BY DEF Buffered
<1> HIDE DEF J, t, l, begins
<1>9. Raw(t) = IF Len(Raw(text)) + 1 >= OutSize THEN Raw(text) ELSE Append(Raw(text), l)
    BY <1>1 DEF NormalizeChar, l
<1>10. CASE begins
    <2>1. Joined(Words(t)) = Append(Append(J, "_"), l)
        BY <1>3, <1>10, Zenon
    <2>2. (Len(J) + 1) + 1 < OutSize
        BY <1>7, <1>6, <2>1, Zenon
    <2>3. Len(J) < OutSize /\ Len(J) + 1 # OutSize
        BY <1>4, <2>2
    <2>4. Raw(text) = Append(J, "_")
        BY <1>8, <1>10, <2>3, Zenon
    <2>5. Len(Raw(text)) = Len(J) + 1
        BY <1>5, <2>4, Zenon
    <2>6. ~ (Len(Raw(text)) + 1 >= OutSize)
        BY <1>4, <2>2, <2>5
    <2> QED BY <1>9, <2>1, <2>4, <2>6, Zenon
<1>11. CASE ~begins
    <2>1. Joined(Words(t)) = Append(J, l)
        BY <1>3, <1>11, Zenon
    <2>2. Len(J) + 1 < OutSize
        BY <1>7, <1>5, <2>1, Zenon
    <2>3. Len(J) < OutSize
        BY <1>4, <2>2
    <2>4. Raw(text) = J
        BY <1>8, <1>11, <2>3, Zenon
    <2>5. ~ (Len(Raw(text)) + 1 >= OutSize)
        BY <1>4, <2>2, <2>4
    <2> QED BY <1>9, <2>1, <2>4, <2>5, Zenon
<1> QED BY <1>10, <1>11

\* What fits the buffer is normalized to its words with one "_" between
\* two of them, whatever separated them in the text.
LEMMA NormalizeJoins ==
    ASSUME NEW text \in Text, Len(Joined(Words(text))) < OutSize
    PROVE  Normalize(text) = Joined(Words(text))
<1> DEFINE P == {t \in Text : Buffered(t)}
           J == Joined(Words(text))
<1>1. <<>> \in P
    BY WordsEmpty, JoinedEmpty, RawEmpty, EmptySeq DEF Buffered, Text
<1>2. ASSUME NEW t \in Seq(Char), NEW c \in Char, t \in P PROVE Append(t, c) \in P
    <2>1. Append(t, c) \in Text /\ t \in Text /\ Buffered(t)
        BY <1>2, AppendFacts DEF Text
    <2> QED BY <2>1, BufferedSeparator, BufferedLetter
<1>3. Buffered(text)
    <2>1. \A t \in Seq(Char) : t \in P
        <3> HIDE DEF P
        <3> QED BY <1>1, <1>2, AllSequences
    <2> QED BY <2>1 DEF Text
<1>4. Raw(text) = J \/ Raw(text) = Append(J, "_")
    BY <1>3 DEF Buffered
<1>5. J \in Text /\ (J # <<>> => Last(J) # "_")
    <2>1. Words(text) \in Seq(Word)
        BY WordsRuns, LenProperties DEF Words, Text
    <2> QED BY <2>1, JoinedEnds DEF Separators
<1>6. /\ Append(J, "_") # <<>> /\ Last(Append(J, "_")) = "_"
      /\ Front(Append(J, "_")) = J
    <2> HIDE DEF J
    <2> QED BY <1>5, AppendText, UnderscoreIsChar
<1>7. Normalize(text) = IF Raw(text) # <<>> /\ Last(Raw(text)) = "_"
                          THEN Front(Raw(text)) ELSE Raw(text)
    BY DEF Normalize, Raw
<1> HIDE DEF J
<1>8. Normalize(text) = J
    BY <1>4, <1>5, <1>6, <1>7
<1> QED BY <1>8 DEF J


-----------------------------------------------------------------------------
(* Different words are joined to different texts.                          *)

LEMMA AddLetterInjective ==
    ASSUME NEW x \in Text, NEW y \in Text, NEW a \in Word, NEW b \in Word,
           x # <<>> => Last(x) \notin Separators,
           y # <<>> => Last(y) \notin Separators,
           AddLetter(x, a) = AddLetter(y, b)
    PROVE  x = y /\ a = b
<1> DEFINE xs == Append(x, "_")
           ys == Append(y, "_")
<1>1. a.letter \in Char /\ b.letter \in Char
    BY DEF Word
<1>2. ASSUME NEW s \in Text, NEW t \in Text, NEW c \in Char, NEW d \in Char,
             Append(s, c) = Append(t, d)
      PROVE  s = t /\ c = d
    BY <1>2, AppendInjective DEF Text
<1>3. /\ xs \in Text /\ xs # <<>> /\ Last(xs) \in Separators
      /\ ys \in Text /\ ys # <<>> /\ Last(ys) \in Separators
    BY AppendText, UnderscoreIsChar DEF Separators
<1>4. xs = ys => x = y
    BY <1>2, UnderscoreIsChar
<1>5. /\ AddLetter(x, a) = Append(IF a.begins THEN xs ELSE x, a.letter)
      /\ AddLetter(y, b) = Append(IF b.begins THEN ys ELSE y, b.letter)
    BY DEF AddLetter
<1> HIDE DEF xs, ys
<1>6. /\ (IF a.begins THEN xs ELSE x) = (IF b.begins THEN ys ELSE y)
      /\ a.letter = b.letter
    <2> DEFINE s == IF a.begins THEN xs ELSE x
               t == IF b.begins THEN ys ELSE y
    <2>1. s \in Text /\ t \in Text /\ Append(s, a.letter) = Append(t, b.letter)
        BY <1>3, <1>5
    <2> HIDE DEF s, t
    <2>2. s = t /\ a.letter = b.letter
        BY <1>1, <1>2, <2>1
    <2> QED BY <2>2 DEF s, t
<1>7. a.begins \in BOOLEAN /\ b.begins \in BOOLEAN
    BY DEF Word
<1>8. x = y /\ a.begins = b.begins
    <2>1. CASE a.begins /\ b.begins
        BY <1>4, <1>6, <1>7, <2>1
    <2>2. CASE ~a.begins /\ ~b.begins
        BY <1>6, <1>7, <2>2
    <2>3. CASE a.begins /\ ~b.begins
        BY <1>3, <1>6, <2>3
    <2>4. CASE ~a.begins /\ b.begins
        BY <1>3, <1>6, <2>4
    <2> QED BY <2>1, <2>2, <2>3, <2>4
<1>9. \A v, w \in Word : v.letter = w.letter /\ v.begins = w.begins => v = w
    BY DEF Word
<1> QED BY <1>6, <1>8, <1>9

LEMMA JoinedInjective ==
    ASSUME NEW ws \in Seq(Word), NEW vs \in Seq(Word), Joined(ws) = Joined(vs)
    PROVE  ws = vs
<1> DEFINE P == {u \in Seq(Word) : \A v \in Seq(Word) : Joined(u) = Joined(v) => u = v}
<1>1. <<>> \in P
    <2>1. Joined(<<>>) = <<>> /\ <<>> \in Seq(Word)
        BY JoinedEmpty, EmptySeq
    <2>2. ASSUME NEW v \in Seq(Word), Joined(v) = <<>> PROVE v = <<>>
        BY <2>2, JoinedEnds
    <2> QED BY <2>1, <2>2
<1>2. ASSUME NEW u \in Seq(Word), NEW w \in Word, u \in P PROVE Append(u, w) \in P
    <2>1. Append(u, w) \in Seq(Word) /\ Append(u, w) # <<>>
        BY AppendFacts
    <2>2. SUFFICES ASSUME NEW v \in Seq(Word), Joined(Append(u, w)) = Joined(v)
                   PROVE  Append(u, w) = v
        BY <2>1
    <2>3. v # <<>>
        BY <2>1, <2>2, JoinedEnds
    <2>4. PICK x \in Seq(Word), y \in Word : v = Append(x, y)
        BY <2>3, SequenceEmptyOrAppend
    <2>5. AddLetter(Joined(u), w) = AddLetter(Joined(x), y)
        BY <2>2, <2>4, JoinedAppend
    <2>6. /\ Joined(u) \in Text /\ (Joined(u) # <<>> => Last(Joined(u)) \notin Separators)
          /\ Joined(x) \in Text /\ (Joined(x) # <<>> => Last(Joined(x)) \notin Separators)
        BY JoinedEnds
    <2>7. Joined(u) = Joined(x) /\ w = y
        BY <2>5, <2>6, AddLetterInjective
    <2> QED BY <1>2, <2>4, <2>7
<1>3. ws \in P
    <2> HIDE DEF P
    <2> QED BY <1>1, <1>2, AllSequences
<1> QED BY <1>3

-----------------------------------------------------------------------------
(* A key can be read back: no text that fits contains a label.             *)

Plain == Char \ Labels

LEMMA JoinedIsPlain ==
    ASSUME NEW text \in Seq(Plain)
    PROVE  Joined(Words(text)) \in Seq(Plain)
<1> DEFINE P == {t \in Seq(Plain) : Joined(Words(t)) \in Seq(Plain)}
<1>1. <<>> \in P
    BY WordsEmpty, JoinedEmpty, EmptySeq
<1>2. ASSUME NEW t \in Seq(Plain), NEW c \in Plain, t \in P PROVE Append(t, c) \in P
    <2>1. t \in Text /\ c \in Char
        BY SeqMonotonic DEF Text, Plain
    <2>2. Append(t, c) \in Seq(Plain)
        BY AppendFacts
    <2>3. CASE c \in Separators
        BY <1>2, <2>1, <2>2, <2>3, WordsAppend
    <2>4. CASE c \notin Separators
        <3> DEFINE begins == Words(t) # <<>> /\ Last(t) \in Separators
                   w == [letter |-> LowerCase(c), begins |-> begins]
        <3>1. LowerCase(c) \in Plain \ Separators /\ "_" \in Plain /\ Plain \subseteq Char
            BY <2>4, CharAssumption DEF LowerCase, Plain, Labels, Unreserved, Separators
        <3>2. w \in Word /\ w.letter \in Plain
            BY <3>1 DEF Word
        <3>3. Words(t) \in Seq(Word) /\ Words(Append(t, c)) = Append(Words(t), w)
            BY <2>1, <2>4, WordsAppend
        <3> HIDE DEF w
        <3>4. Joined(Words(Append(t, c))) = AddLetter(Joined(Words(t)), w)
            BY <3>2, <3>3, JoinedAppend
        <3>5. \A s \in Seq(Plain), d \in Plain : Append(s, d) \in Seq(Plain)
            BY AppendFacts
        <3>6. AddLetter(Joined(Words(t)), w) \in Seq(Plain)
            BY <1>2, <3>1, <3>2, <3>5 DEF AddLetter
        <3> QED BY <2>2, <3>4, <3>6
    <2> QED BY <2>3, <2>4
<1>3. text \in P
    <2> HIDE DEF P
    <2> QED BY <1>1, <1>2, AllSequences
<1> QED BY <1>3

\* What a text that fits becomes in a key.
LEMMA KeyText ==
    ASSUME NEW text \in Text, FitsKey(text)
    PROVE  /\ Words(text) \in Seq(Word)
           /\ Normalize(text) = Joined(Words(text))
           /\ Normalize(text) \in Seq(Plain)
<1>1. Len(Joined(Words(text))) < OutSize /\ \A i \in DOMAIN text : text[i] \notin Labels
    BY DEF FitsKey
<1>2. text \in Seq(Plain)
    <2>1. text \in [1..Len(text) -> Char] /\ Len(text) \in Nat /\ DOMAIN text = 1..Len(text)
        BY LenProperties DEF Text
    <2>2. text \in [1..Len(text) -> Plain]
        BY <1>1, <2>1 DEF Plain
    <2> QED BY <2>1, <2>2, SeqDef
<1>3. Words(text) \in Seq(Word)
    BY WordsRuns, LenProperties DEF Words, Text
<1> QED BY <1>1, <1>2, <1>3, NormalizeJoins, JoinedIsPlain

LEMMA SameWords ==
    ASSUME NEW t \in Text, NEW u \in Text, FitsKey(t), FitsKey(u)
    PROVE  (Words(t) = Words(u)) <=> (Normalize(t) = Normalize(u))
BY KeyText, JoinedInjective

LEMMA AppendCancels ==
    ASSUME NEW C, NEW s \in Seq(C), NEW t \in Seq(C), NEW c \in C, NEW d \in C,
           Append(s, c) = Append(t, d)
    PROVE  s = t /\ c = d
BY AppendInjective

\* The last label of a key separates it.
Splits(C, S, l) ==
    \A x, y \in Seq(C), a, b \in Seq(S) :
      (x \o <<l>>) \o a = (y \o <<l>>) \o b => x = y /\ a = b

LEMMA SplitAtLabel ==
    ASSUME NEW C, NEW S, S \subseteq C, NEW l \in C, l \notin S
    PROVE  Splits(C, S, l)
<1> SUFFICES ASSUME NEW x \in Seq(C), NEW y \in Seq(C), NEW a \in Seq(S), NEW b \in Seq(S),
                    (x \o <<l>>) \o a = (y \o <<l>>) \o b
             PROVE  x = y /\ a = b
    BY DEF Splits
<1> DEFINE xl == x \o <<l>>
           yl == y \o <<l>>
           k == xl \o a
<1>1. a \in Seq(C) /\ b \in Seq(C) /\ <<l>> \in Seq(C) /\ Len(<<l>>) = 1 /\ <<l>>[1] = l
    BY SeqMonotonic, AppendProperties, EmptySeq
<1>2. /\ Len(x) \in Nat /\ Len(y) \in Nat /\ Len(a) \in Nat /\ Len(b) \in Nat
    BY LenProperties
<1>3. /\ xl \in Seq(C) /\ Len(xl) = Len(x) + 1 /\ xl[Len(x) + 1] = l
      /\ yl \in Seq(C) /\ Len(yl) = Len(y) + 1 /\ yl[Len(y) + 1] = l
    BY <1>1, <1>2, ConcatProperties
<1> HIDE DEF xl, yl
<1>4. /\ Len(k) = Len(xl) + Len(a)
      /\ \A i \in 1..(Len(xl) + Len(a)) : k[i] = IF i <= Len(xl) THEN xl[i] ELSE a[i - Len(xl)]
    BY <1>1, <1>3, ConcatProperties, ZenonT(60)
<1>5. /\ Len(k) = Len(yl) + Len(b)
      /\ \A i \in 1..(Len(yl) + Len(b)) : k[i] = IF i <= Len(yl) THEN yl[i] ELSE b[i - Len(yl)]
    <2>1. k = yl \o b
        BY DEF xl, yl
    <2> HIDE DEF k
    <2> QED BY <1>1, <1>3, <2>1, ConcatProperties, ZenonT(60)
<1> HIDE DEF k
<1>6. \A i \in 1..Len(a) : a[i] # l
    BY ElementOfSeq
<1>7. \A i \in 1..Len(b) : b[i] # l
    BY ElementOfSeq
<1>8. ~ (Len(x) < Len(y))
    <2>1. SUFFICES ASSUME Len(x) < Len(y) PROVE FALSE
        OBVIOUS
    <2>2. k[Len(y) + 1] = l
        BY <1>2, <1>3, <1>5
    <2>3. k[Len(y) + 1] = a[Len(y) - Len(x)] /\ Len(y) - Len(x) \in 1..Len(a)
        BY <1>2, <1>3, <1>4, <1>5, <2>1
    <2> QED BY <1>6, <2>2, <2>3
<1>9. ~ (Len(y) < Len(x))
    <2>1. SUFFICES ASSUME Len(y) < Len(x) PROVE FALSE
        OBVIOUS
    <2>2. k[Len(x) + 1] = l
        BY <1>2, <1>3, <1>4
    <2>3. k[Len(x) + 1] = b[Len(x) - Len(y)] /\ Len(x) - Len(y) \in 1..Len(b)
        BY <1>2, <1>3, <1>4, <1>5, <2>1
    <2> QED BY <1>7, <2>2, <2>3
<1>10. Len(xl) = Len(yl) /\ Len(a) = Len(b)
    BY <1>2, <1>3, <1>4, <1>5, <1>8, <1>9
<1>11. xl = yl
    <2>1. \A i \in 1..Len(xl) : xl[i] = yl[i]
        BY <1>2, <1>3, <1>4, <1>5, <1>10, SMTT(30)
    <2> QED BY <1>3, <1>10, <2>1, SeqEqual
<1>12. x = y
    <2>1. xl = Append(x, l) /\ yl = Append(y, l)
        BY AppendIsConcat DEF xl, yl
    <2>2. Append(x, l) = Append(y, l)
        BY <1>11, <2>1
    <2> QED BY <2>2, AppendCancels, Zenon
<1>13. a = b
    <2>1. ASSUME NEW i \in 1..Len(a) PROVE a[i] = b[i]
        <3>1. k[Len(xl) + i] = a[i]
            <4>1. /\ Len(xl) + i \in 1..(Len(xl) + Len(a)) /\ ~ (Len(xl) + i <= Len(xl))
                  /\ (Len(xl) + i) - Len(xl) = i
                BY <1>2, <1>3
            <4> QED BY <1>4, <4>1, Zenon
        <3>2. k[Len(yl) + i] = b[i]
            <4>1. i \in 1..Len(b)
                BY <1>10
            <4>2. /\ Len(yl) + i \in 1..(Len(yl) + Len(b)) /\ ~ (Len(yl) + i <= Len(yl))
                  /\ (Len(yl) + i) - Len(yl) = i
                BY <1>2, <1>3, <4>1
            <4> QED BY <1>5, <4>2, Zenon
        <3> QED BY <1>10, <3>1, <3>2
    <2> QED BY <1>1, <1>10, <2>1, SeqEqual
<1> QED BY <1>12, <1>13


-----------------------------------------------------------------------------
(* Questions and their keys.                                               *)

Currents  == {Current(lat, lon) : lat, lon \in Int}
Weathers  == {Weather(city, country, region) : city, country, region \in Text}
Searches  == {Cities(query) : query \in Text}
Questions == Currents \cup Weathers \cup Searches \cup {Homepage, Echo}

\* What keys and paths are made of.
Names == {"current:lat=", ":lon=", "weather:city=", "cities:query=", "homepage:",
          "/v1/weather?city=", "&country=", "&region=", "/v1/cities?query=", "/", "/echo",
          "%", "hex"}
Sign  == Char \cup Names \cup {Printed(v)[1] : v \in Int} \cup {Printed(v)[2] : v \in Int}

LEMMA PrintedFacts ==
    ASSUME NEW v \in Int
    PROVE  Printed(v) \in Seq(Sign) /\ Len(Printed(v)) = 2
<1> DEFINE a == Printed(v)[1]
           b == Printed(v)[2]
<1>1. Printed(v) = <<a, b>>
    BY DEF Printed
<1>2. a \in Sign /\ b \in Sign
    BY DEF Sign
<1> HIDE DEF a, b
<1> QED BY <1>1, <1>2

LEMMA ConcatCancels ==
    ASSUME NEW C, NEW x \in Seq(C), NEW y \in Seq(C), NEW a \in Seq(C), NEW b \in Seq(C),
           Len(x) = Len(y), x \o a = y \o b
    PROVE  x = y /\ a = b
<1> DEFINE k == x \o a
           l == y \o b
<1>1. Len(x) \in Nat /\ Len(y) \in Nat /\ Len(a) \in Nat /\ Len(b) \in Nat
    BY LenProperties
<1>2. /\ Len(k) = Len(x) + Len(a)
      /\ \A i \in 1..(Len(x) + Len(a)) : k[i] = IF i <= Len(x) THEN x[i] ELSE a[i - Len(x)]
    BY ConcatProperties
<1>3. /\ Len(l) = Len(y) + Len(b)
      /\ \A i \in 1..(Len(y) + Len(b)) : l[i] = IF i <= Len(y) THEN y[i] ELSE b[i - Len(y)]
    BY ConcatProperties
<1>4. k = l
    OBVIOUS
<1> HIDE DEF k, l
<1>5. Len(a) = Len(b)
    BY <1>1, <1>2, <1>3, <1>4
<1>6. ASSUME NEW i \in 1..Len(x) PROVE x[i] = y[i]
    <2>1. i \in 1..(Len(x) + Len(a)) /\ i <= Len(x)
        BY <1>1
    <2> QED BY <1>2, <1>3, <1>4, <1>5, <2>1
<1>7. ASSUME NEW i \in 1..Len(a) PROVE a[i] = b[i]
    <2>1. /\ Len(x) + i \in 1..(Len(x) + Len(a)) /\ ~ (Len(x) + i <= Len(x))
          /\ (Len(x) + i) - Len(x) = i
        BY <1>1
    <2> QED BY <1>2, <1>3, <1>4, <1>5, <2>1, Zenon
<1> QED BY <1>5, <1>6, <1>7, SeqEqual

LEMMA FirstKept ==
    ASSUME NEW C, NEW s \in Seq(C), NEW t \in Seq(C), s # <<>>
    PROVE  s \o t \in Seq(C) /\ s \o t # <<>> /\ (s \o t)[1] = s[1]
<1>1. Len(s) \in Nat \ {0} /\ Len(t) \in Nat
    BY EmptySeq, LenProperties
<1>2. s \o t \in Seq(C) /\ Len(s \o t) = Len(s) + Len(t)
    BY ConcatProperties
<1>3. (s \o t)[1] = s[1]
    <2>1. 1 \in 1..(Len(s) + Len(t)) /\ 1 <= Len(s)
        BY <1>1
    <2>2. \A i \in 1..(Len(s) + Len(t)) :
            (s \o t)[i] = IF i <= Len(s) THEN s[i] ELSE t[i - Len(s)]
        BY ConcatProperties
    <2>3. (s \o t)[1] = IF 1 <= Len(s) THEN s[1] ELSE t[1 - Len(s)]
        BY <2>1, <2>2, Zenon
    <2> QED BY <2>1, <2>3, Zenon
<1>4. Len(s \o t) # 0
    BY <1>1, <1>2
<1> QED BY <1>2, <1>3, <1>4, EmptySeq

LEMMA OneSign ==
    ASSUME NEW l \in Sign
    PROVE  <<l>> \in Seq(Sign) /\ Len(<<l>>) = 1 /\ <<l>> # <<>> /\ <<l>>[1] = l
OBVIOUS

LEMMA NamesAreSigns ==
    /\ \A l \in Names \cup Labels : l \in Sign
    /\ Plain \subseteq Sign /\ Char \subseteq Sign
BY CharAssumption DEF Sign, Plain

\* The keys, label by label.
CurrentStart(lat)          == <<"current:lat=">> \o Printed(lat)
WeatherStart(city)         == <<"weather:city=">> \o Normalize(city)
WeatherMiddle(city, country) ==
    (WeatherStart(city) \o <<":country=">>) \o Normalize(country)

LEMMA KeyOf ==
    /\ \A lat, lon :
         Current(lat, lon).key = (CurrentStart(lat) \o <<":lon=">>) \o Printed(lon)
    /\ \A city, country, region :
         Weather(city, country, region).key
           = (WeatherMiddle(city, country) \o <<":region=">>) \o Normalize(region)
    /\ \A query : Cities(query).key = <<"cities:query=">> \o Normalize(query)
    /\ Homepage.key = <<"homepage:">> /\ Echo.key = <<>>
BY DEF Current, Weather, Cities, Homepage, Echo, Request, CurrentStart, WeatherStart,
       WeatherMiddle

LEMMA WhatOf ==
    /\ \A lat, lon : /\ Current(lat, lon).what = "current"
                     /\ Current(lat, lon).args = <<lat, lon>>
    /\ \A city, country, region :
         /\ Weather(city, country, region).what = "weather"
         /\ Weather(city, country, region).args = <<city, country, region>>
    /\ \A query : Cities(query).what = "cities" /\ Cities(query).args = <<query>>
    /\ Homepage.what = "homepage" /\ Homepage.args = <<>>
    /\ Echo.what = "echo" /\ Echo.args = <<>>
BY DEF Current, Weather, Cities, Homepage, Echo, Request

\* The arguments that the properties look at.
LEMMA Arguments1 ==
    \A lat, lon, x, y :
      SameQuestion(Current(lat, lon), Current(x, y))
        <=> Printed(lat) = Printed(x) /\ Printed(lon) = Printed(y)
<1> SUFFICES ASSUME NEW lat, NEW lon, NEW x, NEW y
             PROVE  SameQuestion(Current(lat, lon), Current(x, y))
                      <=> Printed(lat) = Printed(x) /\ Printed(lon) = Printed(y)
    OBVIOUS
<1>1. DOMAIN <<lat, lon>> = {1, 2}
    OBVIOUS
<1>2. /\ <<lat, lon>>[1] = lat /\ <<lat, lon>>[2] = lon
      /\ <<x, y>>[1] = x /\ <<x, y>>[2] = y
    OBVIOUS
<1>3. SameQuestion(Current(lat, lon), Current(x, y))
        <=> \A i \in {1, 2} : Printed(<<lat, lon>>[i]) = Printed(<<x, y>>[i])
    <2> DEFINE r == Current(lat, lon)
               q == Current(x, y)
    <2>1. r.what = q.what /\ r.args = <<lat, lon>> /\ q.args = <<x, y>> /\ r.what = "current"
        BY WhatOf
    <2> HIDE DEF r, q
    <2>2. SameQuestion(r, q) <=> \A i \in {1, 2} : Printed(<<lat, lon>>[i]) = Printed(<<x, y>>[i])
        BY <1>1, <2>1 DEF SameQuestion
    <2> QED BY <2>2 DEF r, q
<1> QED BY <1>2, <1>3, Zenon

LEMMA Arguments2 ==
    \A c, d, e, x, y, z :
      /\ SameQuestion(Weather(c, d, e), Weather(x, y, z))
           <=> Words(c) = Words(x) /\ Words(d) = Words(y) /\ Words(e) = Words(z)
      /\ Fits(Weather(c, d, e)) => FitsKey(c) /\ FitsKey(d) /\ FitsKey(e)
<1> SUFFICES ASSUME NEW c, NEW d, NEW e, NEW x, NEW y, NEW z
             PROVE
      /\ SameQuestion(Weather(c, d, e), Weather(x, y, z))
           <=> Words(c) = Words(x) /\ Words(d) = Words(y) /\ Words(e) = Words(z)
      /\ Fits(Weather(c, d, e)) => FitsKey(c) /\ FitsKey(d) /\ FitsKey(e)
    OBVIOUS
<1>1. DOMAIN <<c, d, e>> = {1, 2, 3}
    OBVIOUS
<1>2. /\ <<c, d, e>>[1] = c /\ <<c, d, e>>[2] = d /\ <<c, d, e>>[3] = e
      /\ <<x, y, z>>[1] = x /\ <<x, y, z>>[2] = y /\ <<x, y, z>>[3] = z
    OBVIOUS
<1>3. "weather" # "current"
    OBVIOUS
<1>4. SameQuestion(Weather(c, d, e), Weather(x, y, z))
        <=> \A i \in {1, 2, 3} : Words(<<c, d, e>>[i]) = Words(<<x, y, z>>[i])
    <2> DEFINE r == Weather(c, d, e)
               q == Weather(x, y, z)
    <2>1. r.what = q.what /\ r.args = <<c, d, e>> /\ q.args = <<x, y, z>> /\ r.what # "current"
        BY WhatOf
    <2> HIDE DEF r, q
    <2>2. SameQuestion(r, q) <=> \A i \in {1, 2, 3} : Words(<<c, d, e>>[i]) = Words(<<x, y, z>>[i])
        BY <1>1, <2>1 DEF SameQuestion
    <2> QED BY <2>2 DEF r, q
<1>5. Fits(Weather(c, d, e)) => \A i \in {1, 2, 3} : FitsKey(<<c, d, e>>[i])
    BY <1>1, <1>3, WhatOf, ZenonT(60) DEF Fits
<1> QED BY <1>2, <1>4, <1>5, Zenon

LEMMA Arguments3 ==
    \A t, u :
      /\ SameQuestion(Cities(t), Cities(u)) <=> Words(t) = Words(u)
      /\ Fits(Cities(t)) => FitsKey(t)
<1> SUFFICES ASSUME NEW t, NEW u
             PROVE  /\ SameQuestion(Cities(t), Cities(u)) <=> Words(t) = Words(u)
                    /\ Fits(Cities(t)) => FitsKey(t)
    OBVIOUS
<1>1. DOMAIN <<t>> = {1} /\ <<t>>[1] = t /\ <<u>>[1] = u
    OBVIOUS
<1>2. "cities" # "current"
    OBVIOUS
<1>3. SameQuestion(Cities(t), Cities(u))
        <=> \A i \in {1} : Words(<<t>>[i]) = Words(<<u>>[i])
    <2> DEFINE r == Cities(t)
               q == Cities(u)
    <2>1. r.what = q.what /\ r.args = <<t>> /\ q.args = <<u>> /\ r.what # "current"
        BY WhatOf
    <2> HIDE DEF r, q
    <2>2. SameQuestion(r, q) <=> \A i \in {1} : Words(<<t>>[i]) = Words(<<u>>[i])
        BY <1>1, <2>1 DEF SameQuestion
    <2> QED BY <2>2 DEF r, q
<1>4. Fits(Cities(t)) => \A i \in {1} : FitsKey(<<t>>[i])
    BY <1>1, <1>2, WhatOf, Zenon DEF Fits
<1> QED BY <1>1, <1>3, <1>4, Zenon

\* The kinds of questions, by what they ask.
LEMMA Kinds ==
    ASSUME NEW r \in Questions
    PROVE  \/ r.what = "current" /\ r \in Currents
           \/ r.what = "weather" /\ r \in Weathers
           \/ r.what = "cities" /\ r \in Searches
           \/ r.what = "homepage" /\ r = Homepage
           \/ r.what = "echo" /\ r = Echo
<1>1. ASSUME r \in Currents PROVE r.what = "current"
    BY <1>1, WhatOf DEF Currents
<1>2. ASSUME r \in Weathers PROVE r.what = "weather"
    BY <1>2, WhatOf DEF Weathers
<1>3. ASSUME r \in Searches PROVE r.what = "cities"
    BY <1>3, WhatOf DEF Searches
<1>4. Homepage.what = "homepage" /\ Echo.what = "echo"
    BY WhatOf
<1> QED BY <1>1, <1>2, <1>3, <1>4, Zenon DEF Questions

LEMMA NormalizedIsSigns ==
    ASSUME NEW t \in Text, FitsKey(t)
    PROVE  Normalize(t) \in Seq(Sign)
BY KeyText, NamesAreSigns, SeqMonotonic, Zenon

LEMMA StartsAreSigns ==
    /\ \A lat \in Int : CurrentStart(lat) \in Seq(Sign) /\ CurrentStart(lat) # <<>>
                          /\ CurrentStart(lat)[1] = "current:lat="
    /\ \A c \in Text : FitsKey(c) => /\ WeatherStart(c) \in Seq(Sign) /\ WeatherStart(c) # <<>>
                                     /\ WeatherStart(c)[1] = "weather:city="
<1> DEFINE l == "current:lat="
           w == "weather:city="
<1>1. l \in Sign /\ w \in Sign
    BY NamesAreSigns DEF Names
<1> HIDE DEF l, w
<1>2. /\ <<l>> \in Seq(Sign) /\ <<l>> # <<>> /\ <<l>>[1] = l
      /\ <<w>> \in Seq(Sign) /\ <<w>> # <<>> /\ <<w>>[1] = w
    BY <1>1, OneSign, Zenon
<1>3. \A lat \in Int : /\ <<l>> \o Printed(lat) \in Seq(Sign) /\ <<l>> \o Printed(lat) # <<>>
                       /\ (<<l>> \o Printed(lat))[1] = l
    BY <1>2, PrintedFacts, FirstKept, Zenon
<1>4. \A c \in Text : FitsKey(c) =>
        /\ <<w>> \o Normalize(c) \in Seq(Sign) /\ <<w>> \o Normalize(c) # <<>>
        /\ (<<w>> \o Normalize(c))[1] = w
    BY <1>2, NormalizedIsSigns, FirstKept, Zenon
<1> QED BY <1>3, <1>4, Zenon DEF CurrentStart, WeatherStart, l, w

LEMMA MiddleIsSigns ==
    ASSUME NEW c \in Text, NEW d \in Text, FitsKey(c), FitsKey(d)
    PROVE  /\ WeatherStart(c) \o <<":country=">> \in Seq(Sign)
           /\ WeatherMiddle(c, d) \in Seq(Sign) /\ WeatherMiddle(c, d) # <<>>
           /\ WeatherMiddle(c, d)[1] = "weather:city="
<1> DEFINE l == ":country="
           s == WeatherStart(c)
<1>1. l \in Sign
    BY NamesAreSigns DEF Labels
<1>2. s \in Seq(Sign) /\ s # <<>> /\ s[1] = "weather:city="
    BY StartsAreSigns, Zenon
<1> HIDE DEF l, s
<1>3. <<l>> \in Seq(Sign)
    BY <1>1, OneSign, Zenon
<1>4. s \o <<l>> \in Seq(Sign) /\ s \o <<l>> # <<>> /\ (s \o <<l>>)[1] = s[1]
    BY <1>2, <1>3, FirstKept, Zenon
<1>5. Normalize(d) \in Seq(Sign)
    BY NormalizedIsSigns, Zenon
<1>6. /\ (s \o <<l>>) \o Normalize(d) \in Seq(Sign)
      /\ (s \o <<l>>) \o Normalize(d) # <<>>
      /\ ((s \o <<l>>) \o Normalize(d))[1] = (s \o <<l>>)[1]
    BY <1>4, <1>5, FirstKept, Zenon
<1> QED BY <1>2, <1>4, <1>6, Zenon DEF WeatherMiddle, l, s

\* The first sign of a key tells what it is the key of.
LEMMA KeyStarts ==
    ASSUME NEW r \in Questions, Fits(r)
    PROVE  /\ r.what = "echo" <=> r.key = <<>>
           /\ r.what = "current" => r.key[1] = "current:lat="
           /\ r.what = "weather" => r.key[1] = "weather:city="
           /\ r.what = "cities" => r.key[1] = "cities:query="
           /\ r.what = "homepage" => r.key[1] = "homepage:"
<1>1. CASE r.what = "current" /\ r \in Currents
    <2>1. PICK lat \in Int, lon \in Int : r = Current(lat, lon)
        BY <1>1 DEF Currents
    <2> DEFINE l == ":lon="
    <2>2. l \in Sign
        BY NamesAreSigns DEF Names
    <2> HIDE DEF l
    <2>3. <<l>> \in Seq(Sign)
        BY <2>2, OneSign, Zenon
    <2>4. /\ CurrentStart(lat) \in Seq(Sign) /\ CurrentStart(lat) # <<>>
          /\ CurrentStart(lat)[1] = "current:lat="
        BY StartsAreSigns, Zenon
    <2>5. /\ CurrentStart(lat) \o <<l>> \in Seq(Sign) /\ CurrentStart(lat) \o <<l>> # <<>>
          /\ (CurrentStart(lat) \o <<l>>)[1] = CurrentStart(lat)[1]
        BY <2>3, <2>4, FirstKept, Zenon
    <2>6. Printed(lon) \in Seq(Sign)
        BY PrintedFacts, Zenon
    <2>7. /\ (CurrentStart(lat) \o <<l>>) \o Printed(lon) # <<>>
          /\ ((CurrentStart(lat) \o <<l>>) \o Printed(lon))[1] = (CurrentStart(lat) \o <<l>>)[1]
        BY <2>5, <2>6, FirstKept, Zenon
    <2>8. r.key # <<>> /\ r.key[1] = "current:lat="
        BY <2>1, <2>4, <2>5, <2>7, KeyOf, Zenon DEF l
    <2> QED BY <1>1, <2>8
<1>2. CASE r.what = "weather" /\ r \in Weathers
    <2>1. PICK c \in Text, d \in Text, e \in Text : r = Weather(c, d, e)
        BY <1>2 DEF Weathers
    <2>2. FitsKey(c) /\ FitsKey(d) /\ FitsKey(e)
        BY <2>1, Arguments2, Zenon
    <2> DEFINE l == ":region="
               s == WeatherMiddle(c, d)
    <2>3. l \in Sign
        BY NamesAreSigns DEF Labels
    <2>4. s \in Seq(Sign) /\ s # <<>> /\ s[1] = "weather:city="
        BY <2>2, MiddleIsSigns, Zenon
    <2> HIDE DEF l, s
    <2>5. <<l>> \in Seq(Sign)
        BY <2>3, OneSign, Zenon
    <2>6. s \o <<l>> \in Seq(Sign) /\ s \o <<l>> # <<>> /\ (s \o <<l>>)[1] = s[1]
        BY <2>4, <2>5, FirstKept, Zenon
    <2>7. Normalize(e) \in Seq(Sign)
        BY <2>2, NormalizedIsSigns, Zenon
    <2>8. /\ (s \o <<l>>) \o Normalize(e) # <<>>
          /\ ((s \o <<l>>) \o Normalize(e))[1] = (s \o <<l>>)[1]
        BY <2>6, <2>7, FirstKept, Zenon
    <2>9. r.key # <<>> /\ r.key[1] = "weather:city="
        BY <2>1, <2>4, <2>6, <2>8, KeyOf, Zenon DEF l, s
    <2> QED BY <1>2, <2>9
<1>3. CASE r.what = "cities" /\ r \in Searches
    <2>1. PICK t \in Text : r = Cities(t)
        BY <1>3 DEF Searches
    <2>2. FitsKey(t)
        BY <2>1, Arguments3, Zenon
    <2> DEFINE l == "cities:query="
    <2>3. l \in Sign
        BY NamesAreSigns DEF Names
    <2> HIDE DEF l
    <2>4. <<l>> \in Seq(Sign) /\ <<l>> # <<>> /\ <<l>>[1] = l
        BY <2>3, OneSign, Zenon
    <2>5. Normalize(t) \in Seq(Sign)
        BY <2>2, NormalizedIsSigns, Zenon
    <2>6. <<l>> \o Normalize(t) # <<>> /\ (<<l>> \o Normalize(t))[1] = l
        BY <2>4, <2>5, FirstKept, Zenon
    <2>7. r.key # <<>> /\ r.key[1] = l
        BY <2>1, <2>6, KeyOf, Zenon DEF l
    <2> QED BY <1>3, <2>7 DEF l
<1>4. CASE r.what = "homepage" /\ r = Homepage
    BY <1>4, KeyOf
<1>5. CASE r.what = "echo" /\ r = Echo
    BY <1>5, KeyOf
<1> QED BY <1>1, <1>2, <1>3, <1>4, <1>5, Kinds, Zenon

LEMMA BothCancel ==
    ASSUME NEW C, NEW x \in Seq(C), NEW y \in Seq(C), NEW a \in Seq(C), NEW b \in Seq(C)
    PROVE  Len(x) = Len(y) /\ x \o a = y \o b => x = y /\ a = b
BY ConcatCancels, Zenon

\* The parts of a key whose numbers have one length.
Keeps(C, c, l) ==
    \A a, b, x, y \in Seq(C) :
      Len(a) = Len(x) => (((c \o a) \o l) \o b = ((c \o x) \o l) \o y => a = x /\ b = y)

LEMMA NumbersKept ==
    ASSUME NEW C, NEW c \in Seq(C), NEW l \in Seq(C)
    PROVE  Keeps(C, c, l)
<1> SUFFICES ASSUME NEW a \in Seq(C), NEW b \in Seq(C), NEW x \in Seq(C), NEW y \in Seq(C),
                    Len(a) = Len(x)
             PROVE  ((c \o a) \o l) \o b = ((c \o x) \o l) \o y => a = x /\ b = y
    BY DEF Keeps
<1> DEFINE p == c \o a
           q == c \o x
<1>1. p \in Seq(C) /\ q \in Seq(C) /\ Len(p) = Len(q)
    BY ConcatProperties, ZenonT(60)
<1>2. p = q => a = x
    BY BothCancel, ZenonT(60)
<1> HIDE DEF p, q
<1> DEFINE s == p \o l
           t == q \o l
<1>3. s \in Seq(C) /\ t \in Seq(C) /\ Len(s) = Len(t)
    <2>1. s \in Seq(C) /\ Len(s) = Len(p) + Len(l)
        BY <1>1, ConcatProperties
    <2>2. t \in Seq(C) /\ Len(t) = Len(q) + Len(l)
        BY <1>1, ConcatProperties
    <2> QED BY <1>1, <2>1, <2>2
<1>4. s = t => p = q
    BY <1>1, BothCancel, ZenonT(30)
<1> HIDE DEF s, t
<1>5. s \o b = t \o y => s = t /\ b = y
    BY <1>3, BothCancel, ZenonT(30)
<1> QED BY <1>2, <1>4, <1>5 DEF p, q, s, t

LEMMA SignsSplit ==
    ASSUME NEW l \in Sign \ Plain, NEW x \in Seq(Sign), NEW y \in Seq(Sign)
    PROVE  \A a, b \in Seq(Plain) :
             (x \o <<l>>) \o a = (y \o <<l>>) \o b => x = y /\ a = b
<1>1. Splits(Sign, Plain, l)
    BY NamesAreSigns, SplitAtLabel
<1> QED BY <1>1, Zenon DEF Splits

\* Within one kind, the keys are equal exactly when the questions are.
LEMMA CurrentKeys ==
    ASSUME NEW lat \in Int, NEW lon \in Int, NEW x \in Int, NEW y \in Int
    PROVE  Current(lat, lon).key = Current(x, y).key
             <=> SameQuestion(Current(lat, lon), Current(x, y))
<1> DEFINE l == ":lon="
           c == "current:lat="
           a == Printed(lat)
           b == Printed(lon)
           d == Printed(x)
           e == Printed(y)
<1>1. l \in Sign /\ c \in Sign
    BY NamesAreSigns DEF Names
<1>2. /\ Current(lat, lon).key = ((<<c>> \o a) \o <<l>>) \o b
      /\ Current(x, y).key = ((<<c>> \o d) \o <<l>>) \o e
    BY KeyOf DEF CurrentStart
<1>3. /\ a \in Seq(Sign) /\ b \in Seq(Sign) /\ d \in Seq(Sign) /\ e \in Seq(Sign)
      /\ Len(a) = Len(d)
    BY PrintedFacts
<1>4. SameQuestion(Current(lat, lon), Current(x, y)) <=> a = d /\ b = e
    BY Arguments1
<1> HIDE DEF l, c, a, b, d, e
<1> DEFINE ll == <<l>>
           cc == <<c>>
<1>5. ll \in Seq(Sign) /\ cc \in Seq(Sign)
    BY <1>1, OneSign
<1> HIDE DEF ll, cc
<1>6. ((cc \o a) \o ll) \o b = ((cc \o d) \o ll) \o e => a = d /\ b = e
    <2>1. Keeps(Sign, cc, ll)
        BY <1>5, NumbersKept, Zenon
    <2> QED BY <1>3, <2>1, Zenon DEF Keeps
<1> QED BY <1>2, <1>4, <1>6 DEF ll, cc

LEMMA CityKeys ==
    ASSUME NEW t \in Text, NEW u \in Text, FitsKey(t), FitsKey(u)
    PROVE  Cities(t).key = Cities(u).key <=> SameQuestion(Cities(t), Cities(u))
<1> DEFINE l == "cities:query="
<1>1. l \in Sign
    BY NamesAreSigns DEF Names
<1> HIDE DEF l
<1>2. <<l>> \in Seq(Sign)
    BY <1>1, OneSign, Zenon
<1>3. Normalize(t) \in Seq(Sign) /\ Normalize(u) \in Seq(Sign)
    BY NormalizedIsSigns, Zenon
<1>4. Cities(t).key = <<l>> \o Normalize(t) /\ Cities(u).key = <<l>> \o Normalize(u)
    BY KeyOf, Zenon DEF l
<1>5. SameQuestion(Cities(t), Cities(u)) <=> Normalize(t) = Normalize(u)
    BY Arguments3, SameWords
<1>6. <<l>> \o Normalize(t) = <<l>> \o Normalize(u) => Normalize(t) = Normalize(u)
    BY <1>2, <1>3, BothCancel, ZenonT(30)
<1> QED BY <1>4, <1>5, <1>6, Zenon

LEMMA WeatherKeys ==
    ASSUME NEW c \in Text, NEW d \in Text, NEW e \in Text,
           NEW x \in Text, NEW y \in Text, NEW z \in Text,
           FitsKey(c), FitsKey(d), FitsKey(e), FitsKey(x), FitsKey(y), FitsKey(z)
    PROVE  Weather(c, d, e).key = Weather(x, y, z).key
             <=> SameQuestion(Weather(c, d, e), Weather(x, y, z))
<1> DEFINE w == "weather:city="
           l == ":country="
           m == ":region="
<1>1. w \in Sign /\ l \in Sign \ Plain /\ m \in Sign \ Plain
    BY NamesAreSigns DEF Names, Labels, Plain
<1> HIDE DEF w, l, m
<1>2. /\ Normalize(c) \in Seq(Plain) /\ Normalize(d) \in Seq(Plain)
      /\ Normalize(e) \in Seq(Plain) /\ Normalize(x) \in Seq(Plain)
      /\ Normalize(y) \in Seq(Plain) /\ Normalize(z) \in Seq(Plain)
    BY KeyText, Zenon
<1>3. /\ WeatherStart(c) \in Seq(Sign) /\ WeatherStart(x) \in Seq(Sign)
      /\ WeatherMiddle(c, d) \in Seq(Sign) /\ WeatherMiddle(x, y) \in Seq(Sign)
    BY StartsAreSigns, MiddleIsSigns, Zenon
<1>4. /\ Weather(c, d, e).key = (WeatherMiddle(c, d) \o <<m>>) \o Normalize(e)
      /\ Weather(x, y, z).key = (WeatherMiddle(x, y) \o <<m>>) \o Normalize(z)
    BY KeyOf, Zenon DEF m
<1>5. /\ WeatherMiddle(c, d) = (WeatherStart(c) \o <<l>>) \o Normalize(d)
      /\ WeatherMiddle(x, y) = (WeatherStart(x) \o <<l>>) \o Normalize(y)
      /\ WeatherStart(c) = <<w>> \o Normalize(c)
      /\ WeatherStart(x) = <<w>> \o Normalize(x)
    BY DEF WeatherMiddle, WeatherStart, l, w
<1>6. SameQuestion(Weather(c, d, e), Weather(x, y, z))
        <=> /\ Normalize(c) = Normalize(x)
            /\ Normalize(d) = Normalize(y)
            /\ Normalize(e) = Normalize(z)
    BY Arguments2, SameWords
<1>7. ASSUME (WeatherMiddle(c, d) \o <<m>>) \o Normalize(e)
               = (WeatherMiddle(x, y) \o <<m>>) \o Normalize(z)
      PROVE  /\ Normalize(c) = Normalize(x)
             /\ Normalize(d) = Normalize(y)
             /\ Normalize(e) = Normalize(z)
    <2>1. WeatherMiddle(c, d) = WeatherMiddle(x, y) /\ Normalize(e) = Normalize(z)
        <3>1. \A a, b \in Seq(Plain) :
                (WeatherMiddle(c, d) \o <<m>>) \o a = (WeatherMiddle(x, y) \o <<m>>) \o b
                  => WeatherMiddle(c, d) = WeatherMiddle(x, y) /\ a = b
            BY <1>1, <1>3, SignsSplit, Zenon
        <3> QED BY <1>2, <1>7, <3>1, Zenon
    <2>2. (WeatherStart(c) \o <<l>>) \o Normalize(d) = (WeatherStart(x) \o <<l>>) \o Normalize(y)
        BY <1>5, <2>1, Zenon
    <2>3. WeatherStart(c) = WeatherStart(x) /\ Normalize(d) = Normalize(y)
        <3>1. \A a, b \in Seq(Plain) :
                (WeatherStart(c) \o <<l>>) \o a = (WeatherStart(x) \o <<l>>) \o b
                  => WeatherStart(c) = WeatherStart(x) /\ a = b
            BY <1>1, <1>3, SignsSplit, Zenon
        <3> QED BY <1>2, <2>2, <3>1, Zenon
    <2>4. <<w>> \in Seq(Sign) /\ Normalize(c) \in Seq(Sign) /\ Normalize(x) \in Seq(Sign)
        BY <1>1, OneSign, NormalizedIsSigns, Zenon
    <2>5. <<w>> \o Normalize(c) = <<w>> \o Normalize(x)
        BY <1>5, <2>3, Zenon
    <2>6. Normalize(c) = Normalize(x)
        BY <2>4, <2>5, ConcatCancels
    <2> QED BY <2>1, <2>3, <2>6
<1> QED BY <1>4, <1>5, <1>6, <1>7, Zenon

(***************************************************************************)
(* Two questions that fit the buffers have one key exactly when they ask   *)
(* for the same: neither truncation, nor case, nor the separators, nor the *)
(* layout of the key gives a question the file of another, and every       *)
(* spelling of a question finds its file.                                  *)
(***************************************************************************)
THEOREM KeysTellQuestions ==
    \A r, q \in Questions :
      Fits(r) /\ Fits(q) => (r.key = q.key <=> SameQuestion(r, q))
<1> SUFFICES ASSUME NEW r \in Questions, NEW q \in Questions, Fits(r), Fits(q)
             PROVE  r.key = q.key <=> SameQuestion(r, q)
    OBVIOUS
<1>1. SameQuestion(r, q) => r.what = q.what
    BY DEF SameQuestion
<1>2. r.key = q.key => r.what = q.what
    BY KeyStarts, Kinds
<1>3. CASE r.what = "current" /\ q.what = "current"
    <2>1. r \in Currents /\ q \in Currents
        BY <1>3, Kinds
    <2>2. PICK lat \in Int, lon \in Int : r = Current(lat, lon)
        BY <2>1 DEF Currents
    <2>3. PICK x \in Int, y \in Int : q = Current(x, y)
        BY <2>1 DEF Currents
    <2> QED BY <2>2, <2>3, CurrentKeys
<1>4. CASE r.what = "weather" /\ q.what = "weather"
    <2>1. r \in Weathers /\ q \in Weathers
        BY <1>4, Kinds
    <2>2. PICK c \in Text, d \in Text, e \in Text : r = Weather(c, d, e)
        BY <2>1 DEF Weathers
    <2>3. PICK x \in Text, y \in Text, z \in Text : q = Weather(x, y, z)
        BY <2>1 DEF Weathers
    <2>4. FitsKey(c) /\ FitsKey(d) /\ FitsKey(e) /\ FitsKey(x) /\ FitsKey(y) /\ FitsKey(z)
        BY <2>2, <2>3, Arguments2, Zenon
    <2> QED BY <2>2, <2>3, <2>4, WeatherKeys, SMTT(30)
<1>5. CASE r.what = "cities" /\ q.what = "cities"
    <2>1. r \in Searches /\ q \in Searches
        BY <1>5, Kinds
    <2>2. PICK t \in Text : r = Cities(t)
        BY <2>1 DEF Searches
    <2>3. PICK u \in Text : q = Cities(u)
        BY <2>1 DEF Searches
    <2>4. FitsKey(t) /\ FitsKey(u)
        BY <2>2, <2>3, Arguments3, Zenon
    <2> QED BY <2>2, <2>3, <2>4, CityKeys, Zenon
<1>6. CASE r.what = q.what /\ r.what \in {"homepage", "echo"}
    <2>1. r = q /\ (r = Homepage \/ r = Echo)
        BY <1>6, Kinds
    <2>2. DOMAIN r.args = {}
        BY <2>1, WhatOf
    <2>3. SameQuestion(r, r)
        BY <2>2 DEF SameQuestion
    <2> QED BY <2>1, <2>3
<1> QED BY <1>1, <1>2, <1>3, <1>4, <1>5, <1>6, Kinds

-----------------------------------------------------------------------------
(* Sequences of sequences, one after the other.                            *)

LEMMA FlattenLoop ==
    ASSUME NEW C, NEW ss \in Seq(Seq(C)), NEW g, g[0] = <<>>,
           \A n \in 0..Len(ss) : g[n] \in Seq(C),
           \A n \in 1..Len(ss) : g[n] = g[n - 1] \o ss[n]
    PROVE  FlattenSeq(ss) = g[Len(ss)]
<1> DEFINE L == Len(ss)
           IsLoop(f) == f = [i \in 1..L |-> IF i = 1 THEN ss[i] ELSE f[i - 1] \o ss[i]]
<1>1. L \in Nat /\ \A n \in 1..L : ss[n] \in Seq(C)
    BY LenProperties, ElementOfSeq
<1>2. CASE L = 0
    <2>1. ss = <<>>
        BY <1>2, EmptySeq
    <2> QED BY <1>2, <2>1 DEF FlattenSeq
<1>3. CASE L # 0
    <2> DEFINE h == [i \in 1..L |-> g[i]]
    <2>1. g[1] = ss[1]
        <3>1. 1 \in 1..L /\ 1 - 1 = 0
            BY <1>1, <1>3
        <3>2. g[1] = <<>> \o ss[1]
            BY <3>1
        <3> QED BY <1>1, <3>1, <3>2, ConcatEmptySeq
    <2>2. IsLoop(h)
        <3>1. \A i \in 1..L : h[i] = IF i = 1 THEN ss[i] ELSE h[i - 1] \o ss[i]
            <4>1. SUFFICES ASSUME NEW i \in 1..L
                           PROVE  h[i] = IF i = 1 THEN ss[i] ELSE h[i - 1] \o ss[i]
                OBVIOUS
            <4>2. CASE i = 1
                BY <2>1, <4>2
            <4>3. CASE i # 1
                <5>1. i - 1 \in 1..L
                    BY <1>1, <4>3
                <5>2. h[i] = g[i] /\ h[i - 1] = g[i - 1]
                    BY <5>1
                <5>3. g[i] = g[i - 1] \o ss[i]
                    BY <4>1
                <5> QED BY <4>3, <5>2, <5>3, Zenon
            <4> QED BY <4>2, <4>3
        <3>2. h = [i \in 1..L |-> h[i]]
            OBVIOUS
        <3> HIDE DEF h
        <3> QED BY <3>1, <3>2
    <2> DEFINE f == CHOOSE u : IsLoop(u)
    <2>3. FlattenSeq(ss) = f[L]
        BY <1>3 DEF FlattenSeq
    <2>4. IsLoop(f)
        <3> HIDE DEF IsLoop, h
        <3> QED BY <2>2, Zenon
    <2> HIDE DEF f
    <2>5. \A i \in 1..L : f[i] = IF i = 1 THEN ss[i] ELSE f[i - 1] \o ss[i]
        BY <2>4
    <2> DEFINE S == {n \in 0..L : n # 0 => f[n] = g[n]}
    <2>6. 0 \in S
        BY <1>1
    <2>7. ASSUME NEW n \in 1..L, n - 1 \in S PROVE n \in S
        <3>1. CASE n = 1
            BY <2>1, <2>5, <3>1
        <3>2. CASE n # 1
            <4>1. f[n - 1] = g[n - 1]
                BY <2>7, <3>2
            <4>2. f[n] = f[n - 1] \o ss[n]
                BY <2>5, <3>2
            <4>3. g[n] = g[n - 1] \o ss[n]
                BY <2>7
            <4>4. f[n] = g[n]
                BY <4>1, <4>2, <4>3, Zenon
            <4>5. n \in 0..L
                BY <1>1, <2>7
            <4> QED BY <4>4, <4>5, Zenon
        <3> QED BY <3>1, <3>2
    <2>8. L \in S
        <3>1. L \in Nat /\ 0 \in S /\ \A n \in 1..L : n - 1 \in S => n \in S
            BY <1>1, <2>6, <2>7, Zenon
        <3> HIDE DEF S, L
        <3>2. \A n \in 0..L : n \in S
            BY <3>1, UpTo, Zenon
        <3> QED BY <3>1, <3>2
    <2> QED BY <1>3, <2>3, <2>8
<1> QED BY <1>2, <1>3

LEMMA FlattenRuns ==
    ASSUME NEW C, NEW ss \in Seq(Seq(C))
    PROVE  \E g : /\ g[0] = <<>>
                  /\ \A n \in 0..Len(ss) : g[n] \in Seq(C)
                  /\ \A n \in 1..Len(ss) : g[n] = g[n - 1] \o ss[n]
<1> DEFINE L == Len(ss)
           F == [n \in 1..L |-> [x \in Seq(C) |-> x \o ss[n]]]
<1>1. L \in Nat /\ (\A n \in 1..L : ss[n] \in Seq(C)) /\ <<>> \in Seq(C)
    BY LenProperties, ElementOfSeq, EmptySeq
<1>2. \A n \in 1..L, x \in Seq(C) : x \o ss[n] \in Seq(C)
    BY <1>1, ConcatProperties
<1>3. F \in [1..L -> [Seq(C) -> Seq(C)]]
    BY <1>2
<1>4. \A n \in 1..L, x \in Seq(C) : F[n][x] = x \o ss[n]
    OBVIOUS
<1> HIDE DEF L, F
<1>5. PICK g : g \in Loops(Seq(C), <<>>, L, F)
    <2>1. L \in Nat /\ <<>> \in Seq(C)
        BY <1>1
    <2> QED BY <2>1, <1>3, LoopExists, Zenon
<1>6. g \in [0..L -> Seq(C)] /\ g[0] = <<>> /\ \A n \in 1..L : g[n] = F[n][g[n - 1]]
    BY <1>5 DEF Loops
<1>7. \A n \in 0..L : g[n] \in Seq(C)
    BY <1>6
<1>8. \A n \in 1..L : g[n] = g[n - 1] \o ss[n]
    <2>1. \A n \in 1..L : g[n - 1] \in Seq(C)
        BY <1>1, <1>6
    <2> QED BY <2>1, <1>4, <1>6, Zenon
<1> QED BY <1>6, <1>7, <1>8 DEF L

LEMMA FlattenEmpty == FlattenSeq(<<>>) = <<>>
BY EmptySeq DEF FlattenSeq

LEMMA FlattenAppend ==
    ASSUME NEW C, NEW ss \in Seq(Seq(C)), NEW x \in Seq(C)
    PROVE  /\ FlattenSeq(Append(ss, x)) = FlattenSeq(ss) \o x
           /\ FlattenSeq(ss) \in Seq(C)
<1> DEFINE L == Len(ss)
           a == Append(ss, x)
<1>1. PICK g : /\ g[0] = <<>>
               /\ \A n \in 0..L : g[n] \in Seq(C)
               /\ \A n \in 1..L : g[n] = g[n - 1] \o ss[n]
    BY FlattenRuns, Zenon
<1>2. /\ L \in Nat /\ a \in Seq(Seq(C)) /\ Len(a) = L + 1
      /\ a[L + 1] = x /\ \A n \in 1..L : a[n] = ss[n]
    BY AppendFacts
<1>3. FlattenSeq(ss) = g[L]
    BY <1>1, FlattenLoop, Zenon
<1>4. g[L] \in Seq(C) /\ g[L] \o x \in Seq(C)
    BY <1>1, <1>2, ConcatProperties
<1> DEFINE y == g[L] \o x
           h == [n \in 0..(L + 1) |-> IF n = L + 1 THEN y ELSE g[n]]
<1> HIDE DEF a, L, y
<1>5. h[0] = <<>> /\ h[L + 1] = g[L] \o x /\ \A n \in 0..L : h[n] = g[n]
    <2>1. \A n \in 0..L : h[n] = g[n]
        BY <1>2
    <2>2. h[L + 1] = y
        BY <1>2
    <2>3. h[0] = g[0]
        BY <1>2, <2>1
    <2> HIDE DEF h
    <2> QED BY <1>1, <2>1, <2>2, <2>3, Zenon DEF y
<1> HIDE DEF h
<1>6. \A n \in 0..(L + 1) : h[n] \in Seq(C)
    <2>1. \A n \in 0..(L + 1) : n = L + 1 \/ n \in 0..L
        BY <1>2
    <2> QED BY <1>1, <1>4, <1>5, <2>1, Zenon
<1>7. \A n \in 1..(L + 1) : h[n] = h[n - 1] \o a[n]
    <2>1. SUFFICES ASSUME NEW n \in 1..(L + 1) PROVE h[n] = h[n - 1] \o a[n]
        OBVIOUS
    <2>2. CASE n = L + 1
        <3>1. n - 1 = L /\ L \in 0..L
            BY <1>2, <2>2
        <3> QED BY <1>2, <1>5, <2>2, <3>1, Zenon
    <2>3. CASE n # L + 1
        <3>1. n \in 1..L /\ n \in 0..L /\ n - 1 \in 0..L
            BY <1>2, <2>3
        <3> QED BY <1>1, <1>2, <1>5, <3>1, Zenon
    <2> QED BY <2>2, <2>3
<1>8. FlattenSeq(a) = h[L + 1]
    <2>1. \A n \in 0..Len(a) : h[n] \in Seq(C)
        BY <1>2, <1>6, Zenon
    <2>2. \A n \in 1..Len(a) : h[n] = h[n - 1] \o a[n]
        BY <1>2, <1>7, Zenon
    <2>3. FlattenSeq(a) = h[Len(a)]
        BY <1>2, <1>5, <2>1, <2>2, FlattenLoop, Zenon
    <2> QED BY <1>2, <2>3
<1> QED BY <1>3, <1>4, <1>5, <1>8 DEF a

-----------------------------------------------------------------------------
(* What a server reads in a path, one character at a time.                 *)

LEMMA EncodeCharType ==
    ASSUME NEW c \in Char
    PROVE  EncodeChar(c) \in Seq(Sign)
<1>1. c \in Sign /\ "+" \in Sign /\ "%" \in Sign /\ "hex" \in Sign
    BY CharAssumption DEF Sign, Names, Separators
<1>2. \A x, y, z \in Sign : <<x>> \in Seq(Sign) /\ <<x, y, z>> \in Seq(Sign)
    OBVIOUS
<1>3. EncodeChar(c) \in {<<c>>, <<"+">>, <<"%", "hex", c>>}
    BY DEF EncodeChar
<1> QED BY <1>1, <1>2, <1>3, Zenon

LEMMA EncodeEmpty == Encode(<<>>) = <<>>
<1>1. [i \in DOMAIN <<>> |-> EncodeChar(<<>>[i])] = <<>>
    OBVIOUS
<1> QED BY <1>1, FlattenEmpty DEF Encode

LEMMA EncodeAppend ==
    ASSUME NEW t \in Text, NEW c \in Char
    PROVE  /\ Encode(Append(t, c)) = Encode(t) \o EncodeChar(c)
           /\ Encode(t) \in Seq(Sign)
<1> DEFINE a == Append(t, c)
           p == [i \in DOMAIN t |-> EncodeChar(t[i])]
           q == [i \in DOMAIN a |-> EncodeChar(a[i])]
           x == EncodeChar(c)
<1>1. /\ Len(t) \in Nat /\ DOMAIN t = 1..Len(t)
      /\ \A i \in 1..Len(t) : t[i] \in Char
    BY LenProperties, ElementOfSeq DEF Text
<1>2. /\ DOMAIN a = 1..(Len(t) + 1) /\ a[Len(t) + 1] = c
      /\ \A i \in 1..Len(t) : a[i] = t[i]
    BY AppendProperties, LenProperties DEF Text
<1>3. x \in Seq(Sign)
    BY EncodeCharType
<1>4. p \in [1..Len(t) -> Seq(Sign)]
    BY <1>1, EncodeCharType
<1>5. p \in Seq(Seq(Sign)) /\ Len(p) = Len(t)
    BY <1>1, <1>4, SeqDef, LenProperties
<1>6. q = Append(p, x)
    <2> DEFINE r == Append(p, x)
    <2>1. /\ r \in [1..(Len(t) + 1) -> Seq(Sign)] /\ r[Len(t) + 1] = x
          /\ \A i \in 1..Len(t) : r[i] = p[i]
        <3> HIDE DEF p, x
        <3>1. r \in Seq(Seq(Sign)) /\ Len(r) = Len(t) + 1
            BY <1>3, <1>5, AppendProperties
        <3>2. r \in [1..Len(r) -> Seq(Sign)]
            BY <3>1, LenProperties
        <3> QED BY <1>1, <1>3, <1>5, <3>1, <3>2, AppendProperties
    <2> HIDE DEF a, r
    <2>2. \A i \in 1..(Len(t) + 1) : q[i] = r[i]
        <3>1. SUFFICES ASSUME NEW i \in 1..(Len(t) + 1) PROVE q[i] = r[i]
            OBVIOUS
        <3>2. q[i] = EncodeChar(a[i])
            BY <1>2
        <3>3. CASE i = Len(t) + 1
            BY <1>2, <2>1, <3>2, <3>3, Zenon
        <3>4. CASE i # Len(t) + 1
            <4>1. i \in 1..Len(t) /\ i \in DOMAIN t
                BY <1>1, <3>4
            <4> QED BY <1>2, <2>1, <3>2, <4>1
        <3> QED BY <3>3, <3>4
    <2>3. q = [i \in 1..(Len(t) + 1) |-> q[i]]
        BY <1>2
    <2>4. r = [i \in 1..(Len(t) + 1) |-> r[i]]
        BY <2>1
    <2> HIDE DEF q
    <2>5. q = r
        BY <2>2, <2>3, <2>4
    <2> QED BY <2>5 DEF r
<1>7. Encode(t) = FlattenSeq(p) /\ Encode(a) = FlattenSeq(q)
    BY DEF Encode
<1> HIDE DEF p, q, x
<1>8. FlattenSeq(Append(p, x)) = FlattenSeq(p) \o x /\ FlattenSeq(p) \in Seq(Sign)
    BY <1>3, <1>5, FlattenAppend, Zenon
<1> QED BY <1>6, <1>7, <1>8 DEF x

\* What a server may read in a plus.
LEMMA ReadingIsSign == Readings \subseteq Sign
BY CharAssumption DEF Readings, Sign, Separators

\* What the server reads in c after path.
Reads(path, c, plus) ==
    LET escaped == path # <<>> /\ Last(path) = "hex"
    IN  CASE c = "hex"             -> <<>>
          [] c = "%" /\ ~escaped   -> <<>>
          [] c = "+" /\ ~escaped   -> <<plus>>
          [] OTHER                 -> <<c>>

LEMMA ReadsType ==
    ASSUME NEW plus \in Readings, NEW path, NEW c \in Sign
    PROVE  Reads(path, c, plus) \in Seq(Sign)
<1>1. plus \in Sign
    BY ReadingIsSign
<1>2. \A x \in Sign : <<x>> \in Seq(Sign)
    OBVIOUS
<1>3. Reads(path, c, plus) \in {<<>>, <<plus>>, <<c>>}
    BY DEF Reads
<1>4. <<>> \in Seq(Sign)
    BY EmptySeq
<1> QED BY <1>1, <1>2, <1>3, <1>4, Zenon

\* The sequence that Decoded puts together.
Piece(path, i, plus) ==
    LET Escaped(n) == n > 1 /\ path[n - 1] = "hex"
    IN  CASE path[i] = "hex"                 -> <<>>
          [] path[i] = "%" /\ ~Escaped(i)    -> <<>>
          [] path[i] = "+" /\ ~Escaped(i)    -> <<plus>>
          [] OTHER                           -> <<path[i]>>

LEMMA DecodedPieces ==
    ASSUME NEW plus, NEW path
    PROVE  Decoded(path, plus) = FlattenSeq([i \in DOMAIN path |-> Piece(path, i, plus)])
BY DEF Decoded, Piece

LEMMA DecodedEmpty == \A plus : Decoded(<<>>, plus) = <<>>
<1> SUFFICES ASSUME NEW plus PROVE Decoded(<<>>, plus) = <<>>
    OBVIOUS
<1>1. [i \in DOMAIN <<>> |-> Piece(<<>>, i, plus)] = <<>>
    OBVIOUS
<1> QED BY <1>1, FlattenEmpty, DecodedPieces

LEMMA PieceKept ==
    ASSUME NEW plus \in Readings, NEW path \in Seq(Sign), NEW i \in 1..Len(path)
    PROVE  /\ Piece(path, i, plus) \in Seq(Sign)
           /\ \A c \in Sign : Piece(Append(path, c), i, plus) = Piece(path, i, plus)
<1>1. Len(path) \in Nat /\ path[i] \in Sign
    BY LenProperties, ElementOfSeq
<1>2. Piece(path, i, plus) \in Seq(Sign)
    <2>1. Piece(path, i, plus) \in {<<>>, <<plus>>, <<path[i]>>}
        BY DEF Piece
    <2>2. plus \in Sign
        BY ReadingIsSign
    <2>3. \A x \in Sign : <<x>> \in Seq(Sign)
        OBVIOUS
    <2>4. <<>> \in Seq(Sign)
        BY EmptySeq
    <2> QED BY <1>1, <2>1, <2>2, <2>3, <2>4, Zenon
<1>3. ASSUME NEW c \in Sign PROVE Piece(Append(path, c), i, plus) = Piece(path, i, plus)
    <2> DEFINE a == Append(path, c)
    <2>1. a[i] = path[i] /\ (i > 1 => a[i - 1] = path[i - 1])
        BY <1>1, AppendProperties
    <2> HIDE DEF a
    <2>2. Piece(a, i, plus) = Piece(path, i, plus)
        BY <2>1 DEF Piece
    <2> QED BY <2>2 DEF a
<1> QED BY <1>2, <1>3

LEMMA PieceAdded ==
    ASSUME NEW plus \in Readings, NEW path \in Seq(Sign), NEW c \in Sign
    PROVE  Piece(Append(path, c), Len(path) + 1, plus) = Reads(path, c, plus)
<1> DEFINE a == Append(path, c)
           n == Len(path) + 1
<1>1. /\ a[n] = c /\ (n > 1 => n - 1 = Len(path) /\ a[n - 1] = path[Len(path)])
      /\ (n > 1) <=> (path # <<>>)
    BY AppendProperties, EmptySeq, LenProperties
<1>2. Last(path) = path[Len(path)]
    BY DEF Last
<1> HIDE DEF a, n
<1>3. Piece(a, n, plus) = Reads(path, c, plus)
    BY <1>1, <1>2 DEF Piece, Reads
<1> QED BY <1>3 DEF a, n

LEMMA DecodedAppend ==
    ASSUME NEW plus \in Readings, NEW path \in Seq(Sign), NEW c \in Sign
    PROVE  /\ Decoded(Append(path, c), plus) = Decoded(path, plus) \o Reads(path, c, plus)
           /\ Decoded(path, plus) \in Seq(Sign)
<1> DEFINE a == Append(path, c)
           L == Len(path)
           x == Reads(path, c, plus)
           p == [i \in DOMAIN path |-> Piece(path, i, plus)]
           q == [i \in DOMAIN a |-> Piece(a, i, plus)]
<1>1. L \in Nat /\ DOMAIN path = 1..L /\ DOMAIN a = 1..(L + 1)
    BY AppendProperties, LenProperties
<1>2. x \in Seq(Sign)
    BY ReadsType
<1>3. p \in [1..L -> Seq(Sign)]
    BY <1>1, PieceKept
<1>4. p \in Seq(Seq(Sign)) /\ Len(p) = L
    BY <1>1, <1>3, SeqDef, LenProperties
<1>5. /\ \A i \in 1..L : q[i] = p[i]
      /\ q[L + 1] = x
    BY <1>1, PieceKept, PieceAdded
<1>6. q = [i \in 1..(L + 1) |-> q[i]]
    BY <1>1
<1>7. Decoded(path, plus) = FlattenSeq(p) /\ Decoded(a, plus) = FlattenSeq(q)
    BY DecodedPieces
<1> HIDE DEF a, p, q, x, L
<1>8. q = Append(p, x)
    <2> DEFINE r == Append(p, x)
    <2>1. /\ r \in Seq(Seq(Sign)) /\ Len(r) = L + 1 /\ r[L + 1] = x
          /\ \A i \in 1..L : r[i] = p[i]
        BY <1>2, <1>4, AppendProperties
    <2> HIDE DEF r
    <2>2. r = [i \in 1..(L + 1) |-> r[i]]
        BY <1>1, <2>1, LenProperties
    <2>3. \A i \in 1..(L + 1) : q[i] = r[i]
        <3>1. \A i \in 1..(L + 1) : i = L + 1 \/ i \in 1..L
            BY <1>1
        <3> QED BY <1>5, <2>1, <3>1, Zenon
    <2>4. q = r
        BY <1>6, <2>2, <2>3
    <2> QED BY <2>4 DEF r
<1>9. FlattenSeq(Append(p, x)) = FlattenSeq(p) \o x /\ FlattenSeq(p) \in Seq(Sign)
    BY <1>2, <1>4, FlattenAppend, Zenon
<1> QED BY <1>7, <1>8, <1>9 DEF a, x

\* A part that does not end within an escape is read on its own.
LEMMA DecodedConcat ==
    ASSUME NEW plus \in Readings, NEW p \in Seq(Sign), p = <<>> \/ Last(p) # "hex", NEW q \in Seq(Sign)
    PROVE  Decoded(p \o q, plus) = Decoded(p, plus) \o Decoded(q, plus)
<1> DEFINE P == {u \in Seq(Sign) : Decoded(p \o u, plus) = Decoded(p, plus) \o Decoded(u, plus)}
<1>1. "hex" \in Sign
    BY DEF Sign, Names
<1>2. Decoded(p, plus) \in Seq(Sign)
    BY <1>1, DecodedAppend, Zenon
<1>3. <<>> \in P
    <2>1. p \o <<>> = p /\ Decoded(p, plus) \o <<>> = Decoded(p, plus)
        BY <1>2, ConcatEmptySeq
    <2> QED BY <2>1, DecodedEmpty, EmptySeq
<1>4. ASSUME NEW u \in Seq(Sign), NEW c \in Sign, u \in P PROVE Append(u, c) \in P
    <2>1. p \o Append(u, c) = Append(p \o u, c) /\ p \o u \in Seq(Sign)
        BY ConcatProperties, ConcatAssociative, AppendIsConcat, OneSign
    <2>2. Reads(p \o u, c, plus) = Reads(u, c, plus)
        <3>1. CASE u = <<>>
            <4>1. p \o u = p
                BY <3>1, ConcatEmptySeq
            <4> QED BY <3>1, <4>1 DEF Reads
        <3>2. CASE u # <<>>
            <4>1. PICK v \in Seq(Sign), d \in Sign : u = Append(v, d)
                BY <3>2, SequenceEmptyOrAppend
            <4>2. p \o u = Append(p \o v, d) /\ p \o v \in Seq(Sign)
                BY <4>1, ConcatProperties, ConcatAssociative, AppendIsConcat, OneSign
            <4>3. Last(u) = d
                BY <4>1, AppendFacts, ZenonT(60)
            <4>4. Last(p \o u) = d /\ p \o u # <<>>
                <5>1. Last(Append(p \o v, d)) = d /\ Append(p \o v, d) # <<>>
                    BY <4>2, AppendFacts, ZenonT(60)
                <5> QED BY <4>2, <5>1, Zenon
            <4> QED BY <3>2, <4>3, <4>4 DEF Reads
        <3> QED BY <3>1, <3>2
    <2>3. Decoded(p \o Append(u, c), plus) = Decoded(p \o u, plus) \o Reads(p \o u, c, plus)
        BY <2>1, DecodedAppend, Zenon
    <2>4. Decoded(Append(u, c), plus) = Decoded(u, plus) \o Reads(u, c, plus) /\ Decoded(u, plus) \in Seq(Sign)
        BY DecodedAppend, Zenon
    <2>5. Reads(u, c, plus) \in Seq(Sign)
        BY ReadsType, Zenon
    <2>6. (Decoded(p, plus) \o Decoded(u, plus)) \o Reads(u, c, plus) = Decoded(p, plus) \o (Decoded(u, plus) \o Reads(u, c, plus))
        BY <1>2, <2>4, <2>5, ConcatAssociative, SMTT(30)
    <2>7. Decoded(p \o u, plus) = Decoded(p, plus) \o Decoded(u, plus)
        BY <1>4
    <2>8. Decoded(p \o Append(u, c), plus) = Decoded(p, plus) \o Decoded(Append(u, c), plus)
        BY <2>2, <2>3, <2>4, <2>6, <2>7, Zenon
    <2>9. Append(u, c) \in Seq(Sign)
        BY AppendProperties
    <2> QED BY <2>8, <2>9
<1>5. q \in P
    <2> HIDE DEF P
    <2> QED BY <1>3, <1>4, AllSequences, Zenon
<1> QED BY <1>5

LEMMA DecodedConcatType ==
    ASSUME NEW plus \in Readings, NEW p \in Seq(Sign)
    PROVE  Decoded(p, plus) \in Seq(Sign)
<1>1. "hex" \in Sign
    BY DEF Sign, Names
<1> QED BY <1>1, DecodedAppend, Zenon

\* What is read in a path of one sign, and in an escape.
LEMMA DecodedOne ==
    ASSUME NEW plus \in Readings, NEW c \in Sign
    PROVE  Decoded(<<c>>, plus) = Reads(<<>>, c, plus)
<1>1. <<>> \in Seq(Sign) /\ Append(<<>>, c) = <<c>>
    BY EmptySeq
<1>2. Decoded(Append(<<>>, c), plus) = Decoded(<<>>, plus) \o Reads(<<>>, c, plus)
    BY <1>1, DecodedAppend, Zenon
<1>3. Reads(<<>>, c, plus) \in Seq(Sign)
    BY ReadsType, Zenon
<1>4. <<>> \o Reads(<<>>, c, plus) = Reads(<<>>, c, plus)
    BY <1>3, ConcatEmptySeq
<1> QED BY <1>1, <1>2, <1>4, DecodedEmpty, Zenon

LEMMA SignsAppended ==
    ASSUME NEW x \in Sign, NEW y \in Sign, NEW z \in Sign
    PROVE  /\ Append(<<x>>, y) = <<x, y>> /\ Append(<<x, y>>, z) = <<x, y, z>>
           /\ <<x>> \in Seq(Sign) /\ <<x, y>> \in Seq(Sign)
<1> DEFINE o == <<x>>
           p == <<x, y>>
           q == <<x, y, z>>
<1>1. o \in Seq(Sign) /\ Len(o) = 1 /\ o[1] = x
    OBVIOUS
<1>2. p \in Seq(Sign) /\ Len(p) = 2 /\ p[1] = x /\ p[2] = y
    OBVIOUS
<1>3. q \in Seq(Sign) /\ Len(q) = 3 /\ q[1] = x /\ q[2] = y /\ q[3] = z
    OBVIOUS
<1> HIDE DEF o, p, q
<1> DEFINE a == Append(o, y)
           b == Append(p, z)
<1>4. /\ a \in Seq(Sign) /\ Len(a) = Len(o) + 1 /\ a[Len(o) + 1] = y
      /\ \A i \in 1..Len(o) : a[i] = o[i]
    BY <1>1, AppendFacts, ZenonT(60)
<1>5. /\ b \in Seq(Sign) /\ Len(b) = Len(p) + 1 /\ b[Len(p) + 1] = z
      /\ \A i \in 1..Len(p) : b[i] = p[i]
    BY <1>2, AppendFacts, ZenonT(60)
<1> HIDE DEF a, b
<1>6. Len(a) = 2 /\ \A i \in 1..2 : a[i] = p[i]
    BY <1>1, <1>2, <1>4
<1>7. Len(b) = 3 /\ \A i \in 1..3 : b[i] = q[i]
    BY <1>2, <1>3, <1>5
<1>8. a = p /\ b = q
    BY <1>2, <1>3, <1>4, <1>5, <1>6, <1>7, SeqEqual
<1> QED BY <1>1, <1>2, <1>8 DEF a, b, o, p, q

\* What the server reads for a character of a text.
CharAsRead(c, plus) == IF c = " " THEN plus ELSE c

LEMMA AsReadFacts ==
    ASSUME NEW plus \in Readings, NEW text \in Text
    PROVE  /\ AsRead(text, plus) \in Seq(Sign)
           /\ \A c \in Char :
                AsRead(Append(text, c), plus) = AsRead(text, plus) \o <<CharAsRead(c, plus)>>
<1> DEFINE L == Len(text)
           r == AsRead(text, plus)
<1>1. L \in Nat /\ DOMAIN text = 1..L /\ \A i \in 1..L : text[i] \in Char
    BY LenProperties, ElementOfSeq DEF Text
<1>2. \A c \in Char : CharAsRead(c, plus) \in Sign
    BY ReadingIsSign DEF CharAsRead, Sign
<1>3. r = [i \in 1..L |-> CharAsRead(text[i], plus)]
    BY <1>1 DEF AsRead, CharAsRead
<1>4. r \in Seq(Sign) /\ Len(r) = L
    <2>1. r \in [1..L -> Sign]
        BY <1>1, <1>2, <1>3
    <2> HIDE DEF r
    <2> QED BY <1>1, <2>1, SeqDef, LenProperties
<1>5. ASSUME NEW c \in Char
      PROVE  AsRead(Append(text, c), plus) = r \o <<CharAsRead(c, plus)>>
    <2> DEFINE a == Append(text, c)
               x == CharAsRead(c, plus)
               s == Append(r, x)
               q == AsRead(a, plus)
    <2>1. /\ Len(a) = L + 1 /\ DOMAIN a = 1..(L + 1) /\ a[L + 1] = c
          /\ \A i \in 1..L : a[i] = text[i]
        BY <1>1, AppendProperties DEF Text
    <2>2. q = [i \in 1..(L + 1) |-> CharAsRead(a[i], plus)]
        BY <2>1 DEF AsRead, CharAsRead
    <2>3. \A i \in 1..L : r[i] = CharAsRead(text[i], plus)
        BY <1>3
    <2>4. x \in Sign
        BY <1>2
    <2> HIDE DEF a, r, x, q
    <2>5. /\ s \in Seq(Sign) /\ Len(s) = L + 1 /\ s[L + 1] = x
          /\ \A i \in 1..L : s[i] = r[i]
        BY <1>4, <2>4, AppendProperties
    <2> HIDE DEF s
    <2>6. s = [i \in 1..(L + 1) |-> s[i]]
        BY <1>1, <2>5, LenProperties
    <2>7. \A i \in 1..(L + 1) : CharAsRead(a[i], plus) = s[i]
        <3>1. \A i \in 1..(L + 1) : i = L + 1 \/ i \in 1..L
            BY <1>1
        <3> QED BY <2>1, <2>3, <2>5, <3>1, Zenon DEF x
    <2>8. q = s
        BY <2>2, <2>6, <2>7
    <2>9. Append(r, x) = r \o <<x>>
        BY <1>4, <2>4, AppendIsConcat
    <2> QED BY <2>8, <2>9 DEF q, s, a, x
<1> QED BY <1>4, <1>5

LEMMA AsReadEmpty == \A plus : AsRead(<<>>, plus) = <<>>
BY DEF AsRead

LEMMA DecodedChar ==
    ASSUME NEW plus \in Readings, NEW c \in Char
    PROVE  /\ Decoded(EncodeChar(c), plus) = <<CharAsRead(c, plus)>>
           /\ EncodeChar(c) # <<>> /\ Last(EncodeChar(c)) # "hex"
<1> DEFINE h == "hex"
           m == "%"
<1>1. c \in Sign /\ "+" \in Sign /\ m \in Sign /\ h \in Sign /\ c # h
    BY CharAssumption DEF Sign, Names, Separators
<1>2. CASE c \in Unreserved
    <2>1. EncodeChar(c) = <<c>>
        BY <1>2 DEF EncodeChar, Unreserved
    <2>2. Reads(<<>>, c, plus) = <<c>> /\ CharAsRead(c, plus) = c
        BY <1>1, <1>2 DEF Reads, Unreserved, CharAsRead
    <2>3. <<c>> # <<>> /\ Last(<<c>>) = c
        BY DEF Last
    <2> QED BY <1>1, <2>1, <2>2, <2>3, DecodedOne, Zenon
<1>3. CASE c = " "
    <2>1. EncodeChar(c) = <<"+">>
        BY <1>3 DEF EncodeChar, Unreserved
    <2>2. Reads(<<>>, "+", plus) = <<plus>> /\ CharAsRead(c, plus) = plus
        BY <1>3 DEF Reads, CharAsRead
    <2>3. <<"+">> # <<>> /\ Last(<<"+">>) # h
        BY DEF Last
    <2> QED BY <1>1, <2>1, <2>2, <2>3, DecodedOne, Zenon
<1>4. CASE c \notin Unreserved /\ c # " "
    <2>1. EncodeChar(c) = <<m, h, c>>
        BY <1>4 DEF EncodeChar
    <2>2. Reads(<<>>, m, plus) = <<>> /\ Reads(<<m>>, h, plus) = <<>> /\ Reads(<<m, h>>, c, plus) = <<c>>
        BY <1>1 DEF Reads, Last
    <2>3. Last(<<m, h, c>>) = c /\ <<m, h, c>> # <<>>
        BY DEF Last
    <2> HIDE DEF m, h
    <2>4. /\ Append(<<m>>, h) = <<m, h>> /\ Append(<<m, h>>, c) = <<m, h, c>>
          /\ <<m>> \in Seq(Sign) /\ <<m, h>> \in Seq(Sign)
        BY <1>1, SignsAppended, Zenon
    <2>5. Decoded(<<m>>, plus) = <<>>
        BY <1>1, <2>2, DecodedOne, Zenon
    <2>6. Decoded(<<m, h>>, plus) = <<>> \o <<>>
        <3>1. Decoded(Append(<<m>>, h), plus) = Decoded(<<m>>, plus) \o Reads(<<m>>, h, plus)
            BY <1>1, <2>4, DecodedAppend, Zenon
        <3> QED BY <2>2, <2>4, <2>5, <3>1, Zenon
    <2>7. Decoded(<<m, h, c>>, plus) = (<<>> \o <<>>) \o <<c>>
        <3>1. Decoded(Append(<<m, h>>, c), plus) = Decoded(<<m, h>>, plus) \o Reads(<<m, h>>, c, plus)
            BY <1>1, <2>4, DecodedAppend, Zenon
        <3> QED BY <2>2, <2>4, <2>6, <3>1, Zenon
    <2>8. (<<>> \o <<>>) \o <<c>> = <<c>>
        <3>1. <<>> \in Seq(Sign) /\ <<c>> \in Seq(Sign)
            BY <1>1, EmptySeq
        <3> QED BY <3>1, ConcatEmptySeq
    <2>9. CharAsRead(c, plus) = c
        BY <1>4 DEF CharAsRead
    <2> QED BY <1>1, <2>1, <2>3, <2>7, <2>8, <2>9, Zenon DEF h
<1> QED BY <1>2, <1>3, <1>4

LEMMA LastOfConcat ==
    ASSUME NEW C, NEW p \in Seq(C), NEW q \in Seq(C), q # <<>>
    PROVE  Last(p \o q) = Last(q) /\ p \o q # <<>> /\ p \o q \in Seq(C)
<1>1. PICK v \in Seq(C), d \in C : q = Append(v, d)
    BY SequenceEmptyOrAppend
<1>2. p \o q = Append(p \o v, d) /\ p \o v \in Seq(C)
    <2>1. <<d>> \in Seq(C)
        OBVIOUS
    <2> QED BY <1>1, <2>1, ConcatProperties, ConcatAssociative, AppendIsConcat
<1>3. Last(Append(p \o v, d)) = d /\ Append(p \o v, d) # <<>> /\ Append(p \o v, d) \in Seq(C)
    BY <1>2, AppendFacts, ZenonT(60)
<1>4. Last(Append(v, d)) = d
    BY AppendFacts, ZenonT(60)
<1> QED BY <1>1, <1>2, <1>3, <1>4, Zenon

\* What is encoded is read as it was.
LEMMA DecodedEncode ==
    ASSUME NEW plus \in Readings, NEW text \in Text
    PROVE  /\ Encode(text) \in Seq(Sign)
           /\ Decoded(Encode(text), plus) = AsRead(text, plus)
           /\ Encode(text) = <<>> \/ Last(Encode(text)) # "hex"
<1> DEFINE P == {t \in Text : /\ Encode(t) \in Seq(Sign)
                              /\ Decoded(Encode(t), plus) = AsRead(t, plus)
                              /\ Encode(t) = <<>> \/ Last(Encode(t)) # "hex"}
<1>1. <<>> \in P
    <2>1. <<>> \in Text /\ <<>> \in Seq(Sign)
        BY EmptySeq DEF Text
    <2> QED BY <2>1, EncodeEmpty, DecodedEmpty, AsReadEmpty
<1>2. ASSUME NEW t \in Text, NEW c \in Char, t \in P PROVE Append(t, c) \in P
    <2>1. Encode(Append(t, c)) = Encode(t) \o EncodeChar(c) /\ Encode(t) \in Seq(Sign)
        BY EncodeAppend, Zenon
    <2>2. EncodeChar(c) \in Seq(Sign)
        BY EncodeCharType, Zenon
    <2>3. /\ Decoded(EncodeChar(c), plus) = <<CharAsRead(c, plus)>>
          /\ EncodeChar(c) # <<>> /\ Last(EncodeChar(c)) # "hex"
        BY DecodedChar, Zenon
    <2>4. Decoded(Encode(t), plus) = AsRead(t, plus) /\ (Encode(t) = <<>> \/ Last(Encode(t)) # "hex")
        BY <1>2
    <2>5. Decoded(Encode(t) \o EncodeChar(c), plus) = Decoded(Encode(t), plus) \o Decoded(EncodeChar(c), plus)
        BY <2>1, <2>2, <2>4, DecodedConcat, Zenon
    <2>6. /\ AsRead(Append(t, c), plus) = AsRead(t, plus) \o <<CharAsRead(c, plus)>>
          /\ Append(t, c) \in Text
        BY AsReadFacts, AppendProperties DEF Text
    <2>7. /\ Last(Encode(t) \o EncodeChar(c)) = Last(EncodeChar(c))
          /\ Encode(t) \o EncodeChar(c) \in Seq(Sign)
        BY <2>1, <2>2, <2>3, LastOfConcat
    <2> QED BY <2>1, <2>3, <2>4, <2>5, <2>6, <2>7
<1>3. text \in P
    <2> HIDE DEF P
    <2>1. \A s \in Seq(Char), c \in Char : s \in P => Append(s, c) \in P
        BY <1>2, Zenon DEF Text
    <2> QED BY <1>1, <2>1, AllSequences, Zenon DEF Text
<1> QED BY <1>3

-----------------------------------------------------------------------------
(* The paths of the requests.                                              *)

\* A part of a path that does not end within an escape.
Whole(p) == p \in Seq(Sign) /\ (p = <<>> \/ Last(p) # "hex")

LEMMA WholeConcat ==
    ASSUME NEW plus \in Readings, NEW p, NEW q, Whole(p), Whole(q)
    PROVE  Whole(p \o q) /\ Decoded(p \o q, plus) = Decoded(p, plus) \o Decoded(q, plus)
<1>1. p \in Seq(Sign) /\ q \in Seq(Sign) /\ (p = <<>> \/ Last(p) # "hex")
    BY DEF Whole
<1>2. Decoded(p \o q, plus) = Decoded(p, plus) \o Decoded(q, plus)
    BY <1>1, DecodedConcat, Zenon
<1>3. CASE q = <<>>
    <2>1. p \o q = p
        BY <1>1, <1>3, ConcatEmptySeq
    <2> QED BY <1>2, <2>1
<1>4. CASE q # <<>>
    <2>1. Last(p \o q) = Last(q) /\ p \o q \in Seq(Sign)
        BY <1>1, <1>4, LastOfConcat, Zenon
    <2>2. Last(q) # "hex"
        BY <1>4 DEF Whole
    <2>3. Whole(p \o q)
        BY <2>1, <2>2, Zenon DEF Whole
    <2> QED BY <1>2, <2>3
<1> QED BY <1>3, <1>4

LEMMA WholeName ==
    ASSUME NEW plus \in Readings, NEW l \in Sign, l \notin {"hex", "%", "+"}
    PROVE  Whole(<<l>>) /\ Decoded(<<l>>, plus) = <<l>>
<1>1. Reads(<<>>, l, plus) = <<l>>
    BY DEF Reads
<1>2. Last(<<l>>) = l /\ <<l>> \in Seq(Sign)
    BY DEF Last
<1> QED BY <1>1, <1>2, DecodedOne, Zenon DEF Whole

LEMMA WholeText ==
    ASSUME NEW plus \in Readings, NEW text \in Text
    PROVE  Whole(Encode(text)) /\ Decoded(Encode(text), plus) = AsRead(text, plus)
BY DecodedEncode, Zenon DEF Whole

LEMMA WholeField ==
    ASSUME NEW plus \in Readings, NEW l \in Sign, l \notin {"hex", "%", "+"}, NEW text \in Text
    PROVE  /\ Whole(Field(l, text))
           /\ Decoded(Field(l, text), plus) = IF text = <<>> THEN <<>> ELSE <<l>> \o AsRead(text, plus)
<1>1. CASE text = <<>>
    <2>1. Field(l, text) = <<>>
        BY <1>1 DEF Field
    <2>2. Whole(<<>>)
        BY EmptySeq DEF Whole
    <2> QED BY <1>1, <2>1, <2>2, DecodedEmpty
<1>2. CASE text # <<>>
    <2>1. Field(l, text) = <<l>> \o Encode(text)
        BY <1>2 DEF Field
    <2>2. Whole(<<l>>) /\ Decoded(<<l>>, plus) = <<l>>
        BY WholeName, Zenon
    <2>3. Whole(Encode(text)) /\ Decoded(Encode(text), plus) = AsRead(text, plus)
        BY WholeText, Zenon
    <2>4. /\ Whole(<<l>> \o Encode(text))
          /\ Decoded(<<l>> \o Encode(text), plus) = Decoded(<<l>>, plus) \o Decoded(Encode(text), plus)
        BY <2>2, <2>3, WholeConcat, Zenon
    <2> QED BY <1>2, <2>1, <2>2, <2>3, <2>4, Zenon
<1> QED BY <1>1, <1>2

LEMMA WeatherPath ==
    ASSUME NEW plus \in Readings, NEW city \in Text, NEW country \in Text, NEW region \in Text
    PROVE  LET r == Weather(city, country, region)
           IN  Whole(r.target) /\ Decoded(r.target, plus) = Typed(r, plus)
<1> DEFINE w == "/v1/weather?city="
           c == "&country="
           g == "&region="
           fc == Field(c, country)
           fg == Field(g, region)
           tc == IF country = <<>> THEN <<>> ELSE <<c>> \o AsRead(country, plus)
           tg == IF region = <<>> THEN <<>> ELSE <<g>> \o AsRead(region, plus)
           e == Encode(city)
           r == Weather(city, country, region)
<1>1. r.target = ((<<w>> \o e) \o fc) \o fg
    BY DEF Weather, Request
<1>2. Typed(r, plus) = ((<<w>> \o AsRead(city, plus)) \o tc) \o tg
    <2>1. r.what = "weather" /\ r.args = <<city, country, region>>
        BY WhatOf
    <2>2. r.args[1] = city /\ r.args[2] = country /\ r.args[3] = region
        BY <2>1
    <2> HIDE DEF r
    <2> QED BY <2>1, <2>2, Zenon DEF Typed
<1>3. /\ w \in Sign /\ w \notin {"hex", "%", "+"}
      /\ c \in Sign /\ c \notin {"hex", "%", "+"}
      /\ g \in Sign /\ g \notin {"hex", "%", "+"}
    BY NamesAreSigns DEF Names
<1> HIDE DEF w, c, g, r
<1>0. \A p, q : Whole(p) /\ Whole(q) =>
         Whole(p \o q) /\ Decoded(p \o q, plus) = Decoded(p, plus) \o Decoded(q, plus)
    BY WholeConcat, Zenon
<1>4. Whole(<<w>>) /\ Decoded(<<w>>, plus) = <<w>>
    BY <1>3, WholeName, Zenon
<1>5. Whole(fc) /\ Decoded(fc, plus) = tc /\ Whole(fg) /\ Decoded(fg, plus) = tg
    BY <1>3, WholeField, Zenon
<1>6. Whole(e) /\ Decoded(e, plus) = AsRead(city, plus)
    BY WholeText, Zenon
<1> HIDE DEF fc, fg, tc, tg, e
<1>7. Whole(<<w>> \o e) /\ Decoded(<<w>> \o e, plus) = <<w>> \o AsRead(city, plus)
    BY <1>4, <1>6, <1>0, Zenon
<1>8. Whole((<<w>> \o e) \o fc) /\ Decoded((<<w>> \o e) \o fc, plus) = (<<w>> \o AsRead(city, plus)) \o tc
    BY <1>5, <1>7, <1>0, Zenon
<1>9. /\ Whole(((<<w>> \o e) \o fc) \o fg)
      /\ Decoded(((<<w>> \o e) \o fc) \o fg, plus) = ((<<w>> \o AsRead(city, plus)) \o tc) \o tg
    BY <1>5, <1>8, <1>0, Zenon
<1> QED BY <1>1, <1>2, <1>9, Zenon DEF r

LEMMA CitiesPath ==
    ASSUME NEW plus \in Readings, NEW query \in Text
    PROVE  LET r == Cities(query)
           IN  Whole(r.target) /\ Decoded(r.target, plus) = Typed(r, plus)
<1> DEFINE w == "/v1/cities?query="
           e == Encode(query)
           r == Cities(query)
<1>1. r.target = <<w>> \o e
    BY DEF Cities, Request
<1>2. Typed(r, plus) = <<w>> \o AsRead(query, plus)
    <2>1. r.what = "cities" /\ r.args = <<query>>
        BY WhatOf
    <2>2. r.args[1] = query
        BY <2>1
    <2> HIDE DEF r
    <2>3. r.what # "weather"
        BY <2>1
    <2> QED BY <2>1, <2>2, <2>3, Zenon DEF Typed
<1>3. w \in Sign /\ w \notin {"hex", "%", "+"}
    BY NamesAreSigns DEF Names
<1> HIDE DEF w, r
<1>0. \A p, q : Whole(p) /\ Whole(q) =>
         Whole(p \o q) /\ Decoded(p \o q, plus) = Decoded(p, plus) \o Decoded(q, plus)
    BY WholeConcat, Zenon
<1>4. Whole(<<w>>) /\ Decoded(<<w>>, plus) = <<w>>
    BY <1>3, WholeName, Zenon
<1>5. Whole(e) /\ Decoded(e, plus) = AsRead(query, plus)
    BY WholeText, Zenon
<1> HIDE DEF e
<1>6. Whole(<<w>> \o e) /\ Decoded(<<w>> \o e, plus) = <<w>> \o AsRead(query, plus)
    BY <1>4, <1>5, <1>0, Zenon
<1> QED BY <1>1, <1>2, <1>6, Zenon DEF r

\* Of the beginning of a path a server reads the beginning.
LEMMA DecodedGrows ==
    ASSUME NEW plus \in Readings, NEW p \in Seq(Sign), NEW q \in Seq(Sign)
    PROVE  \E v \in Seq(Sign) : Decoded(p \o q, plus) = Decoded(p, plus) \o v
<1> DEFINE P == {u \in Seq(Sign) :
                  \E v \in Seq(Sign) : Decoded(p \o u, plus) = Decoded(p, plus) \o v}
<1>1. Decoded(p, plus) \in Seq(Sign)
    BY DecodedConcatType, Zenon
<1>2. <<>> \in P
    <2>1. p \o <<>> = p /\ Decoded(p, plus) \o <<>> = Decoded(p, plus)
        BY <1>1, ConcatEmptySeq
    <2> QED BY <2>1, EmptySeq
<1>3. ASSUME NEW u \in Seq(Sign), NEW c \in Sign, u \in P PROVE Append(u, c) \in P
    <2>1. p \o Append(u, c) = Append(p \o u, c) /\ p \o u \in Seq(Sign)
        BY ConcatProperties, ConcatAssociative, AppendIsConcat, OneSign
    <2>2. PICK v \in Seq(Sign) : Decoded(p \o u, plus) = Decoded(p, plus) \o v
        BY <1>3
    <2> DEFINE x == Reads(p \o u, c, plus)
    <2>3. x \in Seq(Sign) /\ Append(u, c) \in Seq(Sign)
        BY ReadsType, AppendProperties
    <2>4. Decoded(p \o Append(u, c), plus) = Decoded(p \o u, plus) \o x
        BY <2>1, DecodedAppend, Zenon
    <2> HIDE DEF x
    <2>5. (Decoded(p, plus) \o v) \o x = Decoded(p, plus) \o (v \o x) /\ v \o x \in Seq(Sign)
        BY <1>1, <2>3, ConcatAssociative, ConcatProperties, SMTT(30)
    <2>6. \E w \in Seq(Sign) : Decoded(p \o Append(u, c), plus) = Decoded(p, plus) \o w
        BY <2>2, <2>4, <2>5, Zenon
    <2> QED BY <2>3, <2>6
<1>4. q \in P
    <2> HIDE DEF P
    <2> QED BY <1>2, <1>3, AllSequences, Zenon
<1> QED BY <1>4

LEMMA ConcatIsPrefix ==
    ASSUME NEW C, NEW s \in Seq(C), NEW v \in Seq(C)
    PROVE  IsPrefix(s, s \o v)
<1>1. Len(s) \in Nat /\ Len(v) \in Nat /\ Len(s \o v) = Len(s) + Len(v)
    BY ConcatProperties, LenProperties
<1>2. SubSeq(s \o v, 1, Len(s)) = SubSeq(s, 1, Len(s))
    <2>1. CASE Len(s) = 0
        <3>1. SubSeq(s \o v, 1, 0) = <<>> /\ SubSeq(s, 1, 0) = <<>>
            BY SubSeqEmpty
        <3> QED BY <2>1, <3>1
    <2>2. CASE Len(s) # 0
        <3>1. 1 \in 1..Len(s) /\ Len(s) \in 1..Len(s)
            BY <1>1, <2>2
        <3> QED BY <3>1, SubSeqOfConcat1
    <2> QED BY <2>1, <2>2
<1> QED BY <1>1, <1>2 DEF IsPrefix

LEMMA DecodedBeginning ==
    ASSUME NEW plus \in Readings, NEW t \in Seq(Sign), NEW n \in 0..Len(t)
    PROVE  IsPrefix(Decoded(SubSeq(t, 1, n), plus), Decoded(t, plus))
<1> DEFINE p == SubSeq(t, 1, n)
           q == SubSeq(t, n + 1, Len(t))
<1>1. Len(t) \in Nat /\ \A i \in 1..Len(t) : t[i] \in Sign
    BY LenProperties, ElementOfSeq
<1>2. p \in Seq(Sign) /\ q \in Seq(Sign)
    <2>1. \A i \in 1..n : t[i] \in Sign
        BY <1>1
    <2>2. \A i \in (n + 1)..Len(t) : t[i] \in Sign
        BY <1>1
    <2> QED BY <1>1, <2>1, <2>2, SubSeqProperties
<1>3. p \o q = t
    <2>1. 1 \in 1..(Len(t) + 1) /\ n \in (1 - 1)..Len(t) /\ Len(t) \in n..Len(t)
        BY <1>1
    <2>2. p \o q = SubSeq(t, 1, Len(t))
        BY <2>1, ConcatAdjacentSubSeq, Zenon
    <2> QED BY <2>2, SubSeqFull
<1> HIDE DEF p, q
<1>4. PICK v \in Seq(Sign) : Decoded(p \o q, plus) = Decoded(p, plus) \o v
    BY <1>2, DecodedGrows, Zenon
<1>5. Decoded(p, plus) \in Seq(Sign)
    BY <1>2, DecodedConcatType, Zenon
<1>6. IsPrefix(Decoded(p, plus), Decoded(p, plus) \o v)
    BY <1>5, ConcatIsPrefix, Zenon
<1> QED BY <1>3, <1>4, <1>6, Zenon DEF p

\* What a server reads in the target of a question.
LEMMA TargetsDecode ==
    ASSUME NEW plus \in Readings, NEW r \in Questions, r.what # "current"
    PROVE  r.target \in Seq(Sign) /\ Decoded(r.target, plus) = Typed(r, plus)
<1>1. CASE r.what = "weather" /\ r \in Weathers
    <2>1. PICK c \in Text, d \in Text, e \in Text : r = Weather(c, d, e)
        BY <1>1 DEF Weathers
    <2> QED BY <2>1, WeatherPath, ZenonT(60) DEF Whole
<1>2. CASE r.what = "cities" /\ r \in Searches
    <2>1. PICK t \in Text : r = Cities(t)
        BY <1>2 DEF Searches
    <2> QED BY <2>1, CitiesPath, Zenon DEF Whole
<1>3. CASE r = Homepage \/ r = Echo
    <2>1. /\ "/" \in Sign /\ "/echo" \in Sign
          /\ "/" \notin {"hex", "%", "+"} /\ "/echo" \notin {"hex", "%", "+"}
        BY NamesAreSigns DEF Names
    <2>2. r.target \in {<<"/">>, <<"/echo">>}
        BY <1>3 DEF Homepage, Echo, Request
    <2>3. r.target \in Seq(Sign) /\ Decoded(r.target, plus) = r.target
        BY <2>1, <2>2, WholeName, Zenon DEF Whole
    <2>4. r.what \notin {"weather", "cities"}
        BY <1>3, WhatOf
    <2>5. Typed(r, plus) = r.target
        BY <2>4 DEF Typed
    <2> QED BY <2>3, <2>5
<1> QED BY <1>1, <1>2, <1>3, Kinds, Zenon

(***************************************************************************)
(* A server that decodes the path of a request reads in it what the user   *)
(* typed: the path of a question other than the one of coordinates decodes *)
(* to the question's fields with their texts, every character of them, or  *)
(* to their beginning where the url and path buffers cut the path, for a   *)
(* server that takes a plus for a space and, with a plus for every space,  *)
(* for one that does not.                                                  *)
(***************************************************************************)
THEOREM PathsDecode ==
    \A r \in Questions, plus \in Readings :
      r.what # "current" =>
        /\ IsPrefix(Decoded(Path(r), plus), Typed(r, plus))
        /\ Path(r) = r.target => Decoded(Path(r), plus) = Typed(r, plus)
<1> SUFFICES ASSUME NEW r \in Questions, NEW plus \in Readings, r.what # "current"
             PROVE  /\ IsPrefix(Decoded(Path(r), plus), Typed(r, plus))
                    /\ Path(r) = r.target => Decoded(Path(r), plus) = Typed(r, plus)
    OBVIOUS
<1>1. r.target \in Seq(Sign) /\ Decoded(r.target, plus) = Typed(r, plus)
    BY TargetsDecode, Zenon
<1>2. Len(r.target) \in Nat /\ Room(r) \in Nat
    BY <1>1, LenProperties, SizesAssumption DEF Room
<1>3. PICK n \in 0..Len(r.target) : Path(r) = SubSeq(r.target, 1, n)
    <2>1. Min({Len(r.target), Room(r)}) \in 0..Len(r.target)
        BY <1>2 DEF Min
    <2> QED BY <2>1 DEF Path
<1>4. IsPrefix(Decoded(Path(r), plus), Decoded(r.target, plus))
    BY <1>1, <1>3, DecodedBeginning, Zenon
<1> QED BY <1>1, <1>4, Zenon

-----------------------------------------------------------------------------
(* The inductive invariant of Session.                                     *)

\* The objects that a result or a message stands for.
Objects(x) == IF x = None THEN 0 ELSE 1

HeapType == [clients : 0..2, results : 0..2, errors : 0..1, texts : 0..(MaxCommands + 2)]

\* The texts of the request that is being made.
TextsInUse == IF step = "ask" THEN Frees(request) ELSE 0

\* What is live in each mode, and how far a command has come.
HeapInv ==
    /\ mode = "none" => /\ step = "read"
                        /\ heap.clients \in 0..1
                        /\ heap.results \in 0..heap.clients
                        /\ heap.errors = 0
    /\ mode = "address" => /\ step = "read"
                           /\ heap.clients = 1
                           /\ heap.results = 0
                           /\ heap.errors = 0
    /\ mode = "once" => /\ step # "read"
                        /\ heap.clients = 1
                        /\ heap.results = Objects(result)
                        /\ heap.errors = Objects(error)
    /\ mode = "prompt" => /\ heap.clients = 2
                          /\ heap.results = 1 + Objects(result)
                          /\ heap.errors = Objects(error)
    /\ step # "show" => error = None
    /\ homepages <= count
    /\ heap.texts = homepages + TextsInUse

\* Where requests, results and paths come from.
RequestInv ==
    /\ request \in Readable \cup {None}
    /\ cache \subseteq (Readable \cap Questions) \ {Echo}
    /\ result # None => /\ result \in Questions
                        /\ request \in Questions
                        /\ result.key = request.key
    /\ asked # None => request \in Questions /\ asked = Path(request)
    /\ step # "show" => asked = None

SessionInv == TypeOK /\ HeapInv /\ RequestInv

-----------------------------------------------------------------------------
(* What can be asked for.                                                  *)

LEMMA OneCharText == \A c \in Char : <<c>> \in Text
<1>1. \A C : \A c \in C : <<c>> \in Seq(C)
    OBVIOUS
<1> QED BY <1>1, Zenon DEF Text

\* One turn of strtok, where there is a piece to add to.
LEMMA AddToPiecesType ==
    ASSUME NEW line \in Text, NEW pieces \in Seq(Text), NEW n \in 1..Len(line),
           n # 1 /\ line[n - 1] # " " => pieces # <<>>
    PROVE  /\ AddToPieces(pieces, line, n) \in Seq(Text)
           /\ line[n] # " " => AddToPieces(pieces, line, n) # <<>>
<1>1. line[n] \in Char
    BY ElementOfSeq DEF Text
<1>2. \A s \in Seq(Text), t \in Text : Append(s, t) \in Seq(Text) /\ Append(s, t) # <<>>
    BY AppendProperties, ZenonT(60)
<1>3. CASE line[n] = " "
    BY <1>3 DEF AddToPieces
<1>4. CASE line[n] # " " /\ (n = 1 \/ line[n - 1] = " ")
    <2>1. <<line[n]>> \in Text
        BY <1>1, OneCharText, Zenon
    <2>2. AddToPieces(pieces, line, n) = Append(pieces, <<line[n]>>)
        BY <1>4 DEF AddToPieces
    <2> QED BY <1>2, <2>1, <2>2, Zenon
<1>5. CASE line[n] # " " /\ n # 1 /\ line[n - 1] # " "
    <2>1. PICK s \in Seq(Text), t \in Text : pieces = Append(s, t)
        BY <1>5, SequenceEmptyOrAppend
    <2>2. Front(pieces) = s /\ Last(pieces) = t
        BY <2>1, AppendFacts, ZenonT(60)
    <2>3. Append(t, line[n]) \in Text
        BY <1>1, AppendProperties DEF Text
    <2>4. AddToPieces(pieces, line, n) = Append(s, Append(t, line[n]))
        BY <1>5, <2>2 DEF AddToPieces
    <2> QED BY <1>2, <2>3, <2>4, Zenon
<1> QED BY <1>3, <1>4, <1>5

LEMMA PiecesType ==
    ASSUME NEW line \in Text
    PROVE  Pieces(line) \in Seq(Text)
<1> DEFINE L == Len(line)
           X == Seq(Text)
           Turn(x, n) == AddToPieces(x, line, n)
           Kept(x, n) == IF Turn(x, n) \in X THEN Turn(x, n) ELSE <<>>
           F == [n \in 1..L |-> [x \in X |-> Kept(x, n)]]
           IsLoop(g) == g = [n \in 0..L |-> IF n = 0 THEN <<>> ELSE AddToPieces(g[n - 1], line, n)]
<1>1. L \in Nat /\ <<>> \in X
    BY LenProperties, EmptySeq DEF Text
<1>2. \A n \in 1..L, x \in X : Kept(x, n) \in X
    BY <1>1
<1>3. F \in [1..L -> [X -> X]]
    BY <1>2
<1>4. \A n \in 1..L, x \in X : F[n][x] = Kept(x, n)
    OBVIOUS
<1>5. \A n \in 1..L, x \in X :
        (n # 1 /\ line[n - 1] # " " => x # <<>>)
          => Turn(x, n) \in X /\ (line[n] # " " => Turn(x, n) # <<>>)
    BY AddToPiecesType
<1> DEFINE Good(g) == g[0] = <<>> /\ \A n \in 1..L : g[n] = Turn(g[n - 1], n)
           Full(x, n) == x \in X /\ (n # 0 /\ line[n] # " " => x # <<>>)
<1>6. ASSUME NEW x, NEW n \in 1..L, Full(x, n - 1)
      PROVE  Full(Turn(x, n), n) /\ Kept(x, n) = Turn(x, n)
    <2>1. n # 0 /\ (n # 1 <=> n - 1 # 0)
        BY <1>1
    <2>2. Turn(x, n) \in X /\ (line[n] # " " => Turn(x, n) # <<>>)
        BY <1>5, <1>6, <2>1
    <2> QED BY <2>1, <2>2
<1> HIDE DEF L, X, F, Turn, Kept
<1>7. PICK g : g \in Loops(X, <<>>, L, F)
    BY <1>1, <1>3, LoopExists, Zenon
<1>8. g \in [0..L -> X] /\ g[0] = <<>> /\ \A n \in 1..L : g[n] = F[n][g[n - 1]]
    BY <1>7 DEF Loops
<1>9. \A n \in 1..L : g[n] = Kept(g[n - 1], n)
    <2>1. \A n \in 1..L : g[n - 1] \in X
        BY <1>1, <1>8
    <2> QED BY <2>1, <1>4, <1>8
<1>10. \A n \in 0..L : Full(g[n], n)
    <2> DEFINE S == {n \in 0..L : Full(g[n], n)}
    <2>1. 0 \in S
        BY <1>1, <1>8
    <2>2. ASSUME NEW n \in 1..L, n - 1 \in S PROVE n \in S
        <3>1. Full(g[n - 1], n - 1)
            BY <2>2
        <3>2. Full(Turn(g[n - 1], n), n) /\ Kept(g[n - 1], n) = Turn(g[n - 1], n)
            <4> HIDE DEF Full
            <4> QED BY <1>6, <3>1
        <3>3. Full(g[n], n)
            <4> HIDE DEF Full
            <4> QED BY <1>9, <3>2
        <3>4. n \in 0..L
            BY <1>1
        <3> HIDE DEF Full
        <3> QED BY <3>3, <3>4
    <2> HIDE DEF S
    <2>3. \A n \in 0..L : n \in S
        BY <1>1, <2>1, <2>2, UpTo
    <2> QED BY <2>3 DEF S
<1>11. Good(g)
    <2>1. ASSUME NEW n \in 1..L PROVE g[n] = Turn(g[n - 1], n)
        <3>1. n - 1 \in 0..L
            BY <1>1
        <3>2. Full(g[n - 1], n - 1)
            BY <1>10, <3>1
        <3> HIDE DEF Full
        <3> QED BY <1>6, <1>9, <3>2
    <2> QED BY <1>8, <2>1
<1>12. IsLoop(g)
    <2>1. \A n \in 0..L : g[n] = IF n = 0 THEN <<>> ELSE AddToPieces(g[n - 1], line, n)
        BY <1>1, <1>11 DEF Turn
    <2>2. g = [n \in 0..L |-> g[n]]
        BY <1>8
    <2> QED BY <2>1, <2>2
<1> DEFINE f == PiecesLoop(line)
<1>13. f = CHOOSE u : IsLoop(u)
    BY DEF PiecesLoop, L
<1>14. IsLoop(f)
    <2> HIDE DEF IsLoop, f
    <2> QED BY <1>12, <1>13, Zenon
<1>15. f[0] = <<>> /\ \A n \in 1..L : f[n] = Turn(f[n - 1], n)
    BY <1>1, <1>14 DEF Turn
<1> HIDE DEF f, IsLoop
<1>16. f[0] = g[0] /\ \A n \in 1..L : f[n - 1] = g[n - 1] => f[n] = g[n]
    BY <1>8, <1>11, <1>15
<1>17. f[L] = g[L]
    BY <1>1, <1>16, LoopsAgree
<1>18. g[L] \in X
    BY <1>1, <1>8
<1> QED BY <1>17, <1>18 DEF Pieces, f, L, X

LEMMA EmptyText == <<>> \in Text
BY EmptySeq DEF Text

LEMMA ParsedType ==
    ASSUME NEW command, NEW args \in Seq(Text)
    PROVE  Parsed(command, args) \in Questions \cup {Clear, Usage}
<1> DEFINE Arg(i) == IF i <= Len(args) THEN args[i] ELSE <<>>
           w == Weather(Arg(1), Arg(2), Arg(3))
           c == Cities(Arg(1))
<1>1. ASSUME NEW i \in {1, 2, 3} PROVE Arg(i) \in Text
    <2>1. CASE i <= Len(args)
        <3>1. i \in 1..Len(args)
            BY <2>1, LenProperties
        <3> QED BY <2>1, <3>1, ElementOfSeq
    <2>2. CASE ~ (i <= Len(args))
        BY <2>2, EmptyText
    <2> QED BY <2>1, <2>2
<1>2. w \in Questions /\ c \in Questions
    <2> HIDE DEF Arg
    <2>1. Arg(1) \in Text /\ Arg(2) \in Text /\ Arg(3) \in Text
        BY <1>1
    <2> QED BY <2>1 DEF Questions, Weathers, Searches
<1>3. Homepage \in Questions /\ Echo \in Questions
    BY DEF Questions
<1>4. Parsed(command, args) \in {w, c, Homepage, Echo, Clear, Usage}
    BY DEF Parsed
<1> HIDE DEF w, c
<1> QED BY <1>2, <1>3, <1>4, Zenon

LEMMA ParsedNumbersType ==
    ASSUME NEW args \in Seq(Int \cup {Junk})
    PROVE  ParsedNumbers(args) \in Questions \cup {Usage}
<1>1. CASE Len(args) >= 2 /\ Junk \notin {args[1], args[2]}
    <2>1. 1 \in 1..Len(args) /\ 2 \in 1..Len(args)
        BY <1>1, LenProperties
    <2>2. args[1] \in Int \cup {Junk} /\ args[2] \in Int \cup {Junk}
        BY <2>1, ElementOfSeq
    <2>3. args[1] \in Int /\ args[2] \in Int
        BY <1>1, <2>2
    <2>4. Current(args[1], args[2]) \in Questions
        BY <2>3 DEF Questions, Currents
    <2> QED BY <1>1, <2>4 DEF ParsedNumbers
<1>2. CASE ~ (Len(args) >= 2 /\ Junk \notin {args[1], args[2]})
    BY <1>2 DEF ParsedNumbers
<1> QED BY <1>1, <1>2

LEMMA OnLineType ==
    ASSUME NEW command, NEW line \in Text
    PROVE  OnLine(command, line) \in Seq(Text)
<1> DEFINE rest == IF line # <<>> /\ Head(line) = " " THEN Tail(line) ELSE line
<1>1. CASE command # "cities"
    BY <1>1, PiecesType DEF OnLine
<1>2. CASE command = "cities"
    <2>1. rest \in Text
        BY HeadTailProperties DEF Text
    <2> HIDE DEF rest
    <2>2. <<rest>> \in Seq(Text) /\ <<>> \in Seq(Text)
        BY <2>1, EmptySeq
    <2>3. OnLine(command, line) = IF rest = <<>> THEN <<>> ELSE <<rest>>
        BY <1>2 DEF OnLine, rest
    <2> QED BY <2>2, <2>3
<1> QED BY <1>1, <1>2

\* What is read is a question, a clear or a mistake.
LEMMA ReadableType == Readable \subseteq Questions \cup {Clear, Usage}
<1>1. \A command \in Commands, args \in Arguments :
        Parsed(command, args) \in Questions \cup {Clear, Usage}
    BY ArgumentsAssumption, ParsedType
<1>2. \A command \in Commands, line \in Lines :
        Parsed(command, OnLine(command, line)) \in Questions \cup {Clear, Usage}
    BY ArgumentsAssumption, OnLineType, ParsedType
<1>3. \A args \in Coordinates : ParsedNumbers(args) \in Questions \cup {Clear, Usage}
    BY ArgumentsAssumption, ParsedNumbersType
<1> DEFINE R == Questions \cup {Clear, Usage}
<1> SUFFICES ASSUME NEW r \in Readable PROVE r \in R
    OBVIOUS
<1>4. \/ \E command \in Commands, args \in Arguments : r = Parsed(command, args)
      \/ \E command \in Commands, line \in Lines : r = Parsed(command, OnLine(command, line))
      \/ \E args \in Coordinates : r = ParsedNumbers(args)
    BY DEF Readable
<1> HIDE DEF R
<1> QED BY <1>1, <1>2, <1>3, <1>4, Zenon DEF R

LEMMA ClearAndUsage ==
    /\ Clear \notin Questions /\ Usage \notin Questions
    /\ Echo \in Questions /\ Homepage \in Questions
<1>1. Clear.what = "clear-cache" /\ Usage.what = "usage"
    BY DEF Clear, Usage, Request
<1>2. Echo \in Questions /\ Homepage \in Questions
    BY DEF Questions
<1> QED BY <1>1, <1>2, Kinds

-----------------------------------------------------------------------------
(* The invariant holds initially and is kept by every action.              *)

LEMMA NoneFacts ==
    /\ None \notin Readable /\ None # Echo
    /\ None \notin {"rejected", "network", "server"}
    /\ None # 0 /\ None # 1 /\ None # 2 /\ None # 3
BY NoneAssumption DEF Errors, SERVER_ERROR

\* Of what is read, homepage alone frees less than it allocates.
LEMMA TextsFreed ==
    ASSUME NEW r \in Readable
    PROVE  /\ Frees(r) \in 0..2
           /\ Allocates(r) = Frees(r) + IF r.what = "homepage" THEN 1 ELSE 0
<1>1. Frees(r) \in 0..2
    BY DEF Frees
<1>2. r.what = "homepage" => r.accepted
    <2>1. CASE r \in {Clear, Usage}
        <3>1. r.what # "homepage"
            BY <2>1 DEF Clear, Usage, Request
        <3> QED BY <3>1
    <2>2. CASE r \in Questions /\ r.what = "homepage"
        <3>1. r = Homepage
            BY <2>2, Kinds
        <3> QED BY <3>1 DEF Homepage, Request
    <2> QED BY <2>1, <2>2, ReadableType
<1>3. Allocates(r) = Frees(r) + IF r.what = "homepage" THEN 1 ELSE 0
    <2>1. CASE ~r.accepted
        BY <1>2, <2>1 DEF Allocates, Frees
    <2>2. CASE r.accepted
        BY <2>2 DEF Allocates, Frees
    <2> QED BY <2>1, <2>2
<1> QED BY <1>1, <1>3

LEMMA SessionInitially == Init => SessionInv
<1> SUFFICES ASSUME Init PROVE SessionInv
    OBVIOUS
<1>1. TypeOK
    BY MaxCommandsAssumption, NoneFacts DEF Init, TypeOK, NoHeap, HeapType
<1>2. HeapInv
    BY DEF Init, HeapInv, NoHeap, TextsInUse
<1>3. RequestInv
    BY DEF Init, RequestInv
<1> QED BY <1>1, <1>2, <1>3 DEF SessionInv

\* Processes start and end, between commands.
LEMMA ProcessesPreserve ==
    ASSUME SessionInv,
           \/ MainFails \/ StartInteractive \/ NoConnection \/ NoServer \/ Connected \/ Quit
    PROVE  SessionInv'
<1> USE DEF SessionInv, INVALID_ARGS, NETWORK_ERROR, SERVER_ERROR
<1>1. /\ UNCHANGED <<step, request, result, error, cache, asked, count>>
      /\ step = "read"
    BY DEF MainFails, StartInteractive, NoConnection, NoServer, Connected, Quit, HeapInv
<1>2. RequestInv'
    <2>1. Path(request)' = Path(request)
        BY <1>1 DEF Path
    <2> QED BY <1>1, <2>1 DEF RequestInv
<1>3. result = None /\ error = None
    BY <1>1 DEF TypeOK, HeapInv
<1>4. CASE MainFails
    <2>1. TypeOK'
        BY <1>1, <1>4, NoneFacts, MaxCommandsAssumption DEF MainFails, TypeOK, NoHeap, HeapType
    <2>2. HeapInv'
        BY <1>1, <1>4 DEF MainFails, HeapInv, TypeOK, TextsInUse, NoHeap, HeapType
    <2> QED BY <1>2, <2>1, <2>2
<1>5. CASE StartInteractive
    <2>1. TypeOK'
        BY <1>1, <1>5, NoneFacts, MaxCommandsAssumption DEF StartInteractive, TypeOK, NoHeap, HeapType
    <2>2. HeapInv'
        BY <1>1, <1>5 DEF StartInteractive, HeapInv, TypeOK, TextsInUse, NoHeap, HeapType
    <2> QED BY <1>2, <2>1, <2>2
<1>6. CASE NoConnection
    <2>1. TypeOK'
        BY <1>1, <1>6, NoneFacts DEF NoConnection, Returns, TypeOK, HeapInv
    <2>2. HeapInv'
        BY <1>1, <1>6 DEF NoConnection, Returns, HeapInv, TypeOK, TextsInUse
    <2> QED BY <1>2, <2>1, <2>2
<1>7. CASE NoServer
    <2>1. TypeOK'
        BY <1>1, <1>7, NoneFacts DEF NoServer, Returns, TypeOK, HeapInv
    <2>2. HeapInv'
        BY <1>1, <1>7 DEF NoServer, Returns, HeapInv, TypeOK, TextsInUse
    <2> QED BY <1>2, <2>1, <2>2
<1>8. CASE Connected
    <2>1. TypeOK'
        <3>1. heap' \in HeapType
            <4>1. /\ heap \in HeapType
                  /\ heap.clients = 1 /\ heap.results = 0
                BY <1>8 DEF Connected, TypeOK, HeapInv, HeapType
            <4>2. heap' = [heap EXCEPT !.clients = @ + 1, !.results = @ + 1]
                BY <1>8 DEF Connected
            <4>3. /\ heap'.clients = heap.clients + 1 /\ heap'.results = heap.results + 1
                  /\ heap'.errors = heap.errors /\ heap'.texts = heap.texts
                BY ONLY <4>1, <4>2 DEF HeapType
            <4>4. heap'.clients \in 0..2 /\ heap'.results \in 0..2
                BY ONLY <4>1, <4>3
            <4>5. heap' = [clients |-> heap'.clients, results |-> heap'.results,
                           errors |-> heap.errors, texts |-> heap.texts]
                BY ONLY <4>1, <4>2 DEF HeapType
            <4> QED BY ONLY <4>1, <4>4, <4>5 DEF HeapType
        <3> QED BY <1>1, <1>8, <3>1 DEF Connected, TypeOK, HeapType
    <2>2. HeapInv'
        BY <1>1, <1>3, <1>8 DEF Connected, HeapInv, TypeOK, TextsInUse, Objects
    <2> QED BY <1>2, <2>1, <2>2
<1>9. CASE Quit
    <2>1. TypeOK'
        BY <1>1, <1>9, NoneFacts DEF Quit, Returns, TypeOK, HeapInv
    <2>2. HeapInv'
        BY <1>1, <1>3, <1>9 DEF Quit, Returns, HeapInv, TypeOK, TextsInUse, Objects
    <2> QED BY <1>2, <2>1, <2>2
<1> QED BY <1>4, <1>5, <1>6, <1>7, <1>8, <1>9

\* A command is read.
LEMMA ReadingPreserves ==
    ASSUME SessionInv, ReadArguments \/ ReadLine
    PROVE  SessionInv'
<1> USE DEF SessionInv
<1> DEFINE fresh == [NoHeap EXCEPT !.clients = 1]
<1>1. PICK r \in Readable, live \in {fresh, heap}, earlier \in {0, homepages} :
        /\ Read(r, live, earlier)
        /\ \/ /\ mode = "none" /\ mode' = "once" /\ exit' = None
              /\ live = fresh /\ earlier = 0
           \/ /\ mode = "prompt" /\ mode' = mode /\ exit' = exit
              /\ live = heap /\ earlier = homepages
        /\ step = "read"
    <2>1. CASE ReadArguments
        <3>1. mode = "none" /\ mode' = "once" /\ exit' = None /\ step = "read"
            BY <2>1 DEF ReadArguments, HeapInv
        <3>2. PICK r \in Readable : Read(r, fresh, 0)
            BY <2>1 DEF ReadArguments, Readable
        <3> QED BY <3>1, <3>2
    <2>2. CASE ReadLine
        <3>1. mode = "prompt" /\ mode' = mode /\ exit' = exit /\ step = "read"
            BY <2>2 DEF ReadLine
        <3>2. PICK r \in Readable : Read(r, heap, homepages)
            BY <2>2 DEF ReadLine, Readable
        <3> QED BY <3>1, <3>2
    <2> QED BY <2>1, <2>2
<1>2. /\ step' = "ask" /\ request' = r /\ count < MaxCommands /\ count' = count + 1
      /\ heap' = [live EXCEPT !.texts = @ + Allocates(r)]
      /\ homepages' = earlier + IF r.what = "homepage" THEN 1 ELSE 0
      /\ UNCHANGED <<result, error, cache, asked>>
    BY <1>1 DEF Read
<1>3. result = None /\ error = None /\ count \in 0..MaxCommands
    BY <1>1 DEF TypeOK, HeapInv
<1>4. r # None
    BY <1>1, NoneFacts
<1>5. /\ live \in HeapType /\ earlier \in 0..count /\ live.texts = earlier
      /\ live = fresh => live.clients = 1 /\ live.results = 0 /\ live.errors = 0
    <2>1. heap \in HeapType /\ homepages \in 0..count /\ heap.texts = homepages
        BY <1>1, <1>3 DEF TypeOK, HeapInv, HeapType, TextsInUse
    <2>2. /\ fresh \in HeapType /\ fresh.texts = 0
          /\ fresh.clients = 1 /\ fresh.results = 0 /\ fresh.errors = 0
        BY MaxCommandsAssumption DEF NoHeap, HeapType
    <2> HIDE DEF fresh
    <2>3. CASE live = fresh /\ earlier = 0
        BY <1>3, <2>2, <2>3
    <2>4. CASE live = heap /\ earlier = homepages
        BY <2>1, <2>2, <2>4
    <2> QED BY <1>1, <2>3, <2>4
<1>6. /\ Frees(r) \in 0..2
      /\ Allocates(r) = Frees(r) + IF r.what = "homepage" THEN 1 ELSE 0
    BY TextsFreed
<1>7. /\ heap'.clients = live.clients /\ heap'.results = live.results
      /\ heap'.errors = live.errors
      /\ heap'.texts = homepages' + Frees(r)
      /\ heap' = [clients |-> live.clients, results |-> live.results,
                  errors |-> live.errors, texts |-> heap'.texts]
    <2>1. /\ heap'.clients = live.clients /\ heap'.results = live.results
          /\ heap'.errors = live.errors /\ heap'.texts = live.texts + Allocates(r)
          /\ heap' = [clients |-> live.clients, results |-> live.results,
                      errors |-> live.errors, texts |-> live.texts + Allocates(r)]
        BY <1>2, <1>5 DEF HeapType
    <2> DEFINE h == IF r.what = "homepage" THEN 1 ELSE 0
    <2>2. h \in Nat
        OBVIOUS
    <2>3. Allocates(r) = Frees(r) + h /\ homepages' = earlier + h
        BY <1>2, <1>6
    <2>4. earlier \in Nat /\ live.texts = earlier /\ Frees(r) \in Nat
        BY <1>3, <1>5, <1>6
    <2> HIDE DEF h
    <2>5. live.texts + Allocates(r) = homepages' + Frees(r)
        BY <2>2, <2>3, <2>4
    <2> QED BY <2>1, <2>5, Zenon
<1>8. homepages' \in 0..count' /\ count' \in 0..MaxCommands
    BY <1>2, <1>3, <1>5, MaxCommandsAssumption
<1>9. heap' \in HeapType
    <2>1. heap'.texts \in 0..(MaxCommands + 2)
        BY <1>6, <1>7, <1>8, MaxCommandsAssumption
    <2> QED BY <1>5, <1>7, <2>1 DEF HeapType
<1>10. TypeOK'
    BY <1>1, <1>2, <1>3, <1>4, <1>8, <1>9, MaxCommandsAssumption DEF TypeOK, HeapType
<1>11. HeapInv'
    <2>1. heap'.texts = homepages' + TextsInUse'
        BY <1>2, <1>7 DEF TextsInUse
    <2>2. homepages' <= count'
        BY <1>8, <1>3
    <2>3. error' = None /\ result' = None
        BY <1>2, <1>3
    <2>4. CASE mode = "none"
        BY <1>1, <1>2, <1>5, <1>7, <2>1, <2>2, <2>3, <2>4 DEF HeapInv, Objects
    <2>5. CASE mode = "prompt"
        BY <1>1, <1>2, <1>3, <1>7, <2>1, <2>2, <2>3, <2>5 DEF HeapInv, Objects
    <2> QED BY <1>1, <2>4, <2>5
<1>12. RequestInv'
    BY <1>1, <1>2, <1>3 DEF RequestInv, TypeOK
<1> QED BY <1>10, <1>11, <1>12

\* A request is made: it ends in what is shown, a result or why there is none.
Asked(json, message) ==
    /\ Finish(json, message)
    /\ request \in Readable
    /\ json = None \/ message = None
    /\ message \in Errors \cup {None}
    /\ json # None => json \in Questions /\ request \in Questions /\ json.key = request.key
    /\ asked' = asked \/ (asked' = Path(request) /\ request \in Questions)
    /\ cache' = cache \/ (cache' = cache \cup {request} /\ request \in Questions \ {Echo})

LEMMA AskedPreserves ==
    ASSUME SessionInv, step = "ask", NEW json, NEW message, Asked(json, message)
    PROVE  SessionInv'
<1> USE DEF SessionInv
<1>1. /\ step' = "show" /\ result' = json /\ error' = message
      /\ UNCHANGED <<mode, request, exit, homepages, count>>
      /\ heap' = [heap EXCEPT !.results = IF json = None THEN @ ELSE @ + 1,
                              !.errors = IF message = None THEN @ ELSE @ + 1,
                              !.texts = @ - Frees(request)]
    BY DEF Asked, Finish
<1>2. /\ Frees(request) \in 0..2 /\ (json = None \/ message = None)
      /\ message \in Errors \cup {None}
    BY TextsFreed DEF Asked
<1>3. /\ result = None /\ error = None /\ mode \in {"once", "prompt"}
      /\ request # None /\ asked = None
    BY DEF TypeOK, HeapInv, RequestInv
<1>4. /\ heap.clients \in 0..2 /\ heap.results \in 0..2 /\ heap.errors \in 0..1
      /\ heap.texts = homepages + Frees(request) /\ homepages \in 0..MaxCommands
      /\ homepages <= count /\ heap \in HeapType
    BY DEF TypeOK, HeapInv, HeapType, TextsInUse
<1>5. /\ mode = "once" => heap.clients = 1 /\ heap.results = 0 /\ heap.errors = 0
      /\ mode = "prompt" => heap.clients = 2 /\ heap.results = 1 /\ heap.errors = 0
    BY <1>3 DEF HeapInv, Objects
<1>6. /\ heap'.clients = heap.clients
      /\ heap'.results = IF json = None THEN heap.results ELSE heap.results + 1
      /\ heap'.errors = IF message = None THEN heap.errors ELSE heap.errors + 1
      /\ heap'.texts = heap.texts - Frees(request)
    BY <1>1, <1>4 DEF HeapType
<1>7. heap'.texts = homepages /\ heap'.texts \in 0..(MaxCommands + 2)
    BY <1>2, <1>4, <1>6, MaxCommandsAssumption
<1>8. heap' \in HeapType
    <2>1. heap'.results \in 0..2 /\ heap'.errors \in 0..1
        BY <1>3, <1>5, <1>6
    <2>2. heap' = [clients |-> heap.clients, results |-> heap'.results,
                   errors |-> heap'.errors, texts |-> heap'.texts]
        BY <1>1, <1>4, <1>6 DEF HeapType
    <2> QED BY <1>4, <1>7, <2>1, <2>2 DEF HeapType
<1>9. TypeOK'
    BY <1>1, <1>2, <1>3, <1>8 DEF TypeOK, HeapType
<1>10. HeapInv'
    BY <1>1, <1>3, <1>4, <1>5, <1>6, <1>7 DEF HeapInv, Objects, TextsInUse
<1>11. RequestInv'
    <2>1. Path(request)' = Path(request)
        BY <1>1 DEF Path, Room
    <2>2. cache' \subseteq (Readable \cap Questions) \ {Echo}
        BY <1>3 DEF Asked, RequestInv
    <2> QED BY <1>1, <1>3, <2>1, <2>2 DEF Asked, RequestInv
<1> QED BY <1>9, <1>10, <1>11

\* A command ends.
FreesResult ==
    heap' = [Freed EXCEPT !.results = IF result = None THEN @ ELSE @ - 1,
                          !.errors = IF error = None THEN @ ELSE @ - 1]

LEMMA DonePreserves ==
    ASSUME SessionInv, step = "ask" => Frees(request) = 0, step # "read", NEW status \in {0, 1, 3}, Done(status),
           cache' \subseteq cache, FreesResult
    PROVE  SessionInv'
<1> USE DEF SessionInv
<1>1. /\ step' = "read" /\ request' = None /\ result' = None /\ error' = None
      /\ asked' = None /\ count' = count /\ homepages' = homepages
      /\ mode = "once" => mode' = "none" /\ exit' = status
      /\ mode # "once" => mode' = mode /\ exit' = exit
    BY DEF Done, Returns
<1>2. mode \in {"once", "prompt"}
    BY DEF TypeOK, HeapInv
<1>3. /\ heap \in HeapType
      /\ heap.texts = homepages /\ homepages \in 0..MaxCommands
      /\ homepages <= count /\ count \in 0..MaxCommands
    BY DEF TypeOK, HeapInv, HeapType, TextsInUse
<1>4. /\ mode = "once" => heap.clients = 1 /\ heap.results = Objects(result)
      /\ mode = "prompt" => heap.clients = 2 /\ heap.results = 1 + Objects(result)
      /\ heap.errors = Objects(error)
    BY <1>2 DEF HeapInv
<1>5. /\ heap'.clients = IF mode = "once" THEN heap.clients - 1 ELSE heap.clients
      /\ heap'.results = IF result = None THEN heap.results ELSE heap.results - 1
      /\ heap'.errors = IF error = None THEN heap.errors ELSE heap.errors - 1
      /\ heap'.texts = heap.texts
      /\ heap' = [clients |-> heap'.clients, results |-> heap'.results,
                  errors |-> heap'.errors, texts |-> heap'.texts]
    BY <1>3 DEF FreesResult, Freed, HeapType
<1>6. /\ mode = "once" => heap'.clients = 0 /\ heap'.results = 0
      /\ mode = "prompt" => heap'.clients = 2 /\ heap'.results = 1
      /\ heap'.errors = 0
    <2>1. heap'.errors = 0
        <3>1. heap.errors = Objects(error)
            BY <1>4
        <3>2. heap'.errors = IF error = None THEN heap.errors ELSE heap.errors - 1
            BY <1>5
        <3> QED BY ONLY <3>1, <3>2 DEF Objects
    <2>2. CASE mode = "once"
        <3>1. heap'.clients = 0
            BY <1>4, <1>5, <2>2
        <3>2. heap.results = Objects(result)
            BY <1>4, <2>2
        <3>3. heap'.results = IF result = None THEN heap.results ELSE heap.results - 1
            BY <1>5
        <3>4. heap'.results = 0
            BY ONLY <3>2, <3>3 DEF Objects
        <3> QED BY <2>1, <2>2, <3>1, <3>4
    <2>3. CASE mode = "prompt"
        <3>1. heap'.clients = 2
            BY <1>4, <1>5, <2>3
        <3>2. heap.results = 1 + Objects(result)
            BY <1>4, <2>3
        <3>3. heap'.results = IF result = None THEN heap.results ELSE heap.results - 1
            BY <1>5
        <3>4. heap'.results = 1
            BY ONLY <3>2, <3>3 DEF Objects
        <3> QED BY <2>1, <2>3, <3>1, <3>4
    <2> QED BY <1>2, <2>2, <2>3
<1>7. heap' \in HeapType
    <2>1. heap'.clients \in 0..2 /\ heap'.results \in 0..2 /\ heap'.errors \in 0..1
        BY <1>2, <1>6
    <2> QED BY <1>3, <1>5, <2>1 DEF HeapType
<1>8. TypeOK'
    BY <1>1, <1>2, <1>3, <1>7, NoneFacts DEF TypeOK, HeapType, INVALID_ARGS, NETWORK_ERROR, SERVER_ERROR
<1>9. HeapInv'
    BY <1>1, <1>2, <1>3, <1>5, <1>6 DEF HeapInv, Objects, TextsInUse
<1>10. RequestInv'
    BY <1>1 DEF RequestInv
<1> QED BY <1>8, <1>9, <1>10

LEMMA SessionPreserved ==
    ASSUME SessionInv, [Next]_vars
    PROVE  SessionInv'
<1> USE DEF SessionInv
<1>1. CASE MainFails \/ StartInteractive \/ NoConnection \/ NoServer \/ Connected \/ Quit
    BY <1>1, ProcessesPreserve
<1>2. CASE ReadArguments \/ ReadLine
    BY <1>2, ReadingPreserves
<1>3. request # None => request \in Readable
    BY DEF RequestInv
<1>4. request \notin {Usage, Clear, None} => request \in Questions
    BY ReadableType DEF RequestInv
<1>5. step = "ask" => request # None
    BY DEF TypeOK
<1>6. CASE Reject
    <2>1. Asked(None, "rejected")
        BY <1>3, <1>5, <1>6 DEF Reject, Asked, Errors
    <2> QED BY <1>6, <2>1, AskedPreserves DEF Reject
<1>7. CASE AnswerFromCache
    <2>1. PICK c \in Cached(request) : Finish(c, None)
        BY <1>7 DEF AnswerFromCache
    <2>2. c \in Questions /\ c.key = request.key
        BY <2>1 DEF Cached, RequestInv
    <2>3. request \in Questions
        BY <1>4, <1>5, <1>7 DEF AnswerFromCache
    <2>4. Asked(c, None)
        BY <1>3, <1>5, <1>7, <2>1, <2>2, <2>3 DEF AnswerFromCache, Asked
    <2> QED BY <1>7, <2>4, AskedPreserves DEF AnswerFromCache
<1>8. CASE AnswerFromServer
    <2>1. request \in Questions /\ request # Echo
        BY <1>4, <1>5, <1>8 DEF AnswerFromServer
    <2>2. Asked(request, None)
        BY <1>3, <1>5, <1>8, <2>1 DEF AnswerFromServer, Asked
    <2> QED BY <1>8, <2>2, AskedPreserves DEF AnswerFromServer
<1>9. CASE EchoAnswers
    <2>1. Asked(Echo, None)
        BY <1>3, <1>5, <1>9, ClearAndUsage DEF EchoAnswers, Asked
    <2> QED BY <1>9, <2>1, AskedPreserves DEF EchoAnswers
<1>10. CASE Fail
    <2>1. PICK message \in {"network", "server", None} : Finish(None, message)
        BY <1>10 DEF Fail
    <2>2. request \in Questions
        BY <1>4, <1>5, <1>10 DEF Fail
    <2>3. Asked(None, message)
        BY <1>3, <1>5, <1>10, <2>1, <2>2 DEF Fail, Asked, Errors
    <2> QED BY <1>10, <2>3, AskedPreserves DEF Fail
<1>11. CASE ShowUsage \/ ClearCache
    <2>1. result = None /\ error = None
        BY <1>11 DEF TypeOK, HeapInv, ShowUsage, ClearCache
    <2>2. heap' = Freed
        BY <1>11 DEF ShowUsage, ClearCache
    <2>3. FreesResult
        <3>1. Freed = [Freed EXCEPT !.results = @, !.errors = @]
            BY DEF Freed, TypeOK, HeapType
        <3> QED BY <2>1, <2>2, <3>1 DEF FreesResult
    <2>4. step # "read" /\ cache' \subseteq cache /\ (Done(0) \/ Done(1))
        BY <1>11 DEF ShowUsage, ClearCache, INVALID_ARGS
    <2>5. Frees(request) = 0
        BY <1>11 DEF ShowUsage, ClearCache, Usage, Clear, Request, Frees
    <2> QED BY <2>3, <2>4, <2>5, DonePreserves
<1>12. CASE Show
    <2>1. /\ step = "show" /\ cache' \subseteq cache /\ (Done(0) \/ Done(3))
          /\ FreesResult
        BY <1>12 DEF Show, SERVER_ERROR, FreesResult
    <2> QED BY <2>1, DonePreserves
<1>13. CASE LoseFile
    <2>1. /\ UNCHANGED <<mode, step, request, result, error, heap, asked, exit, homepages, count>>
          /\ cache' \subseteq cache
        BY <1>13 DEF LoseFile
    <2>2. TypeOK' /\ HeapInv'
        BY <2>1 DEF TypeOK, HeapInv, Objects, TextsInUse
    <2>3. RequestInv'
        BY <2>1 DEF RequestInv, Path, Room
    <2> QED BY <2>2, <2>3
<1>14. CASE UNCHANGED vars
    <2>1. TypeOK' /\ HeapInv'
        BY <1>14 DEF vars, TypeOK, HeapInv, Objects, TextsInUse
    <2>2. RequestInv'
        BY <1>14 DEF vars, RequestInv, Path, Room
    <2> QED BY <2>1, <2>2
<1> QED BY <1>1, <1>2, <1>6, <1>7, <1>8, <1>9, <1>10, <1>11, <1>12, <1>13, <1>14 DEF Next

\* The inductive invariant of the session holds in every reachable state,
\* whatever the user types and whatever the server and the cache answer.
THEOREM SessionInvariance == Spec => []SessionInv
BY SessionInitially, SessionPreserved, PTL DEF Spec

-----------------------------------------------------------------------------
(* The properties.                                                         *)

\* Every variable has its type, and a command its result when it is shown.
THEOREM SessionTypeCorrect == Spec => []TypeOK
<1>1. SessionInv => TypeOK
    BY DEF SessionInv
<1> QED BY <1>1, SessionInvariance, PTL

(***************************************************************************)
(* A command frees its result, its message and the texts of its request on *)
(* every path through it (src/src/cli.c, cli_execute_command and           *)
(* process_command; src/src/api/weather_client.c); what a process leaves   *)
(* is what the start of the interactive mode forgets and one key for each  *)
(* request of homepage.                                                    *)
(***************************************************************************)
THEOREM CommandsFree == Spec => []CommandFreesItsOwn
<1>1. SessionInv => CommandFreesItsOwn
    <2> SUFFICES ASSUME SessionInv PROVE CommandFreesItsOwn
        OBVIOUS
    <2>1. step = "read" => result = None /\ error = None
        BY DEF SessionInv, TypeOK, HeapInv
    <2>2. mode \in {"none", "once", "address", "prompt"} /\ homepages \in Nat
        BY MaxCommandsAssumption DEF SessionInv, TypeOK
    <2> QED BY <2>1, <2>2 DEF SessionInv, HeapInv, CommandFreesItsOwn, Objects, TextsInUse
<1> QED BY <1>1, SessionInvariance, PTL

(***************************************************************************)
(* What is shown is the server's answer to what was asked, whichever       *)
(* request stored it and however the two are spelled: the key of a file    *)
(* never lends one question the answer of another.                         *)
(***************************************************************************)
THEOREM AnswersAreForTheQuestion == Spec => []AnswersTheQuestion
<1>1. SessionInv => AnswersTheQuestion
    BY KeysTellQuestions DEF SessionInv, RequestInv, AnswersTheQuestion
<1> QED BY <1>1, SessionInvariance, PTL

(***************************************************************************)
(* What reaches the server decodes to what the user typed, or to its       *)
(* beginning where the buffers cut the path (src/src/api/weather_client.c, *)
(* src/src/network/http_client.c, parse_url), with a plus for every space  *)
(* where the server does not take a plus for a space.                      *)
(***************************************************************************)
THEOREM PathsSayWhatWasTyped == Spec => []AsksWhatWasTyped
<1>1. SessionInv => AsksWhatWasTyped
    BY PathsDecode DEF SessionInv, RequestInv, AsksWhatWasTyped
<1> QED BY <1>1, SessionInvariance, PTL

(***************************************************************************)
(* No request goes to the server while the answer to one that asks for the *)
(* same is cached.                                                         *)
(***************************************************************************)
THEOREM SpellingsShareAnswers == Spec => SpellingsShare
<1> DEFINE Shared == step = "ask" /\ step' = "show" /\ Fits(request)
                       /\ (\E c \in cache : Fits(c) /\ SameQuestion(c, request))
                       => asked' = None
<1>1. SessionInv /\ [Next]_vars => [Shared]_vars
    <2> SUFFICES ASSUME SessionInv, Next, step = "ask", step' = "show", Fits(request),
                        NEW c \in cache, Fits(c), SameQuestion(c, request)
                 PROVE  asked' = None
        OBVIOUS
    <2>1. asked = None /\ c \in Questions /\ c # Echo
        BY DEF SessionInv, RequestInv
    <2>2. \/ Reject \/ AnswerFromCache \/ AnswerFromServer \/ EchoAnswers \/ Fail
          \/ LoseFile /\ step' = step
        BY DEF Next, MainFails, StartInteractive, NoConnection, NoServer, Connected, Quit,
               ReadArguments, ReadLine, Read, ShowUsage, ClearCache, Show, Done, LoseFile,
               SessionInv, HeapInv
    <2>3. request \notin {Usage, Clear} => request \in Questions
        BY ReadableType DEF SessionInv, RequestInv, TypeOK
    <2>4. request # Echo
        <3>1. c.what = request.what
            BY DEF SameQuestion
        <3> QED BY <2>1, <3>1, Kinds, WhatOf
    <2>5. request \in Questions => Cached(request) # {}
        <3>1. request \in Questions => c.key = request.key
            BY <2>1, KeysTellQuestions
        <3> QED BY <3>1 DEF Cached
    <2> QED BY <2>1, <2>2, <2>3, <2>4, <2>5 DEF Reject, AnswerFromCache, AnswerFromServer,
               EchoAnswers, Fail
<1> QED BY <1>1, SessionInvariance, PTL DEF Spec, SpellingsShare

=============================================================================
