----------------------- MODULE ConnectionScreenProofs -----------------------
(***************************************************************************)
(* Theorems about ConnectionScreen, for any charsets, ids and bound.       *)
(*                                                                         *)
(* What the formatter makes of a text is a matter of induction over its    *)
(* characters.  Induction is stated with sets, T being the numbers or      *)
(* texts that have the property; it follows from the least number that is  *)
(* not in T.  Then: what Without and Slice return, what the formatter      *)
(* reads back from a text it has shown, what an edit does to that, what it *)
(* and normalizeDeviceId read from the spellings of an id, and at the end  *)
(* the invariant of the screen.                                            *)
(***************************************************************************)
EXTENDS ConnectionScreen, TLAPS, WellFoundedInduction, SequenceTheorems

-----------------------------------------------------------------------------
(* Induction *)

LEMMA Induction ==
  ASSUME NEW T, 0 \in T, \A n \in Nat : n \in T => n + 1 \in T
  PROVE  Nat \subseteq T
<1> DEFINE D == Nat \ T
           R == {ss \in Nat \X Nat : ss[1] < ss[2]}
<1> SUFFICES ASSUME D # {} PROVE FALSE
  OBVIOUS
<1>1. PICK m \in D : \A k \in D : <<k, m>> \notin R
  <2>1. IsWellFoundedOn(R, Nat)
    BY NatLessThanWellFounded DEF OpToRel
  <2>2. D \subseteq Nat
    OBVIOUS
  <2> HIDE DEF D, R
  <2> QED BY <2>1, <2>2, WFMin
<1>2. m # 0 /\ m - 1 \in Nat
  OBVIOUS
<1>3. m - 1 \notin T
  BY <1>2
<1>4. <<m - 1, m>> \in R
  BY <1>2
<1> QED BY <1>1, <1>2, <1>3, <1>4

-----------------------------------------------------------------------------
(* Without *)

(* The texts before position n that Without builds for text. *)
Keeps(kept, text, chars, n) ==
  kept = [i \in 0..n |->
            IF i = 0 THEN <<>>
            ELSE IF text[i] \in chars THEN kept[i - 1] ELSE Append(kept[i - 1], text[i])]

LEMMA KeptExists ==
  ASSUME NEW text, NEW chars
  PROVE  \A n \in Nat : \E kept : Keeps(kept, text, chars, n)
<1> DEFINE T == {n \in Nat : \E kept : Keeps(kept, text, chars, n)}
<1>1. 0 \in T
  <2> DEFINE k == [i \in 0..0 |-> <<>>]
  <2>1. Keeps(k, text, chars, 0)
    BY DEF Keeps
  <2> QED BY <2>1
<1>2. ASSUME NEW n \in Nat, n \in T PROVE n + 1 \in T
  <2>1. PICK k : Keeps(k, text, chars, n)
    BY <1>2
  <2> DEFINE j == [i \in 0..n + 1 |-> IF i \in 0..n THEN k[i]
                     ELSE IF text[i] \in chars THEN k[n] ELSE Append(k[n], text[i])]
  <2>2. Keeps(j, text, chars, n + 1)
    <3>1. \A i \in 0..n : k[i] = IF i = 0 THEN <<>>
            ELSE IF text[i] \in chars THEN k[i - 1] ELSE Append(k[i - 1], text[i])
      BY <2>1 DEF Keeps
    <3>2. \A i \in 1..n + 1 : i - 1 \in 0..n /\ j[i - 1] = k[i - 1]
      OBVIOUS
    <3>3. \A i \in 0..n + 1 : j[i] = IF i = 0 THEN <<>>
            ELSE IF text[i] \in chars THEN j[i - 1] ELSE Append(j[i - 1], text[i])
      BY <3>1, <3>2
    <3> HIDE DEF j
    <3>4. j = [i \in 0..n + 1 |-> j[i]]
      BY DEF j
    <3> QED BY <3>3, <3>4 DEF Keeps
  <2> QED BY <2>2
<1> QED BY <1>1, <1>2, Induction

LEMMA WithoutKeeps ==
  ASSUME NEW S, NEW text \in Seq(S), NEW chars
  PROVE  \E kept : Keeps(kept, text, chars, Len(text)) /\ Without(text, chars) = kept[Len(text)]
<1>1. \E kept : Keeps(kept, text, chars, Len(text))
  BY KeptExists, LenProperties
<1> QED BY <1>1 DEF Keeps, Without

(* What is kept of a text depends on the text only.                          *)
LEMMA KeptOfSame ==
  ASSUME NEW text, NEW other, NEW chars, NEW n \in Nat, NEW m \in Nat, n <= m,
         NEW k, Keeps(k, text, chars, n), NEW j, Keeps(j, other, chars, m),
         \A i \in 1..n : text[i] = other[i]
  PROVE  k[n] = j[n]
<1> DEFINE T == {i \in Nat : i <= n => k[i] = j[i]}
<1>1. 0 \in T
  BY DEF Keeps
<1>2. ASSUME NEW i \in Nat, i \in T PROVE i + 1 \in T
  <2>1. CASE i + 1 <= n
    <3>1. i + 1 # 0 /\ (i + 1) - 1 = i /\ i + 1 \in 0..n /\ i + 1 \in 0..m /\ i + 1 \in 1..n
      BY <2>1
    <3>2. k[i + 1] = IF text[i + 1] \in chars THEN k[i] ELSE Append(k[i], text[i + 1])
      BY <3>1 DEF Keeps
    <3>3. j[i + 1] = IF other[i + 1] \in chars THEN j[i] ELSE Append(j[i], other[i + 1])
      BY <3>1 DEF Keeps
    <3> QED BY <1>2, <2>1, <3>1, <3>2, <3>3
  <2> QED BY <2>1
<1> HIDE DEF T
<1>3. n \in T
  BY <1>1, <1>2, Induction
<1> QED BY <1>3 DEF T

LEMMA WithoutEmpty ==
  ASSUME NEW chars
  PROVE  Without(<<>>, chars) = <<>>
<1>1. <<>> \in Seq({}) /\ Len(<<>>) = 0
  BY EmptySeq
<1>2. PICK k : Keeps(k, <<>>, chars, 0) /\ Without(<<>>, chars) = k[0]
  BY <1>1, WithoutKeeps
<1> QED BY <1>2 DEF Keeps

LEMMA WithoutAppend ==
  ASSUME NEW S, NEW text \in Seq(S), NEW c \in S, NEW chars
  PROVE  Without(Append(text, c), chars) =
           IF c \in chars THEN Without(text, chars) ELSE Append(Without(text, chars), c)
<1> DEFINE longer == Append(text, c)
           n == Len(text)
<1>1. /\ longer \in Seq(S) /\ Len(longer) = n + 1 /\ longer[n + 1] = c
      /\ \A i \in 1..n : text[i] = longer[i]
      /\ n \in Nat
  BY AppendProperties, LenProperties
<1> HIDE DEF longer, n
<1>2. PICK k : Keeps(k, text, chars, n) /\ Without(text, chars) = k[n]
  BY WithoutKeeps DEF n
<1>3. PICK j : Keeps(j, longer, chars, n + 1) /\ Without(longer, chars) = j[n + 1]
  BY <1>1, WithoutKeeps
<1>4. j[n + 1] = IF c \in chars THEN j[n] ELSE Append(j[n], c)
  <2>1. n + 1 # 0 /\ (n + 1) - 1 = n /\ n + 1 \in 0..n + 1
    BY <1>1
  <2> QED BY <1>1, <1>3, <2>1 DEF Keeps
<1>5. k[n] = j[n]
  BY <1>1, <1>2, <1>3, KeptOfSame
<1> QED BY <1>2, <1>3, <1>4, <1>5 DEF longer

LEMMA TextInduction ==
  ASSUME NEW S, NEW T, <<>> \in T, \A s \in Seq(S), c \in S : s \in T => Append(s, c) \in T
  PROVE  Seq(S) \subseteq T
<1> DEFINE N == {n \in Nat : \A s \in Seq(S) : Len(s) = n => s \in T}
<1>1. 0 \in N
  BY EmptySeq
<1>2. ASSUME NEW n \in Nat, n \in N PROVE n + 1 \in N
  <2> SUFFICES ASSUME NEW s \in Seq(S), Len(s) = n + 1 PROVE s \in T
    OBVIOUS
  <2>1. PICK t \in Seq(S), c \in S : s = Append(t, c)
    BY EmptySeq, SequenceEmptyOrAppend
  <2>2. Len(t) = n
    BY <2>1, AppendProperties, LenProperties
  <2> QED BY <1>2, <2>1, <2>2
<1>3. Nat \subseteq N
  <2> HIDE DEF N
  <2> QED BY <1>1, <1>2, Induction
<1> QED BY <1>3, LenProperties

LEMMA WithoutType ==
  ASSUME NEW S, NEW chars
  PROVE  \A text \in Seq(S) : Without(text, chars) \in Seq(S \ chars)
<1> DEFINE T == {text \in Seq(S) : Without(text, chars) \in Seq(S \ chars)}
<1>1. <<>> \in T
  BY WithoutEmpty, EmptySeq
<1>2. ASSUME NEW s \in Seq(S), NEW c \in S, s \in T PROVE Append(s, c) \in T
  <2>1. Append(s, c) \in Seq(S)
    BY AppendProperties
  <2>2. c \notin chars => Append(Without(s, chars), c) \in Seq(S \ chars)
    BY <1>2, AppendProperties
  <2> QED BY <1>2, <2>1, <2>2, WithoutAppend
<1> HIDE DEF T
<1>3. Seq(S) \subseteq T
  BY <1>1, <1>2, TextInduction
<1> QED BY <1>3 DEF T

LEMMA WithoutNone ==
  ASSUME NEW S, NEW chars, S \cap chars = {}
  PROVE  \A text \in Seq(S) : Without(text, chars) = text
<1> DEFINE T == {text \in Seq(S) : Without(text, chars) = text}
<1>1. <<>> \in T
  BY WithoutEmpty, EmptySeq
<1>2. ASSUME NEW s \in Seq(S), NEW c \in S, s \in T PROVE Append(s, c) \in T
  <2>1. Append(s, c) \in Seq(S)
    BY AppendProperties
  <2> QED BY <1>2, <2>1, WithoutAppend
<1> HIDE DEF T
<1>3. Seq(S) \subseteq T
  BY <1>1, <1>2, TextInduction
<1> QED BY <1>3 DEF T

LEMMA WithoutConcat ==
  ASSUME NEW S, NEW chars, NEW a \in Seq(S)
  PROVE  \A b \in Seq(S) : Without(a \o b, chars) = Without(a, chars) \o Without(b, chars)
<1> DEFINE W(t) == Without(t, chars)
           T == {b \in Seq(S) : W(a \o b) = W(a) \o W(b)}
<1>0. \A t \in Seq(S) : W(t) \in Seq(S \ chars) /\ W(t) \in Seq(S)
  BY WithoutType, SeqMonotonic
<1>1. <<>> \in T
  BY <1>0, WithoutEmpty, EmptySeq, ConcatEmptySeq
<1>2. ASSUME NEW b \in Seq(S), NEW c \in S, b \in T PROVE Append(b, c) \in T
  <2>1. Append(b, c) \in Seq(S) /\ a \o b \in Seq(S)
    BY AppendProperties, ConcatProperties
  <2>2. a \o Append(b, c) = Append(a \o b, c)
    BY <2>1
  <2>3. W(a) \o Append(W(b), c) = Append(W(a) \o W(b), c)
    BY <1>0
  <2>4. W(Append(b, c)) = IF c \in chars THEN W(b) ELSE Append(W(b), c)
    BY WithoutAppend
  <2>5. W(Append(a \o b, c)) = IF c \in chars THEN W(a \o b) ELSE Append(W(a \o b), c)
    <3> DEFINE r == a \o b
    <3>1. r \in Seq(S)
      BY <2>1
    <3> HIDE DEF r
    <3>2. W(Append(r, c)) = IF c \in chars THEN W(r) ELSE Append(W(r), c)
      BY <3>1, WithoutAppend
    <3> QED BY <3>2 DEF r
  <2> QED BY <1>2, <2>1, <2>2, <2>3, <2>4, <2>5
<1> HIDE DEF T
<1>3. Seq(S) \subseteq T
  BY <1>1, <1>2, TextInduction
<1> QED BY <1>3 DEF T

-----------------------------------------------------------------------------
(* Slices *)

LEMMA Drop ==
  ASSUME NEW S, NEW a \in Seq(S), NEW t \in Seq(S), NEW i \in Nat, Len(a) = i
  PROVE  Slice(a \o t, i, Len(a \o t)) = t /\ IsPrefix(a, a \o t)
<1> DEFINE u == a \o t
<1>1. /\ u \in Seq(S) /\ Len(u) = i + Len(t) /\ Len(t) \in Nat
      /\ \A k \in 1..i + Len(t) : u[k] = IF k <= i THEN a[k] ELSE t[k - i]
  BY ConcatProperties, LenProperties
<1> HIDE DEF u
<1>2. SubSeq(u, i + 1, Len(u)) = t
  <2>1. \A k \in i + 1..Len(u) : u[k] \in S
    BY <1>1, ElementOfSeq
  <2> DEFINE v == SubSeq(u, i + 1, Len(u))
  <2>2. /\ v \in Seq(S) /\ Len(v) = Len(t)
        /\ \A k \in 1..Len(t) : v[k] = u[i + k]
    BY <1>1, <2>1, SubSeqProperties
  <2> HIDE DEF v
  <2>3. ASSUME NEW k \in 1..Len(t) PROVE v[k] = t[k]
    <3>1. i + k \in 1..i + Len(t) /\ ~(i + k <= i) /\ (i + k) - i = k
      BY <1>1
    <3> QED BY <1>1, <2>2, <3>1
  <2>4. v = t
    BY <2>2, <2>3, SeqEqual
  <2> QED BY <2>4 DEF v
<1>3. SubSeq(u, 1, i) = a /\ SubSeq(a, 1, i) = a
  <2>1. \A k \in 1..i : u[k] \in S
    BY <1>1, ElementOfSeq
  <2> DEFINE v == SubSeq(u, 1, i)
  <2>2. /\ v \in Seq(S) /\ Len(v) = i
        /\ \A k \in 1..i : v[k] = u[k]
    BY <1>1, <2>1, SubSeqProperties
  <2> HIDE DEF v
  <2>3. \A k \in 1..i : v[k] = a[k]
    BY <1>1, <2>2
  <2>4. v = a
    BY <2>2, <2>3, SeqEqual
  <2> QED BY <2>4, SubSeqFull DEF v
<1> QED BY <1>1, <1>2, <1>3 DEF Slice, IsPrefix, u

LEMMA SliceType ==
  ASSUME NEW S, NEW b \in Seq(S), NEW i \in Nat, NEW j \in Nat
  PROVE  /\ Slice(b, i, j) \in Seq(S)
         /\ Len(Slice(b, i, j)) = IF Len(b) <= i \/ j <= i THEN 0
                                  ELSE IF j < Len(b) THEN j - i ELSE Len(b) - i
         /\ Len(b) <= i => Slice(b, i, j) = <<>>
         /\ \A n \in 1..Len(Slice(b, i, j)) : Slice(b, i, j)[n] = b[i + n]
<1> DEFINE e == IF j < Len(b) THEN j ELSE Len(b)
<1>1. e \in Nat /\ Len(b) \in Nat
  BY LenProperties
<1>2. \A k \in i + 1..e : b[k] \in S
  BY <1>1, ElementOfSeq
<1>3. SubSeq(b, i + 1, e) \in Seq(S)
  BY <1>1, <1>2, SubSeqProperties
<1>4. Len(SubSeq(b, i + 1, e)) = IF i + 1 <= e THEN e - (i + 1) + 1 ELSE 0
  BY <1>1, <1>2, SubSeqProperties
<1>5. Len(b) <= i => SubSeq(b, i + 1, e) = <<>>
  BY <1>1, SubSeqEmpty
<1>6. \A n \in 1..e - (i + 1) + 1 : SubSeq(b, i + 1, e)[n] = b[(i + 1) + n - 1]
  BY <1>1, <1>2, SubSeqProperties
<1>7. ASSUME NEW n \in 1..Len(SubSeq(b, i + 1, e)) PROVE SubSeq(b, i + 1, e)[n] = b[i + n]
  <2>1. n \in 1..e - (i + 1) + 1 /\ (i + 1) + n - 1 = i + n
    BY <1>1, <1>4
  <2> QED BY <1>6, <2>1
<1> QED BY <1>1, <1>3, <1>4, <1>5, <1>7 DEF Slice

(* Two slices that follow one another are one.                               *)
LEMMA SliceJoin ==
  ASSUME NEW S, NEW b \in Seq(S), NEW i \in Nat, NEW j \in Nat, NEW k \in Nat, i <= j, j <= k
  PROVE  Slice(b, i, j) \o Slice(b, j, k) = Slice(b, i, k)
<1>1. Len(b) \in Nat
  BY LenProperties
<1>2. CASE j <= Len(b)
  <2> DEFINE e == IF k < Len(b) THEN k ELSE Len(b)
  <2>1. /\ i + 1 \in 1..Len(b) + 1 /\ j \in (i + 1) - 1..Len(b) /\ e \in j..Len(b)
        /\ (IF j < Len(b) THEN j ELSE Len(b)) = j
    BY <1>1, <1>2
  <2> HIDE DEF e
  <2>2. SubSeq(b, i + 1, j) \o SubSeq(b, j + 1, e) = SubSeq(b, i + 1, e)
    BY <2>1, ConcatAdjacentSubSeq
  <2> QED BY <2>1, <2>2 DEF Slice, e
<1>3. CASE Len(b) < j
  <2>1. Slice(b, j, k) = <<>>
    BY <1>1, <1>3, SliceType
  <2>2. Slice(b, i, j) = Slice(b, i, k)
    BY <1>1, <1>3 DEF Slice
  <2> QED BY <2>1, <2>2, SliceType, ConcatEmptySeq
<1> QED BY <1>1, <1>2, <1>3

(* A slice that reaches to the end.                                          *)
LEMMA SliceWhole ==
  ASSUME NEW S, NEW b \in Seq(S), NEW j \in Nat, Len(b) <= j
  PROVE  Slice(b, 0, j) = b
<1>1. (IF j < Len(b) THEN j ELSE Len(b)) = Len(b)
  BY LenProperties
<1> QED BY <1>1, SubSeqFull DEF Slice

LEMMA SliceOfSlice ==
  ASSUME NEW S, NEW b \in Seq(S), NEW i \in Nat, NEW j \in Nat, NEW k \in Nat, j <= k
  PROVE  Slice(Slice(b, 0, k), i, j) = Slice(b, i, j)
<1> DEFINE a == Slice(b, 0, k)
           u == Slice(a, i, j)
           v == Slice(b, i, j)
<1>1. /\ Len(a) = (IF Len(b) <= 0 \/ k <= 0 THEN 0 ELSE IF k < Len(b) THEN k ELSE Len(b))
      /\ \A n \in 1..Len(a) : a[n] = b[0 + n]
      /\ Len(b) \in Nat
  BY SliceType, LenProperties
<1>0. a \in Seq(S)
  BY SliceType
<1> HIDE DEF a
<1>2. /\ u \in Seq(S) /\ Len(u) = (IF Len(a) <= i \/ j <= i THEN 0
                                    ELSE IF j < Len(a) THEN j - i ELSE Len(a) - i)
      /\ \A n \in 1..Len(u) : u[n] = a[i + n]
  BY <1>0, SliceType
<1>3. /\ v \in Seq(S) /\ Len(v) = (IF Len(b) <= i \/ j <= i THEN 0
                                    ELSE IF j < Len(b) THEN j - i ELSE Len(b) - i)
      /\ \A n \in 1..Len(v) : v[n] = b[i + n]
  BY SliceType
<1> HIDE DEF u, v
<1>4. Len(u) = Len(v)
  BY <1>1, <1>2, <1>3
<1>5. ASSUME NEW n \in 1..Len(u) PROVE u[n] = v[n]
  <2>1. i + n \in 1..Len(a) /\ 0 + (i + n) = i + n
    BY <1>1, <1>2
  <2> QED BY <1>1, <1>2, <1>3, <1>4, <2>1
<1> QED BY <1>2, <1>3, <1>4, <1>5, SeqEqual DEF a, u, v

-----------------------------------------------------------------------------
(* The field.  ReadBack is what the formatter takes from a text, Bare what   *)
(* it takes from one without a prefix.                                       *)

Unfit == Others \cup {" "}
Bare(text) == Without(Without(text, Unfit), {"-"})
ReadBack(text) == Without(CutPrefix(Without(text, Unfit)), {"-"})
Prefix == DL \o Dash
Body(b) == Slice(b, 0, 3)
           \o (IF Len(b) > 3 THEN Dash \o Slice(b, 3, 6) ELSE <<>>)
           \o (IF Len(b) > 6 THEN Dash \o Slice(b, 6, FIELD_LENGTH) ELSE <<>>)

Texts == Seq(Chars)
Raws == Seq(FieldChars)

LEMMA ReformattedReads == \A text : Reformatted(text) = ShownAs(ReadBack(text))
  BY DEF Reformatted, ReadBack, Unfit

LEMMA RawsAreTexts == Raws \subseteq Texts
  BY SeqMonotonic DEF Raws, Texts, Chars

LEMMA Joined ==
  ASSUME NEW a \in Texts, NEW b \in Texts
  PROVE  a \o b \in Texts /\ Len(a \o b) = Len(a) + Len(b) /\ Len(a) \in Nat
  BY ConcatProperties, LenProperties DEF Texts

Regroups(a, b, c) == a \o (b \o c) = (a \o b) \o c

LEMMA Regroup == \A a, b, c \in Texts : Regroups(a, b, c)
  BY ConcatAssociative, SMTT(30) DEF Regroups, Texts

LEMMA Constant ==
  /\ DL \in Raws /\ Len(DL) = 2 /\ DL[1] = "D" /\ DL[2] = "L"
  /\ Dash \in Texts /\ Len(Dash) = 1 /\ Dash[1] = "-"
  /\ Prefix \in Texts /\ Len(Prefix) = 3
<1>1. "D" \in FieldChars /\ "L" \in FieldChars /\ "-" \in Chars
  BY DeviceIdAssumption DEF Chars
<1>2. DL \in Raws /\ Len(DL) = 2 /\ DL[1] = "D" /\ DL[2] = "L"
  BY <1>1 DEF DL, Raws
<1>3. Dash \in Texts /\ Len(Dash) = 1 /\ Dash[1] = "-"
  BY <1>1 DEF Dash, Texts
<1>4. DL \in Texts
  BY <1>2, RawsAreTexts
<1>5. Prefix \in Texts /\ Len(Prefix) = Len(DL) + Len(Dash)
  BY <1>3, <1>4, Joined DEF Prefix
<1> QED BY <1>2, <1>3, <1>5

LEMMA BareType ==
  ASSUME NEW t \in Texts
  PROVE  /\ Bare(t) \in Raws
         /\ Without(t, Unfit) \in Texts
<1>1. Without(t, Unfit) \in Seq(Chars \ Unfit)
  BY WithoutType DEF Texts
<1>2. Bare(t) \in Seq((Chars \ Unfit) \ {"-"})
  BY <1>1, WithoutType DEF Bare
<1>3. (Chars \ Unfit) \ {"-"} \subseteq FieldChars
  BY DEF Chars, Unfit
<1> QED BY <1>1, <1>2, <1>3, SeqMonotonic DEF Raws, Texts

LEMMA BareConcat ==
  ASSUME NEW a \in Texts, NEW b \in Texts
  PROVE  /\ Bare(a \o b) = Bare(a) \o Bare(b)
         /\ Without(a \o b, Unfit) = Without(a, Unfit) \o Without(b, Unfit)
<1>1. Without(a \o b, Unfit) = Without(a, Unfit) \o Without(b, Unfit)
  BY WithoutConcat DEF Texts
<1>2. Without(a, Unfit) \in Texts /\ Without(b, Unfit) \in Texts
  BY BareType
<1>3. ASSUME NEW c \in Texts, NEW d \in Texts
      PROVE  Without(c \o d, {"-"}) = Without(c, {"-"}) \o Without(d, {"-"})
  BY WithoutConcat DEF Texts
<1>4. Without(Without(a, Unfit) \o Without(b, Unfit), {"-"}) = Bare(a) \o Bare(b)
  BY <1>2, <1>3 DEF Bare
<1> QED BY <1>1, <1>4 DEF Bare

LEMMA BareOfRaw ==
  ASSUME NEW a \in Raws
  PROVE  Bare(a) = a /\ Without(a, Unfit) = a
<1>1. FieldChars \cap Unfit = {} /\ FieldChars \cap {"-"} = {}
  BY DeviceIdAssumption DEF Unfit
<1> QED BY <1>1, WithoutNone DEF Bare, Raws

LEMMA WithoutOne ==
  ASSUME NEW c, NEW chars
  PROVE  Without(<<c>>, chars) = IF c \in chars THEN <<>> ELSE <<c>>
<1>1. <<>> \in Seq({c}) /\ Append(<<>>, c) = <<c>>
  BY EmptySeq
<1>2. c \in {c}
  OBVIOUS
<1>3. Without(Append(<<>>, c), chars) =
        IF c \in chars THEN Without(<<>>, chars) ELSE Append(Without(<<>>, chars), c)
  BY <1>1, <1>2, WithoutAppend
<1> QED BY <1>1, <1>3, WithoutEmpty

LEMMA BareOne ==
  ASSUME NEW c \in Chars
  PROVE  Bare(<<c>>) = IF c \in FieldChars THEN <<c>> ELSE <<>>
<1>1. CASE c \in Unfit
  <2>1. Without(<<c>>, Unfit) = <<>> /\ c \notin FieldChars
    BY <1>1, WithoutOne, DeviceIdAssumption DEF Unfit
  <2> QED BY <2>1, WithoutEmpty DEF Bare
<1>2. CASE c \notin Unfit
  <2>1. Without(<<c>>, Unfit) = <<c>> /\ (c \in FieldChars <=> c \notin {"-"})
    BY <1>2, WithoutOne, DeviceIdAssumption DEF Unfit, Chars
  <2> QED BY <2>1, WithoutOne DEF Bare
<1> QED BY <1>1, <1>2

LEMMA BareDash == Bare(Dash) = <<>> /\ Without(Dash, Unfit) = Dash
  BY WithoutOne, DeviceIdAssumption DEF Bare, Unfit, Dash

LEMMA PrefixStays == Without(Prefix, Unfit) = Prefix
  BY BareConcat, BareDash, BareOfRaw, Constant, RawsAreTexts DEF Prefix

LEMMA TextDrop ==
  ASSUME NEW a \in Texts, NEW t \in Texts
  PROVE  Slice(a \o t, Len(a), Len(a \o t)) = t /\ IsPrefix(a, a \o t)
  BY Drop, Joined DEF Texts

LEMMA CutPrefixed ==
  ASSUME NEW t \in Texts
  PROVE  CutPrefix(Prefix \o t) = t /\ Slice(Prefix \o t, 3, Len(Prefix \o t)) = t
<1>0. DL \in Texts /\ Dash \in Texts /\ Prefix \in Texts
  BY Constant, RawsAreTexts
<1>1. Prefix \o t = DL \o (Dash \o t)
  <2>1. Regroups(DL, Dash, t)
    BY <1>0, Regroup
  <2> QED BY <2>1 DEF Regroups, Prefix
<1>2. Dash \o t \in Texts
  BY <1>0, Joined
<1>3. /\ IsPrefix(DL, DL \o (Dash \o t))
      /\ Slice(DL \o (Dash \o t), 2, Len(DL \o (Dash \o t))) = Dash \o t
  BY <1>0, <1>2, Constant, TextDrop
<1>4. IsPrefix(Dash, Dash \o t) /\ Slice(Dash \o t, 1, Len(Dash \o t)) = t
  BY <1>0, Constant, TextDrop
<1>5. Slice(Prefix \o t, 3, Len(Prefix \o t)) = t
  BY <1>0, Constant, TextDrop
<1> QED BY <1>1, <1>3, <1>4, <1>5 DEF CutPrefix

LEMMA ReadBackPrefixed ==
  ASSUME NEW t \in Texts
  PROVE  ReadBack(Prefix \o t) = Bare(t)
<1>1. Without(Prefix \o t, Unfit) = Prefix \o Without(t, Unfit)
  BY BareConcat, Constant, PrefixStays
<1> QED BY <1>1, BareType, CutPrefixed DEF ReadBack, Bare

LEMMA Group ==
  ASSUME NEW b \in Raws, NEW i \in Nat, NEW j \in Nat
  PROVE  Slice(b, i, j) \in Raws /\ Slice(b, i, j) \in Texts
  BY SliceType, RawsAreTexts DEF Raws

LEMMA GroupLength ==
  ASSUME NEW b \in Raws, NEW i \in Nat, NEW j \in Nat
  PROVE  Len(Slice(b, i, j)) = IF Len(b) <= i \/ j <= i THEN 0
                               ELSE IF j < Len(b) THEN j - i ELSE Len(b) - i
  BY SliceType DEF Raws

LEMMA RawLength == ASSUME NEW b \in Raws PROVE Len(b) \in Nat /\ (b = <<>> <=> Len(b) = 0)
  BY EmptySeq, LenProperties DEF Raws

LEMMA Whole ==
  ASSUME NEW b \in Raws, Len(b) <= FIELD_LENGTH
  PROVE  Slice(b, 0, FIELD_LENGTH) = b
  BY SliceWhole DEF Raws, FIELD_LENGTH

LEMMA Nothing ==
  /\ <<>> \in Raws /\ <<>> \in Texts
  /\ Bare(<<>>) = <<>> /\ Without(<<>>, Unfit) = <<>> /\ ReadBack(<<>>) = <<>>
<1>1. <<>> \in Raws /\ <<>> \in Texts
  BY EmptySeq DEF Raws, Texts
<1>2. Without(<<>>, Unfit) = <<>> /\ Bare(<<>>) = <<>>
  BY WithoutEmpty DEF Bare
<1>3. ~IsPrefix(DL, <<>>)
  BY Constant, EmptySeq DEF IsPrefix
<1>4. ReadBack(<<>>) = <<>>
  BY <1>2, <1>3, WithoutEmpty DEF ReadBack, CutPrefix
<1> QED BY <1>1, <1>2, <1>4

(* A group that follows others, with its dash.                               *)
Next3(b, i, j) == IF Len(b) > i THEN Dash \o Slice(b, i, j) ELSE <<>>

LEMMA NextGroup ==
  ASSUME NEW b \in Raws, NEW i \in Nat, NEW j \in Nat
  PROVE  /\ Next3(b, i, j) \in Texts
         /\ Bare(Next3(b, i, j)) = Slice(b, i, j)
         /\ Without(Next3(b, i, j), Unfit) = Next3(b, i, j)
<1> DEFINE g == Slice(b, i, j)
<1>1. g \in Raws /\ g \in Texts
  BY Group
<1>2. CASE Len(b) > i
  <2> HIDE DEF g
  <2>1. Dash \o g \in Texts
    BY <1>1, Joined, Constant
  <2>2. Bare(Dash \o g) = <<>> \o g /\ Without(Dash \o g, Unfit) = Dash \o g
    BY <1>1, BareConcat, BareDash, BareOfRaw, Constant
  <2>3. <<>> \o g = g
    BY <1>1, ConcatEmptySeq DEF Texts
  <2> QED BY <1>2, <2>1, <2>2, <2>3 DEF Next3, g
<1>3. CASE ~(Len(b) > i)
  <2>1. g = <<>>
    BY <1>3, SliceType, LenProperties DEF Raws
  <2> QED BY <1>3, <2>1, Nothing DEF Next3
<1> QED BY <1>2, <1>3

LEMMA BodyReads ==
  ASSUME NEW b \in Raws
  PROVE  /\ Body(b) \in Texts
         /\ Bare(Body(b)) = Slice(b, 0, FIELD_LENGTH)
         /\ Without(Body(b), Unfit) = Body(b)
<1> DEFINE f == Slice(b, 0, 3)
           g == Next3(b, 3, 6)
           h == Next3(b, 6, FIELD_LENGTH)
<1>1. f \in Raws /\ f \in Texts
  BY Group
<1>2. /\ g \in Texts /\ Bare(g) = Slice(b, 3, 6) /\ Without(g, Unfit) = g
      /\ h \in Texts /\ Bare(h) = Slice(b, 6, 8) /\ Without(h, Unfit) = h
  BY NextGroup DEF FIELD_LENGTH
<1>3. Slice(b, 0, 3) \o Slice(b, 3, 6) \o Slice(b, 6, 8) = Slice(b, 0, 8)
  <2>1. Slice(b, 0, 3) \o Slice(b, 3, 6) = Slice(b, 0, 6)
    BY SliceJoin DEF Raws
  <2>2. Slice(b, 0, 6) \o Slice(b, 6, 8) = Slice(b, 0, 8)
    BY SliceJoin DEF Raws
  <2> QED BY <2>1, <2>2
<1>4. Body(b) = f \o g \o h
  BY DEF Body, Next3
<1>5. Bare(f) = Slice(b, 0, 3) /\ Without(f, Unfit) = f
  BY <1>1, BareOfRaw
<1> HIDE DEF f, g, h
<1>6. f \o g \in Texts /\ f \o g \o h \in Texts
  BY <1>1, <1>2, Joined
<1>7. Bare((f \o g) \o h) = Bare(f \o g) \o Bare(h) /\ Bare(f \o g) = Bare(f) \o Bare(g)
  BY <1>1, <1>2, <1>6, BareConcat
<1>8. /\ Without((f \o g) \o h, Unfit) = Without(f \o g, Unfit) \o Without(h, Unfit)
      /\ Without(f \o g, Unfit) = Without(f, Unfit) \o Without(g, Unfit)
  BY <1>1, <1>2, <1>6, BareConcat
<1> QED BY <1>2, <1>3, <1>4, <1>5, <1>6, <1>7, <1>8 DEF FIELD_LENGTH

LEMMA Shown ==
  ASSUME NEW b \in Raws, b # <<>>
  PROVE  ShownAs(b) = Prefix \o Body(b)
<1> DEFINE f == Slice(b, 0, 3)
           g == Next3(b, 3, 6)
           h == Next3(b, 6, FIELD_LENGTH)
<1>1. Prefix \in Texts /\ f \in Texts /\ g \in Texts /\ h \in Texts
  BY Group, NextGroup, Constant DEF FIELD_LENGTH
<1>2. ShownAs(b) = Prefix \o f \o g \o h /\ Body(b) = f \o g \o h
  BY DEF ShownAs, Prefix, Body, Next3
<1> HIDE DEF f, g, h
<1>3. f \o g \in Texts /\ Prefix \o f \in Texts
  BY <1>1, Joined
<1>4. Prefix \o ((f \o g) \o h) = (Prefix \o (f \o g)) \o h
  <2>1. Regroups(Prefix, f \o g, h)
    BY <1>1, <1>3, Regroup
  <2> QED BY <2>1 DEF Regroups
<1>5. Prefix \o (f \o g) = (Prefix \o f) \o g
  <2>1. Regroups(Prefix, f, g)
    BY <1>1, <1>3, Regroup
  <2> QED BY <2>1 DEF Regroups
<1> QED BY <1>2, <1>4, <1>5

(* A shown id is read back.                                                  *)
LEMMA ReadBackShown ==
  ASSUME NEW b \in Raws
  PROVE  ReadBack(ShownAs(b)) = Slice(b, 0, FIELD_LENGTH) /\ ShownAs(b) \in Texts
<1>1. CASE b = <<>>
  <2>1. Slice(<<>>, 0, FIELD_LENGTH) = <<>>
    BY Nothing, RawLength, Whole DEF FIELD_LENGTH
  <2> QED BY <1>1, <2>1, Nothing DEF ShownAs
<1>2. CASE b # <<>>
  BY <1>2, Shown, BodyReads, ReadBackPrefixed, Joined, Constant
<1> QED BY <1>1, <1>2

LEMMA EnteredShown ==
  ASSUME NEW b \in Raws
  PROVE  Entered(ShownAs(b)) = Slice(b, 0, FIELD_LENGTH)
<1>1. CASE b = <<>>
  <2>1. Slice(<<>>, 0, FIELD_LENGTH) = <<>>
    BY Nothing, RawLength, Whole DEF FIELD_LENGTH
  <2>2. Slice(<<>>, 3, Len(<<>>)) = <<>>
    BY Nothing, SliceType, EmptySeq DEF Raws
  <2> QED BY <1>1, <2>1, <2>2, WithoutEmpty DEF ShownAs, Entered
<1>2. CASE b # <<>>
  <2>1. Slice(ShownAs(b), 3, Len(ShownAs(b))) = Body(b)
    BY <1>2, Shown, BodyReads, CutPrefixed
  <2> QED BY <2>1, BodyReads DEF Entered, Bare
<1> QED BY <1>1, <1>2

LEMMA ShownOfSlice ==
  ASSUME NEW b \in Raws
  PROVE  ShownAs(Slice(b, 0, FIELD_LENGTH)) = ShownAs(b)
<1> DEFINE a == Slice(b, 0, 8)
<1>1. /\ Slice(a, 0, 3) = Slice(b, 0, 3) /\ Slice(a, 3, 6) = Slice(b, 3, 6)
      /\ Slice(a, 6, 8) = Slice(b, 6, 8)
  BY SliceOfSlice DEF Raws
<1>2. Len(b) \in Nat /\ Len(a) = IF 8 < Len(b) THEN 8 ELSE Len(b)
  <2>1. Len(a) = IF Len(b) <= 0 \/ 8 <= 0 THEN 0 ELSE IF 8 < Len(b) THEN 8 - 0 ELSE Len(b) - 0
    BY GroupLength
  <2>2. Len(b) \in Nat
    BY RawLength
  <2> QED BY <2>1, <2>2
<1>3. a = <<>> <=> b = <<>>
  <2>1. a \in Raws
    BY Group
  <2> HIDE DEF a
  <2>2. (a = <<>> <=> Len(a) = 0) /\ (b = <<>> <=> Len(b) = 0)
    BY <2>1, RawLength
  <2> QED BY <1>2, <2>2
<1> HIDE DEF a
<1>4. (Len(a) > 3 <=> Len(b) > 3) /\ (Len(a) > 6 <=> Len(b) > 6)
  BY <1>2
<1>5. ShownAs(a) = ShownAs(b)
  BY <1>1, <1>3, <1>4 DEF ShownAs, FIELD_LENGTH
<1> QED BY <1>5 DEF a, FIELD_LENGTH

(* The lengths of three groups with their dashes, for l characters.          *)
LEMMA ThreeGroups ==
  ASSUME NEW l \in Nat, NEW x, NEW y, NEW z,
         x = IF l <= 0 THEN 0 ELSE IF 3 < l THEN 3 ELSE l,
         y = IF l <= 3 THEN 0 ELSE IF 6 < l THEN 3 ELSE l - 3,
         z = IF l <= 6 THEN 0 ELSE IF 8 < l THEN 2 ELSE l - 6,
         NEW u, u = IF l > 3 THEN 1 + y ELSE 0,
         NEW v, v = IF l > 6 THEN 1 + z ELSE 0,
         NEW total, total = 3 + (x + u + v)
  PROVE  total \in Nat /\ total <= 13 /\ (total = 13 => l >= 8)
<1>1. CASE l <= 3
  BY <1>1
<1>2. CASE 3 < l /\ l <= 6
  BY <1>2
<1>3. CASE 6 < l
  <2>1. l > 3 /\ ~(l <= 0) /\ 3 < l /\ 6 < l /\ l > 6 /\ ~(l <= 3) /\ ~(l <= 6)
    BY <1>3
  <2> QED BY <2>1
<1> QED BY <1>1, <1>2, <1>3

LEMMA ShownLength ==
  ASSUME NEW b \in Raws
  PROVE  /\ Len(ShownAs(b)) \in Nat /\ Len(ShownAs(b)) <= 13
         /\ Len(ShownAs(b)) = 13 => Len(b) >= FIELD_LENGTH
<1>0. Len(b) \in Nat
  BY LenProperties DEF Raws
<1>1. CASE b = <<>>
  BY <1>1, EmptySeq DEF ShownAs
<1>2. CASE b # <<>>
  <2> DEFINE f == Slice(b, 0, 3)
             g == Next3(b, 3, 6)
             h == Next3(b, 6, 8)
  <2>1. f \in Texts /\ g \in Texts /\ h \in Texts /\ Body(b) = f \o g \o h
    BY Group, NextGroup DEF Body, Next3, FIELD_LENGTH
  <2>2. /\ Len(f) = IF Len(b) <= 0 THEN 0 ELSE IF 3 < Len(b) THEN 3 ELSE Len(b)
        /\ Len(Slice(b, 3, 6)) = IF Len(b) <= 3 THEN 0 ELSE IF 6 < Len(b) THEN 3 ELSE Len(b) - 3
        /\ Len(Slice(b, 6, 8)) = IF Len(b) <= 6 THEN 0 ELSE IF 8 < Len(b) THEN 2 ELSE Len(b) - 6
    <3>1. Len(f) = IF Len(b) <= 0 \/ 3 <= 0 THEN 0 ELSE IF 3 < Len(b) THEN 3 - 0 ELSE Len(b) - 0
      BY GroupLength
    <3>2. Len(Slice(b, 3, 6)) = IF Len(b) <= 3 \/ 6 <= 3 THEN 0
                                ELSE IF 6 < Len(b) THEN 6 - 3 ELSE Len(b) - 3
      BY GroupLength
    <3>3. Len(Slice(b, 6, 8)) = IF Len(b) <= 6 \/ 8 <= 6 THEN 0
                                ELSE IF 8 < Len(b) THEN 8 - 6 ELSE Len(b) - 6
      BY GroupLength
    <3> QED BY <1>0, <3>1, <3>2, <3>3
  <2>3. /\ Len(g) = IF Len(b) > 3 THEN 1 + Len(Slice(b, 3, 6)) ELSE 0
        /\ Len(h) = IF Len(b) > 6 THEN 1 + Len(Slice(b, 6, 8)) ELSE 0
    BY Group, Constant, Joined, EmptySeq DEF Next3
  <2> HIDE DEF f, g, h
  <2>4. Len(f \o g \o h) = Len(f) + Len(g) + Len(h)
    BY <2>1, Joined
  <2>5. Len(ShownAs(b)) = 3 + Len(Body(b))
    BY <1>2, Shown, BodyReads, Constant, Joined
  <2>6. Len(ShownAs(b)) = 3 + (Len(f) + Len(g) + Len(h))
    BY <2>1, <2>4, <2>5
  <2> DEFINE l == Len(b)
             x == Len(f)
             y == Len(Slice(b, 3, 6))
             z == Len(Slice(b, 6, 8))
             u == Len(g)
             v == Len(h)
             total == Len(ShownAs(b))
  <2>7. /\ l \in Nat
        /\ x = IF l <= 0 THEN 0 ELSE IF 3 < l THEN 3 ELSE l
        /\ y = IF l <= 3 THEN 0 ELSE IF 6 < l THEN 3 ELSE l - 3
        /\ z = IF l <= 6 THEN 0 ELSE IF 8 < l THEN 2 ELSE l - 6
        /\ u = IF l > 3 THEN 1 + y ELSE 0
        /\ v = IF l > 6 THEN 1 + z ELSE 0
        /\ total = 3 + (x + u + v)
    BY <1>0, <2>2, <2>3, <2>6
  <2> HIDE DEF l, x, y, z, u, v, total
  <2>8. total \in Nat /\ total <= 13 /\ (total = 13 => l >= 8)
    BY <2>7, ThreeGroups
  <2> QED BY <2>8 DEF total, l, FIELD_LENGTH
<1> QED BY <1>1, <1>2

-----------------------------------------------------------------------------
(* The edits *)

LEMMA ReadBackType ==
  ASSUME NEW t \in Texts
  PROVE  CutPrefix(t) \in Texts /\ ReadBack(t) \in Raws
<1>1. ASSUME NEW a \in Texts PROVE CutPrefix(a) \in Texts
  <2> DEFINE rest == Slice(a, 2, Len(a))
  <2>1. Len(a) \in Nat
    BY LenProperties DEF Texts
  <2>2. rest \in Texts
    BY <2>1, SliceType DEF Texts
  <2>3. Len(rest) \in Nat
    BY <2>2, LenProperties DEF Texts
  <2> HIDE DEF rest
  <2>4. Slice(rest, 1, Len(rest)) \in Texts
    BY <2>2, <2>3, SliceType DEF Texts
  <2> QED BY <2>2, <2>4 DEF CutPrefix, rest
<1>2. Without(t, Unfit) \in Seq(Chars \ Unfit)
  BY WithoutType DEF Texts
<1> DEFINE a == Without(t, Unfit)
<1>3. CutPrefix(a) \in Seq(Chars \ Unfit)
  <2> HIDE DEF a
  <2> DEFINE S == Chars \ Unfit
             rest == Slice(a, 2, Len(a))
  <2>0. a \in Seq(S)
    BY <1>2 DEF a
  <2> HIDE DEF S
  <2>1. Len(a) \in Nat
    BY <2>0, LenProperties
  <2>2. rest \in Seq(S)
    BY <2>0, <2>1, SliceType
  <2>3. Len(rest) \in Nat
    BY <2>2, LenProperties
  <2> HIDE DEF rest
  <2>4. Slice(rest, 1, Len(rest)) \in Seq(S)
    BY <2>2, <2>3, SliceType
  <2> QED BY <2>0, <2>2, <2>4 DEF CutPrefix, rest, S
<1>4. ReadBack(t) \in Seq((Chars \ Unfit) \ {"-"})
  BY <1>3, WithoutType DEF ReadBack
<1>5. (Chars \ Unfit) \ {"-"} \subseteq FieldChars
  BY DEF Chars, Unfit
<1> QED BY <1>1, <1>4, <1>5, SeqMonotonic DEF Raws

LEMMA One == ASSUME NEW c \in Chars PROVE <<c>> \in Texts /\ Len(<<c>>) = 1
  BY DEF Texts

LEMMA TypeReads ==
  ASSUME NEW c \in Chars, NEW b \in Raws
  PROVE  ReadBack(Append(ShownAs(b), c)) = Slice(b, 0, FIELD_LENGTH) \o Bare(<<c>>)
<1>0. <<c>> \in Texts /\ Len(<<c>>) = 1
  BY One
<1>1. CASE b = <<>>
  <2>1. Append(ShownAs(b), c) = <<c>>
    BY <1>1 DEF ShownAs
  <2>2. ReadBack(<<c>>) = Bare(<<c>>)
    <3> DEFINE a == Without(<<c>>, Unfit)
    <3>1. a = <<c>> \/ a = <<>>
      BY WithoutOne
    <3>2. Len(a) < 2
      <4>1. Len(<<>>) = 0
        BY EmptySeq
      <4>2. Len(a) = 0 \/ Len(a) = 1
        BY <1>0, <3>1, <4>1, Zenon
      <4> QED BY <4>2
    <3>3. ~IsPrefix(DL, a)
      BY <3>2, Constant DEF IsPrefix
    <3> QED BY <3>3 DEF ReadBack, CutPrefix, Bare
  <2>3. Slice(<<>>, 0, FIELD_LENGTH) = <<>> /\ Bare(<<c>>) \in Raws
    BY <1>0, BareType, Nothing, RawLength, Whole DEF FIELD_LENGTH
  <2>4. <<>> \o Bare(<<c>>) = Bare(<<c>>)
    BY <2>3, ConcatEmptySeq DEF Raws
  <2> QED BY <1>1, <2>1, <2>2, <2>3, <2>4
<1>2. CASE b # <<>>
  <2>1. ShownAs(b) = Prefix \o Body(b) /\ Prefix \in Texts /\ Body(b) \in Texts
    BY <1>2, Shown, Constant, BodyReads
  <2>2. Prefix \o Body(b) \in Texts
    BY <2>1, Joined
  <2>3. Append(Prefix \o Body(b), c) = (Prefix \o Body(b)) \o <<c>>
    BY <2>2, AppendIsConcat DEF Texts
  <2>4. (Prefix \o Body(b)) \o <<c>> = Prefix \o (Body(b) \o <<c>>)
    <3>1. Regroups(Prefix, Body(b), <<c>>)
      BY <1>0, <2>1, Regroup
    <3> QED BY <3>1 DEF Regroups
  <2>5. Body(b) \o <<c>> \in Texts
    BY <1>0, <2>1, Joined
  <2>6. ReadBack(Prefix \o (Body(b) \o <<c>>)) = Bare(Body(b) \o <<c>>)
    BY <2>5, ReadBackPrefixed
  <2>7. Bare(Body(b) \o <<c>>) = Bare(Body(b)) \o Bare(<<c>>)
    BY <1>0, <2>1, BareConcat
  <2> QED BY <2>1, <2>3, <2>4, <2>6, <2>7, BodyReads
<1> QED BY <1>1, <1>2

(* A full field takes no more.                                               *)
LEMMA NoMore ==
  ASSUME NEW b \in Raws, Len(b) = FIELD_LENGTH, NEW t \in Raws
  PROVE  ShownAs(b \o t) = ShownAs(b)
<1>1. b \o t \in Raws /\ Len(b \o t) = 8 + Len(t) /\ Len(t) \in Nat
  <2>1. b \o t \in Raws /\ Len(b \o t) = Len(b) + Len(t)
    BY ConcatProperties DEF Raws
  <2> QED BY <2>1, LenProperties DEF Raws, FIELD_LENGTH
<1>2. SubSeq(b \o t, 1, 8) = b
  <2>1. IsPrefix(b, b \o t)
    BY Drop DEF Raws, FIELD_LENGTH
  <2>2. SubSeq(b, 1, Len(b)) = b
    BY SubSeqFull DEF Raws
  <2> QED BY <2>1, <2>2 DEF IsPrefix, FIELD_LENGTH
<1>3. (IF 8 < Len(b \o t) THEN 8 ELSE Len(b \o t)) = 8
  BY <1>1
<1>4. Slice(b \o t, 0, FIELD_LENGTH) = b
  BY <1>2, <1>3 DEF Slice, FIELD_LENGTH
<1> QED BY <1>1, <1>4, ShownOfSlice

LEMMA EndsWith ==
  ASSUME NEW a \in Texts, NEW g \in Raws, g # <<>>
  PROVE  \E u \in Texts, c \in FieldChars : a \o g = Append(u, c)
<1>1. PICK f \in Raws, c \in FieldChars : g = Append(f, c)
  BY SequenceEmptyOrAppend DEF Raws
<1>2. f \in Texts /\ c \in Chars
  BY <1>1, RawsAreTexts DEF Chars
<1>3. a \o Append(f, c) = Append(a \o f, c)
  <2>1. <<c>> \in Texts /\ a \o f \in Texts
    BY <1>2, One, Joined
  <2>2. Append(f, c) = f \o <<c>> /\ Append(a \o f, c) = (a \o f) \o <<c>>
    BY <1>2, <2>1, AppendIsConcat DEF Texts
  <2>3. a \o (f \o <<c>>) = (a \o f) \o <<c>>
    <3>1. Regroups(a, f, <<c>>)
      BY <1>2, <2>1, Regroup
    <3> QED BY <3>1 DEF Regroups
  <2> QED BY <2>2, <2>3
<1> QED BY <1>1, <1>2, <1>3, Joined

LEMMA LastGroup ==
  ASSUME NEW b \in Raws, b # <<>>, Len(b) <= FIELD_LENGTH
  PROVE  \E u \in Texts, c \in FieldChars : Body(b) = Append(u, c)
<1> DEFINE f == Slice(b, 0, 3)
           g == Slice(b, 3, 6)
           h == Slice(b, 6, 8)
           n == Len(b)
<1>1. /\ f \in Raws /\ g \in Raws /\ h \in Raws
      /\ f \in Texts /\ g \in Texts /\ h \in Texts
  BY Group
<1>2. n \in Nat /\ n # 0
  BY RawLength
<1>3. Body(b) = f \o (IF n > 3 THEN Dash \o g ELSE <<>>) \o (IF n > 6 THEN Dash \o h ELSE <<>>)
  BY DEF Body, FIELD_LENGTH
<1>4. Len(f) = IF n <= 0 \/ 3 <= 0 THEN 0 ELSE IF 3 < n THEN 3 - 0 ELSE n - 0
  BY GroupLength
<1>5. Len(g) = IF n <= 3 \/ 6 <= 3 THEN 0 ELSE IF 6 < n THEN 6 - 3 ELSE n - 3
  BY GroupLength
<1>6. Len(h) = IF n <= 6 \/ 8 <= 6 THEN 0 ELSE IF 8 < n THEN 8 - 6 ELSE n - 6
  BY GroupLength
<1>7. (f = <<>> => Len(f) = 0) /\ (g = <<>> => Len(g) = 0) /\ (h = <<>> => Len(h) = 0)
  BY EmptySeq
<1>8. f # <<>> /\ (n > 3 => g # <<>>) /\ (n > 6 => h # <<>>)
  <2> HIDE DEF f, g, h, n
  <2> QED BY <1>2, <1>4, <1>5, <1>6, <1>7
<1> HIDE DEF f, g, h, n
<1>9. \A t \in Texts : t \o <<>> = t /\ <<>> \o t = t
  BY ConcatEmptySeq DEF Texts
<1>10. Dash \in Texts /\ <<>> \in Texts
  BY Constant, Nothing
<1>11. CASE n <= 3
  <2>1. ~(n > 3) /\ ~(n > 6)
    BY <1>2, <1>11
  <2>2. f \o <<>> = f /\ <<>> \o f = f
    BY <1>1, <1>9
  <2>3. Body(b) = <<>> \o f
    BY <1>3, <2>1, <2>2
  <2>4. \E u \in Texts, c \in FieldChars : <<>> \o f = Append(u, c)
    BY <1>1, <1>8, <1>10, EndsWith
  <2> QED BY <2>3, <2>4
<1>12. CASE 3 < n /\ n <= 6
  <2>1. f \o (Dash \o g) \in Texts /\ f \o Dash \in Texts
    BY <1>1, <1>10, Joined
  <2>2. Body(b) = f \o (Dash \o g)
    <3>1. n > 3 /\ ~(n > 6)
      BY <1>2, <1>12
    <3>2. Body(b) = f \o (Dash \o g) \o <<>>
      BY <1>3, <3>1
    <3> QED BY <1>9, <2>1, <3>2
  <2>3. f \o (Dash \o g) = (f \o Dash) \o g
    <3>1. Regroups(f, Dash, g)
      BY <1>1, <1>10, Regroup
    <3> QED BY <3>1 DEF Regroups
  <2>4. g # <<>>
    BY <1>2, <1>8, <1>12
  <2>5. \E u \in Texts, c \in FieldChars : (f \o Dash) \o g = Append(u, c)
    BY <1>1, <2>1, <2>4, EndsWith
  <2> QED BY <2>2, <2>3, <2>5
<1>13. CASE 6 < n
  <2> DEFINE a == f \o (Dash \o g)
  <2>1. Dash \o g \in Texts
    BY <1>1, <1>10, Joined
  <2>2. a \in Texts
    BY <1>1, <2>1, Joined
  <2>3. Body(b) = a \o (Dash \o h) /\ h # <<>>
    <3>1. n > 3 /\ n > 6
      BY <1>2, <1>13
    <3> QED BY <1>3, <1>8, <3>1
  <2> HIDE DEF a
  <2>4. a \o (Dash \o h) = (a \o Dash) \o h
    <3>1. Regroups(a, Dash, h)
      BY <1>1, <1>10, <2>2, Regroup
    <3> QED BY <3>1 DEF Regroups
  <2>5. a \o Dash \in Texts
    BY <1>10, <2>2, Joined
  <2>6. \E u \in Texts, c \in FieldChars : (a \o Dash) \o h = Append(u, c)
    BY <1>1, <2>3, <2>5, EndsWith
  <2> QED BY <2>3, <2>4, <2>6
<1> QED BY <1>2, <1>11, <1>12, <1>13

LEMMA FrontOfAppend ==
  ASSUME NEW S, NEW u \in Seq(S), NEW c \in S
  PROVE  Front(Append(u, c)) = u
<1>1. Len(Append(u, c)) - 1 = Len(u)
  BY AppendProperties, LenProperties
<1>2. SubSeq(Append(u, c), 1, Len(u)) = u
  <2>1. <<c>> \in Seq(S) /\ Len(u) \in Nat
    BY LenProperties
  <2>2. Append(u, c) = u \o <<c>>
    BY AppendIsConcat
  <2>3. IsPrefix(u, u \o <<c>>)
    BY <2>1, Drop
  <2> QED BY <2>2, <2>3, SubSeqFull DEF IsPrefix
<1> QED BY <1>1, <1>2 DEF Front

LEMMA BackspaceReads ==
  ASSUME NEW b \in Raws, b # <<>>, Len(b) <= FIELD_LENGTH
  PROVE  /\ ReadBack(Front(ShownAs(b))) = Front(b)
         /\ Front(b) \in Raws /\ Len(Front(b)) <= FIELD_LENGTH
<1>1. PICK u \in Texts, c \in FieldChars : Body(b) = Append(u, c)
  BY LastGroup
<1>2. PICK f \in Raws, d \in FieldChars : b = Append(f, d)
  BY SequenceEmptyOrAppend DEF Raws
<1>3. Front(b) = f
  BY <1>2, FrontOfAppend DEF Raws
<1>4. c \in Chars /\ <<c>> \in Texts /\ Bare(<<c>>) = <<c>> /\ Prefix \in Texts
  <2>1. c \in Chars
    BY DEF Chars
  <2> QED BY <2>1, One, BareOne, Constant
<1>5. Append(u, c) = u \o <<c>>
  BY <1>4, AppendIsConcat DEF Texts
<1>6. Bare(u) = f
  <2>1. Bare(Body(b)) = b
    BY BodyReads, Whole
  <2>2. Bare(u \o <<c>>) = Bare(u) \o <<c>> /\ Bare(u) \in Raws
    BY <1>4, BareConcat, BareType
  <2>3. Bare(u) \o <<c>> = Append(Bare(u), c)
    BY <2>2, AppendIsConcat DEF Raws
  <2>4. Append(Bare(u), c) = Append(f, d)
    BY <1>1, <1>2, <1>5, <2>1, <2>2, <2>3
  <2> QED BY <2>2, <2>4, AppendInjective DEF Raws
<1>7. Front(ShownAs(b)) = Prefix \o u
  <2>1. Prefix \o u \in Texts
    BY <1>4, Joined
  <2>2. Prefix \o (u \o <<c>>) = (Prefix \o u) \o <<c>>
    <3>1. Regroups(Prefix, u, <<c>>)
      BY <1>4, Regroup
    <3> QED BY <3>1 DEF Regroups
  <2>3. (Prefix \o u) \o <<c>> = Append(Prefix \o u, c)
    BY <1>4, <2>1, AppendIsConcat DEF Texts
  <2>4. ShownAs(b) = Append(Prefix \o u, c)
    BY <1>1, <1>5, <2>2, <2>3, Shown
  <2> QED BY <1>4, <2>1, <2>4, FrontOfAppend DEF Texts
<1>8. Len(f) \in Nat /\ Len(b) = Len(f) + 1
  BY <1>2, AppendProperties, LenProperties DEF Raws
<1> QED BY <1>3, <1>6, <1>7, <1>8, ReadBackPrefixed DEF FIELD_LENGTH

-----------------------------------------------------------------------------
(* The spellings of an id *)

LEMMA Take ==
  ASSUME NEW S, NEW a \in Seq(S), NEW t \in Seq(S), NEW i \in Nat, Len(a) = i
  PROVE  Slice(a \o t, 0, i) = a
<1>1. Len(a \o t) = i + Len(t) /\ Len(t) \in Nat
  BY ConcatProperties, LenProperties
<1>2. (IF i < Len(a \o t) THEN i ELSE Len(a \o t)) = i
  BY <1>1
<1>3. SubSeq(a \o t, 1, i) = a
  <2>1. IsPrefix(a, a \o t)
    BY Drop
  <2> QED BY <2>1, SubSeqFull DEF IsPrefix
<1> QED BY <1>2, <1>3 DEF Slice

LEMMA Middle ==
  ASSUME NEW S, NEW a \in Seq(S), NEW m \in Seq(S), NEW z \in Seq(S),
         NEW i \in Nat, NEW j \in Nat, Len(a) = i, Len(a) + Len(m) = j
  PROVE  Slice((a \o m) \o z, i, j) = m
<1> DEFINE u == a \o m
<1>1. u \in Seq(S) /\ Len(u) = j
  BY ConcatProperties
<1>2. Slice(u, i, Len(u)) = m
  BY Drop
<1> HIDE DEF u
<1>3. Slice(u \o z, 0, j) = u
  BY <1>1, Take
<1>4. u \o z \in Seq(S)
  BY <1>1, ConcatProperties
<1>5. Slice(Slice(u \o z, 0, j), i, j) = Slice(u \o z, i, j)
  <2>1. j <= j
    OBVIOUS
  <2> DEFINE t == u \o z
  <2>2. t \in Seq(S)
    BY <1>4
  <2> HIDE DEF t
  <2>3. Slice(Slice(t, 0, j), i, j) = Slice(t, i, j)
    BY <2>1, <2>2, SliceOfSlice
  <2> QED BY <2>3 DEF t
<1> QED BY <1>1, <1>2, <1>3, <1>5 DEF u

Ids == [1..DEVICE_ID_LENGTH -> Charset]

LEMMA IdGroups ==
  ASSUME NEW raw \in [1..DEVICE_ID_LENGTH -> FieldChars]
  PROVE  /\ raw \in Raws /\ Len(raw) = 9
         /\ Slice(raw, 0, 3) \in Raws /\ Slice(raw, 3, 6) \in Raws /\ Slice(raw, 6, 9) \in Raws
         /\ Len(Slice(raw, 0, 3)) = 3 /\ Len(Slice(raw, 3, 6)) = 3 /\ Len(Slice(raw, 6, 9)) = 3
         /\ \A n \in 1..3 : Slice(raw, 0, 3)[n] = raw[n]
         /\ (Slice(raw, 0, 3) \o Slice(raw, 3, 6)) \o Slice(raw, 6, 9) = raw
<1>1. raw \in Raws /\ Len(raw) = 9
  <2>1. raw \in [1..9 -> FieldChars] /\ 9 \in Nat
    BY DEF DEVICE_ID_LENGTH
  <2>2. raw \in Seq(FieldChars)
    BY <2>1, SeqDef
  <2>3. DOMAIN raw = 1..Len(raw) /\ Len(raw) \in Nat /\ DOMAIN raw = 1..9
    BY <2>1, <2>2, LenProperties
  <2>4. \A l \in Nat : 1..l = 1..9 => l = 9
    <3> SUFFICES ASSUME NEW l \in Nat, 1..l = 1..9 PROVE l = 9
      OBVIOUS
    <3>0. 9 \in 1..9
      OBVIOUS
    <3>1. 9 \in 1..l
      BY <3>0, Zenon
    <3>2. l \in 1..l
      BY <3>1
    <3>3. l \in 1..9
      BY <3>2, Zenon
    <3> QED BY <3>1, <3>3
  <2> QED BY <2>2, <2>3, <2>4 DEF Raws
<1>2. Slice(raw, 0, 3) \in Raws /\ Slice(raw, 3, 6) \in Raws /\ Slice(raw, 6, 9) \in Raws
  BY <1>1, Group
<1>3. Len(Slice(raw, 0, 3)) = IF Len(raw) <= 0 \/ 3 <= 0 THEN 0 ELSE IF 3 < Len(raw) THEN 3 - 0 ELSE Len(raw) - 0
  BY <1>1, GroupLength
<1>4. Len(Slice(raw, 3, 6)) = IF Len(raw) <= 3 \/ 6 <= 3 THEN 0 ELSE IF 6 < Len(raw) THEN 6 - 3 ELSE Len(raw) - 3
  BY <1>1, GroupLength
<1>5. Len(Slice(raw, 6, 9)) = IF Len(raw) <= 6 \/ 9 <= 6 THEN 0 ELSE IF 9 < Len(raw) THEN 9 - 6 ELSE Len(raw) - 6
  BY <1>1, GroupLength
<1>6. Len(Slice(raw, 0, 3)) = 3 /\ Len(Slice(raw, 3, 6)) = 3 /\ Len(Slice(raw, 6, 9)) = 3
  BY <1>1, <1>3, <1>4, <1>5
<1>7. \A n \in 1..3 : Slice(raw, 0, 3)[n] = raw[n]
  <2>1. \A n \in 1..Len(Slice(raw, 0, 3)) : Slice(raw, 0, 3)[n] = raw[0 + n]
    <3>1. raw \in Seq(FieldChars) /\ 0 \in Nat /\ 3 \in Nat
      BY <1>1 DEF Raws
    <3> QED BY <3>1, SliceType
  <2>2. \A n \in 1..3 : 0 + n = n
    OBVIOUS
  <2> QED BY <1>6, <2>1, <2>2
<1>8. (Slice(raw, 0, 3) \o Slice(raw, 3, 6)) \o Slice(raw, 6, 9) = raw
  <2>1. Slice(raw, 0, 3) \o Slice(raw, 3, 6) = Slice(raw, 0, 6)
    BY <1>1, SliceJoin DEF Raws
  <2>2. Slice(raw, 0, 6) \o Slice(raw, 6, 9) = Slice(raw, 0, 9)
    BY <1>1, SliceJoin DEF Raws
  <2>3. Slice(raw, 0, 9) = raw
    <3>1. raw \in Seq(FieldChars) /\ Len(raw) <= 9 /\ 9 \in Nat
      BY <1>1 DEF Raws
    <3> QED BY <3>1, SliceWhole
  <2> QED BY <2>1, <2>2, <2>3
<1> QED BY <1>1, <1>2, <1>6, <1>7, <1>8

Separators == {" ", "-"}

(* In a text of the charset and separators nothing else is to be removed.    *)
LEMMA CleanIsBare ==
  \A t \in Seq(FieldChars \cup Separators) : Without(t, Separators) = Bare(t)
<1> DEFINE S == FieldChars \cup Separators
           T == {t \in Seq(S) : Without(t, Separators) = Bare(t)}
<1>1. <<>> \in T
  BY WithoutEmpty, EmptySeq, Nothing
<1>2. ASSUME NEW s \in Seq(S), NEW c \in S, s \in T PROVE Append(s, c) \in T
  <2>1. Append(s, c) \in Seq(S)
    BY AppendProperties
  <2>2. Without(Append(s, c), Separators) =
          IF c \in Separators THEN Without(s, Separators) ELSE Append(Without(s, Separators), c)
    BY WithoutAppend
  <2>3. S \subseteq Chars
    BY DEF Chars, Separators
  <2>4. s \in Texts /\ c \in Chars /\ <<c>> \in Texts
    BY <2>3, One, SeqMonotonic DEF Texts
  <2>5. Append(s, c) = s \o <<c>>
    BY <2>4, AppendIsConcat DEF Texts
  <2>6. Bare(s \o <<c>>) = Bare(s) \o Bare(<<c>>) /\ Bare(s) \in Raws
    BY <2>4, BareConcat, BareType
  <2>7. Bare(<<c>>) = (IF c \in FieldChars THEN <<c>> ELSE <<>>) /\ (c \in FieldChars <=> c \notin Separators)
    BY <2>4, BareOne, DeviceIdAssumption DEF Separators
  <2>8. Bare(s) \o <<>> = Bare(s) /\ (c \in FieldChars => Bare(s) \o <<c>> = Append(Bare(s), c))
    BY <2>6, ConcatEmptySeq, AppendIsConcat DEF Raws
  <2> QED BY <1>2, <2>1, <2>2, <2>5, <2>6, <2>7, <2>8
<1> HIDE DEF T
<1>3. Seq(S) \subseteq T
  BY <1>1, <1>2, TextInduction
<1> QED BY <1>3 DEF T

(* A text that begins with a group of an id has no prefix; with DL before it *)
(* that is what is cut.                                                      *)
LEMMA NoFalsePrefix ==
  ASSUME NEW f \in Raws, Len(f) = 3, f[2] # "L", NEW x \in Texts
  PROVE  /\ f \o x \in Texts
         /\ ~IsPrefix(DL, f \o x)
         /\ CutPrefix(f \o x) = f \o x
         /\ CutPrefix(DL \o (f \o x)) = f \o x
<1> DEFINE w == f \o x
<1>1. f \in Texts /\ f[1] \in FieldChars
  <2>1. f \in Seq(FieldChars) /\ 1 \in 1..Len(f)
    BY DEF Raws
  <2>2. f[1] \in FieldChars
    BY <2>1, ElementOfSeq
  <2> QED BY <2>2, RawsAreTexts
<1>2. w \in Texts /\ Len(w) = 3 + Len(x) /\ Len(x) \in Nat
  BY <1>1, Joined
<1>3. w[1] = f[1] /\ w[2] = f[2]
  <2>1. \A i \in 1..Len(f) + Len(x) : w[i] = IF i <= Len(f) THEN f[i] ELSE x[i - Len(f)]
    BY <1>1, ConcatProperties DEF Texts
  <2>2. 1 \in 1..Len(f) + Len(x) /\ 2 \in 1..Len(f) + Len(x)
    BY <1>2
  <2>3. 1 <= Len(f) /\ 2 <= Len(f)
    OBVIOUS
  <2> HIDE DEF w
  <2> QED BY <2>1, <2>2, <2>3
<1> HIDE DEF w
<1>4. ASSUME NEW n \in 1..2 PROVE SubSeq(w, 1, n)[n] = w[n]
  <2>1. \A i \in 1..n : w[i] \in Chars
    BY <1>2, ElementOfSeq DEF Texts
  <2>2. \A i \in 1..(n - 1) + 1 : SubSeq(w, 1, n)[i] = w[(1 + i) - 1]
    BY <2>1, SubSeqProperties
  <2> QED BY <2>2
<1>5. ~IsPrefix(DL, w)
  <2>1. SubSeq(DL, 1, 2) = DL
    BY Constant, SubSeqFull DEF Raws
  <2> QED BY <1>3, <1>4, <2>1, Constant DEF IsPrefix
<1>6. ~IsPrefix(Dash, w)
  <2>1. SubSeq(Dash, 1, 1) = Dash
    BY Constant, SubSeqFull DEF Texts
  <2>2. "-" \notin FieldChars
    BY DeviceIdAssumption
  <2> QED BY <1>1, <1>3, <1>4, <2>1, <2>2, Constant DEF IsPrefix
<1>7. CutPrefix(DL \o w) = w
  <2>1. IsPrefix(DL, DL \o w) /\ Slice(DL \o w, 2, Len(DL \o w)) = w
    BY <1>2, Constant, RawsAreTexts, TextDrop
  <2> QED BY <1>6, <2>1 DEF CutPrefix
<1> QED BY <1>2, <1>5, <1>7 DEF CutPrefix, w

LEMMA Single == ASSUME NEW S, NEW c \in S PROVE <<c>> \in Seq(S)
  OBVIOUS

LEMMA MiddleText ==
  ASSUME NEW a \in Texts, NEW m \in Texts, NEW z \in Texts
  PROVE  Slice((a \o m) \o z, Len(a), Len(a) + Len(m)) = m
<1>1. Len(a) \in Nat /\ Len(a) + Len(m) \in Nat
  BY LenProperties DEF Texts
<1> QED BY <1>1, Middle DEF Texts

(* A formatted id is valid.                                                  *)
LEMMA FormatIsValid ==
  ASSUME NEW raw \in [1..DEVICE_ID_LENGTH -> FieldChars]
  PROVE  IsValidDeviceId(FormatId(raw))
<1> DEFINE f == Slice(raw, 0, 3)
           g == Slice(raw, 3, 6)
           h == Slice(raw, 6, 9)
           u == Dash \o g
           v == Dash \o h
           F == FormatId(raw)
<1>1. F = Prefix \o ((f \o u) \o v)
  BY DEF FormatId, Grouped, Prefix, DEVICE_ID_LENGTH
<1>2. /\ f \in Texts /\ g \in Texts /\ h \in Texts
      /\ Len(f) = 3 /\ Len(g) = 3 /\ (f \o g) \o h = raw
  BY IdGroups, RawsAreTexts
<1>3. Dash \in Texts /\ Len(Dash) = 1 /\ Prefix \in Texts /\ Len(Prefix) = 3
  BY Constant
<1> HIDE DEF f, g, h
<1>4. u \in Texts /\ v \in Texts /\ Len(u) = 4
  <2>1. Len(Dash \o g) = Len(Dash) + Len(g)
    BY <1>2, <1>3, Joined
  <2> QED BY <1>2, <1>3, <2>1, Joined
<1> HIDE DEF u, v, F
<1> DEFINE X == Prefix \o f
<1>5. X \in Texts /\ Len(X) = 6
  <2>1. Len(Prefix \o f) = Len(Prefix) + Len(f)
    BY <1>2, <1>3, Joined
  <2> QED BY <1>2, <1>3, <2>1, Joined
<1>6. F = X \o (u \o v)
  <2>1. u \o v \in Texts /\ (f \o u) \o v = f \o (u \o v)
    <3>1. u \o v \in Texts
      BY <1>4, Joined
    <3>2. Regroups(f, u, v)
      BY <1>2, <1>4, Regroup
    <3> QED BY <3>1, <3>2 DEF Regroups
  <2>2. Prefix \o (f \o (u \o v)) = (Prefix \o f) \o (u \o v)
    <3>1. Regroups(Prefix, f, u \o v)
      BY <1>2, <1>3, <2>1, Regroup
    <3> QED BY <3>1 DEF Regroups
  <2> QED BY <1>1, <2>1, <2>2
<1> DEFINE Y == X \o Dash
           Z == X \o u
<1>7. Y \in Texts /\ Len(Y) = 7 /\ Z = Y \o g
  <2> HIDE DEF X
  <2>1. Len(X \o Dash) = Len(X) + Len(Dash)
    BY <1>3, <1>5, Joined
  <2>2. X \o (Dash \o g) = (X \o Dash) \o g
    <3>1. Regroups(X, Dash, g)
      BY <1>2, <1>3, <1>5, Regroup
    <3> QED BY <3>1 DEF Regroups
  <2> QED BY <1>3, <1>5, <2>1, <2>2, Joined DEF u
<1>8. Z \in Texts /\ Len(Z) = 10 /\ F = Z \o v
  <2> HIDE DEF X
  <2>1. Len(X \o u) = Len(X) + Len(u)
    BY <1>4, <1>5, Joined
  <2>2. X \o (u \o v) = (X \o u) \o v
    <3>1. Regroups(X, u, v)
      BY <1>4, <1>5, Regroup
    <3> QED BY <3>1 DEF Regroups
  <2> QED BY <1>4, <1>5, <1>6, <2>1, <2>2, Joined
<1> HIDE DEF Y, Z
<1> DEFINE V == Z \o Dash
<1>9. V \in Texts /\ Len(V) = 11 /\ F = V \o h
  <2>1. Len(Z \o Dash) = Len(Z) + Len(Dash)
    BY <1>3, <1>8, Joined
  <2>2. Z \o (Dash \o h) = (Z \o Dash) \o h
    <3>1. Regroups(Z, Dash, h)
      BY <1>2, <1>3, <1>8, Regroup
    <3> QED BY <3>1 DEF Regroups
  <2> QED BY <1>3, <1>8, <2>1, <2>2, Joined DEF v
<1> HIDE DEF V
<1>10. Slice(F, 11, Len(F)) = h
  BY <1>2, <1>9, TextDrop
<1>11. Slice(F, 7, 10) = g
  <2>1. Slice((Y \o g) \o v, Len(Y), Len(Y) + Len(g)) = g
    BY <1>2, <1>4, <1>7, MiddleText
  <2>2. Len(Y) = 7 /\ Len(Y) + Len(g) = 10
    BY <1>2, <1>7
  <2> QED BY <1>7, <1>8, <2>1, <2>2
<1>12. Slice(F, 3, 6) = f
  <2> HIDE DEF X
  <2>1. u \o v \in Texts
    BY <1>4, Joined
  <2>2. Slice((Prefix \o f) \o (u \o v), Len(Prefix), Len(Prefix) + Len(f)) = f
    BY <1>2, <1>3, <2>1, MiddleText
  <2>3. Len(Prefix) = 3 /\ Len(Prefix) + Len(f) = 6
    BY <1>2, <1>3
  <2> QED BY <1>6, <2>2, <2>3 DEF X
<1>13. ToSet(raw) \subseteq FieldChars /\ Len(raw) = 9
  <2>1. Len(raw) = 9 /\ raw \in Seq(FieldChars)
    BY IdGroups DEF Raws
  <2>2. \A i \in DOMAIN raw : raw[i] \in FieldChars
    OBVIOUS
  <2> QED BY <2>1, <2>2 DEF ToSet
<1>14. Slice(F, 3, 6) \o Slice(F, 7, 10) \o Slice(F, 11, Len(F)) = raw
  BY <1>2, <1>10, <1>11, <1>12
<1> QED BY <1>13, <1>14 DEF IsValidDeviceId, DEVICE_ID_LENGTH, F

LEMMA Separator ==
  ASSUME NEW s \in Joints
  PROVE  /\ s \in Texts /\ s \in Seq(FieldChars \cup Separators)
         /\ Bare(s) = <<>>
<1>1. <<>> \in Seq(FieldChars \cup Separators)
  BY EmptySeq
<1>2. Dash \in Seq(FieldChars \cup Separators) /\ <<" ">> \in Seq(FieldChars \cup Separators)
  <2> DEFINE S == FieldChars \cup Separators
  <2>1. "-" \in S /\ " " \in S
    BY DEF Separators
  <2> HIDE DEF S
  <2>2. <<"-">> \in Seq(S) /\ <<" ">> \in Seq(S)
    BY <2>1, Single
  <2> QED BY <2>2 DEF S, Dash
<1>3. " " \in Chars /\ " " \notin FieldChars
  BY DeviceIdAssumption DEF Chars
<1>4. <<" ">> \in Texts /\ Bare(<<" ">>) = <<>>
  BY <1>3, One, BareOne
<1> QED BY <1>1, <1>2, <1>4, Nothing, BareDash, Constant DEF Joints

(* What the two readers take from a prefix.                                  *)
LEMMA Prefixed ==
  ASSUME NEW p \in Starts
  PROVE  /\ p \in Texts /\ p \in Seq(FieldChars \cup Separators)
         /\ Without(p, Unfit) \in {<<>>, DL, Prefix}
         /\ Bare(p) \in {<<>>, DL}
<1> DEFINE S == FieldChars \cup Separators
<1>1. DL \in Texts /\ DL \in Seq(S) /\ Dash \in Texts /\ Dash \in Seq(S)
  <2>1. DL \in Seq(S)
    BY Constant, SeqMonotonic DEF Raws
  <2> QED BY <2>1, Constant, RawsAreTexts, Separator DEF Joints
<1>2. <<" ">> \in Texts /\ <<" ">> \in Seq(S) /\ Bare(<<" ">>) = <<>>
  BY Separator DEF Joints
<1>3. Without(DL, Unfit) = DL /\ Bare(DL) = DL /\ DL \o <<>> = DL
  BY <1>1, Constant, BareOfRaw, ConcatEmptySeq
<1>4. CASE p = <<>>
  BY <1>4, Nothing, EmptySeq
<1>5. CASE p = DL
  BY <1>1, <1>3, <1>5
<1>6. CASE p = DL \o Dash
  <2>1. p \in Texts /\ p \in Seq(S)
    BY <1>1, <1>6, ConcatProperties DEF Texts
  <2>2. Bare(DL \o Dash) = Bare(DL) \o Bare(Dash)
    BY <1>1, BareConcat
  <2>3. Without(p, Unfit) = Prefix
    BY <1>6, PrefixStays DEF Prefix
  <2> QED BY <1>3, <1>6, <2>1, <2>2, <2>3, BareDash
<1>7. CASE p = DL \o <<" ">>
  <2>1. p \in Texts /\ p \in Seq(S)
    BY <1>1, <1>2, <1>7, ConcatProperties DEF Texts
  <2>2. /\ Bare(DL \o <<" ">>) = Bare(DL) \o Bare(<<" ">>)
        /\ Without(DL \o <<" ">>, Unfit) = Without(DL, Unfit) \o Without(<<" ">>, Unfit)
    BY <1>1, <1>2, BareConcat
  <2>3. Without(<<" ">>, Unfit) = <<>>
    <3>1. " " \in Unfit
      BY DEF Unfit
    <3> QED BY <3>1, WithoutOne
  <2> QED BY <1>2, <1>3, <1>7, <2>1, <2>2, <2>3
<1> QED BY <1>4, <1>5, <1>6, <1>7 DEF Starts

LEMMA SecondIsNotL == ASSUME NEW raw \in Ids PROVE Slice(raw, 0, 3)[2] # "L"
<1>1. Slice(raw, 0, 3)[2] = raw[2]
  <2>1. raw \in [1..DEVICE_ID_LENGTH -> FieldChars]
    BY DeviceIdAssumption DEF Ids
  <2>2. \A n \in 1..3 : Slice(raw, 0, 3)[n] = raw[n]
    BY <2>1, IdGroups
  <2>3. 2 \in 1..3
    OBVIOUS
  <2> QED BY <2>2, <2>3
<1>2. raw[2] \in Charset
  <2>1. 2 \in 1..9
    OBVIOUS
  <2> QED BY <2>1 DEF Ids, DEVICE_ID_LENGTH
<1>3. "L" \notin Charset
  BY DeviceIdAssumption
<1> QED BY <1>1, <1>2, <1>3

(* What the readers take from the groups of an id, however they are joined.  *)
LEMMA GroupedReads ==
  ASSUME NEW raw \in Ids, NEW s \in Joints, NEW t \in Joints
  PROVE  /\ Grouped(raw, s, t) \in Texts
         /\ Grouped(raw, s, t) \in Seq(FieldChars \cup Separators)
         /\ Bare(Grouped(raw, s, t)) = raw
         /\ \E f \in Raws, w \in Texts : /\ Len(f) = 3 /\ f[2] # "L"
                                        /\ Without(Grouped(raw, s, t), Unfit) = f \o w
<1> DEFINE f == Slice(raw, 0, 3)
           g == Slice(raw, 3, 6)
           h == Slice(raw, 6, 9)
           S == FieldChars \cup Separators
<1>0. raw \in [1..DEVICE_ID_LENGTH -> FieldChars]
  BY DeviceIdAssumption DEF Ids
<1>1. /\ f \in Raws /\ g \in Raws /\ h \in Raws
      /\ Len(f) = 3 /\ (f \o g) \o h = raw
  BY <1>0, IdGroups
<1>2. f[2] # "L"
  BY SecondIsNotL
<1>3. f \in Texts /\ g \in Texts /\ h \in Texts /\ f \in Seq(S) /\ g \in Seq(S) /\ h \in Seq(S)
  BY <1>1, RawsAreTexts, SeqMonotonic DEF Raws
<1>4. s \in Texts /\ s \in Seq(S) /\ Bare(s) = <<>> /\ t \in Texts /\ t \in Seq(S) /\ Bare(t) = <<>>
  BY Separator
<1>5. Bare(f) = f /\ Bare(g) = g /\ Bare(h) = h /\ Without(f, Unfit) = f
  BY <1>1, BareOfRaw
<1> DEFINE u == s \o g
           v == t \o h
           r == (f \o u) \o v
<1>6. Grouped(raw, s, t) = r
  BY DEF Grouped, DEVICE_ID_LENGTH
<1> HIDE DEF f, g, h, S
<1>7. u \in Texts /\ u \in Seq(S) /\ v \in Texts /\ v \in Seq(S)
  BY <1>3, <1>4, Joined, ConcatProperties
<1>8. Bare(u) = g /\ Bare(v) = h
  <2>1. <<>> \o g = g /\ <<>> \o h = h
    BY <1>3, ConcatEmptySeq DEF Texts
  <2>2. Bare(s \o g) = Bare(s) \o Bare(g)
    BY <1>3, <1>4, BareConcat
  <2>3. Bare(t \o h) = Bare(t) \o Bare(h)
    BY <1>3, <1>4, BareConcat
  <2> QED BY <1>4, <1>5, <2>1, <2>2, <2>3
<1> HIDE DEF u, v
<1>9. f \o u \in Texts /\ f \o u \in Seq(S)
  BY <1>3, <1>7, Joined, ConcatProperties
<1>10. r \in Texts /\ r \in Seq(S)
  <2> DEFINE a == f \o u
  <2>1. a \in Texts /\ a \in Seq(S)
    BY <1>9
  <2> HIDE DEF a
  <2>2. a \o v \in Texts /\ a \o v \in Seq(S)
    BY <1>7, <2>1, Joined, ConcatProperties
  <2> QED BY <2>2 DEF a
<1>11. Bare(r) = raw
  <2>1. Bare((f \o u) \o v) = Bare(f \o u) \o Bare(v)
    BY <1>7, <1>9, BareConcat
  <2>2. Bare(f \o u) = Bare(f) \o Bare(u)
    BY <1>3, <1>7, BareConcat
  <2> QED BY <1>1, <1>5, <1>8, <2>1, <2>2
<1>12. \E w \in Texts : Without(r, Unfit) = f \o w
  <2>1. Without((f \o u) \o v, Unfit) = Without(f \o u, Unfit) \o Without(v, Unfit)
    BY <1>7, <1>9, BareConcat
  <2>2. Without(f \o u, Unfit) = Without(f, Unfit) \o Without(u, Unfit)
    BY <1>3, <1>7, BareConcat
  <2>3. Without(u, Unfit) \in Texts /\ Without(v, Unfit) \in Texts
    BY <1>7, BareType
  <2> DEFINE w == Without(u, Unfit)
             x == Without(v, Unfit)
  <2>4. w \in Texts /\ x \in Texts /\ Without(r, Unfit) = (f \o w) \o x
    BY <1>5, <2>1, <2>2, <2>3
  <2> HIDE DEF w, x, r
  <2>5. f \o (w \o x) = (f \o w) \o x
    <3>1. Regroups(f, w, x)
      BY <1>3, <2>4, Regroup
    <3> QED BY <3>1 DEF Regroups
  <2>6. w \o x \in Texts
    BY <2>4, Joined
  <2> QED BY <2>4, <2>5, <2>6
<1> HIDE DEF r
<1> QED BY <1>1, <1>2, <1>6, <1>10, <1>11, <1>12 DEF S

LEMMA IdHasNoPrefix == ASSUME NEW raw \in Ids PROVE ~IsPrefix(DL, raw)
<1>1. raw \in [1..DEVICE_ID_LENGTH -> FieldChars]
  BY DeviceIdAssumption DEF Ids
<1>2. raw \in Raws /\ Len(raw) = 9 /\ raw[2] \in Charset /\ "L" \notin Charset
  <2>1. 2 \in 1..9
    OBVIOUS
  <2> QED BY <1>1, <2>1, IdGroups, DeviceIdAssumption DEF Ids, DEVICE_ID_LENGTH
<1>3. SubSeq(raw, 1, 2)[2] = raw[2]
  <2>1. \A i \in 1..2 : raw[i] \in FieldChars
    BY <1>1 DEF DEVICE_ID_LENGTH
  <2>2. \A i \in 1..(2 - 1) + 1 : SubSeq(raw, 1, 2)[i] = raw[(1 + i) - 1]
    BY <2>1, SubSeqProperties
  <2> QED BY <2>2
<1>4. SubSeq(DL, 1, 2) = DL
  BY Constant, SubSeqFull DEF Raws
<1> QED BY <1>2, <1>3, <1>4, Constant DEF IsPrefix

LEMMA SpellingReads ==
  ASSUME NEW raw \in Ids, NEW text \in Spellings(raw)
  PROVE  text \in Texts /\ ReadBack(text) = raw /\ NormalizeDeviceId(text) = FormatId(raw)
<1> DEFINE S == FieldChars \cup Separators
<1>0. raw \in [1..DEVICE_ID_LENGTH -> FieldChars]
  BY DeviceIdAssumption DEF Ids
<1>1. raw \in Raws /\ raw \in Texts /\ Len(raw) = 9
  BY <1>0, IdGroups, RawsAreTexts
<1>2. PICK p \in Starts,
           s \in Joints, t \in Joints : text = p \o Grouped(raw, s, t)
  BY DEF Spellings
<1> DEFINE r == Grouped(raw, s, t)
<1>3. r \in Texts /\ r \in Seq(S) /\ Bare(r) = raw
  BY GroupedReads
<1>4. PICK f \in Raws, w \in Texts : Len(f) = 3 /\ f[2] # "L" /\ Without(r, Unfit) = f \o w
  BY GroupedReads
<1>5. text = p \o r
  BY <1>2
<1> HIDE DEF r
<1>6. /\ p \in Texts /\ p \in Seq(S) /\ Without(p, Unfit) \in {<<>>, DL, Prefix}
      /\ Bare(p) \in {<<>>, DL}
  BY Prefixed
<1>7. /\ f \o w \in Texts /\ ~IsPrefix(DL, f \o w)
      /\ CutPrefix(f \o w) = f \o w /\ CutPrefix(DL \o (f \o w)) = f \o w
  BY <1>4, NoFalsePrefix
<1>8. ReadBack(text) = raw
  <2>1. Without(text, Unfit) = Without(p, Unfit) \o (f \o w)
    BY <1>3, <1>4, <1>5, <1>6, BareConcat
  <2>2. CutPrefix(Prefix \o (f \o w)) = f \o w
    BY <1>7, CutPrefixed
  <2>3. <<>> \o (f \o w) = f \o w
    BY <1>7, ConcatEmptySeq DEF Texts
  <2>4. CutPrefix(Without(text, Unfit)) = f \o w
    BY <1>6, <1>7, <2>1, <2>2, <2>3
  <2>5. Without(f \o w, {"-"}) = raw
    BY <1>3, <1>4 DEF Bare
  <2> QED BY <2>4, <2>5 DEF ReadBack
<1>9. NormalizeDeviceId(text) = FormatId(raw)
  <2> DEFINE cleaned == Without(text, {" ", "-"})
  <2>1. cleaned = Bare(p) \o raw
    <3>1. text \in Seq(S)
      BY <1>3, <1>5, <1>6, ConcatProperties
    <3>2. Without(text, Separators) = Bare(text)
      BY <3>1, CleanIsBare
    <3>3. Bare(p \o r) = Bare(p) \o Bare(r)
      BY <1>3, <1>6, BareConcat
    <3> QED BY <1>3, <1>5, <3>2, <3>3 DEF Separators
  <2>2. cleaned = raw \/ cleaned = DL \o raw
    <3>1. <<>> \o raw = raw
      BY <1>1, ConcatEmptySeq DEF Raws
    <3> QED BY <1>6, <2>1, <3>1
  <2> HIDE DEF cleaned
  <2>3. ~IsPrefix(DL, raw)
    BY IdHasNoPrefix
  <2>4. IsPrefix(DL, DL \o raw) /\ Slice(DL \o raw, 2, Len(DL \o raw)) = raw
    BY <1>1, Constant, RawsAreTexts, TextDrop
  <2>5. (IF IsPrefix(DL, cleaned) THEN Slice(cleaned, 2, Len(cleaned)) ELSE cleaned) = raw
    BY <2>2, <2>3, <2>4
  <2>6. Len(raw) = DEVICE_ID_LENGTH /\ ToSet(raw) \subseteq Charset
    <3>1. DOMAIN raw = 1..DEVICE_ID_LENGTH /\ \A i \in DOMAIN raw : raw[i] \in Charset
      BY DEF Ids
    <3> QED BY <1>1, <3>1 DEF ToSet, DEVICE_ID_LENGTH
  <2> QED BY <1>0, <2>5, <2>6, FormatIsValid DEF NormalizeDeviceId, cleaned
<1>10. text \in Texts
  BY <1>3, <1>5, <1>6, Joined
<1> QED BY <1>8, <1>9, <1>10

LEMMA SpellingIsText ==
  ASSUME NEW raw \in [1..DEVICE_ID_LENGTH -> FieldChars], NEW text \in Spellings(raw)
  PROVE  text \in Texts
<1>1. ASSUME NEW s \in Joints, NEW t \in Joints PROVE Grouped(raw, s, t) \in Texts
  <2> DEFINE f == Slice(raw, 0, 3)
             g == Slice(raw, 3, 6)
             h == Slice(raw, 6, 9)
  <2>1. f \in Texts /\ g \in Texts /\ h \in Texts
    BY IdGroups, RawsAreTexts
  <2>2. s \in Texts /\ t \in Texts
    BY Separator
  <2> HIDE DEF f, g, h
  <2>3. s \o g \in Texts /\ t \o h \in Texts
    BY <2>1, <2>2, Joined
  <2>4. f \o (s \o g) \in Texts
    BY <2>1, <2>3, Joined
  <2>5. (f \o (s \o g)) \o (t \o h) \in Texts
    BY <2>3, <2>4, Joined
  <2> QED BY <2>5 DEF Grouped, DEVICE_ID_LENGTH, f, g, h
<1>2. PICK p \in Starts, s \in Joints, t \in Joints : text = p \o Grouped(raw, s, t)
  BY DEF Spellings
<1> QED BY <1>1, <1>2, Prefixed, Joined

(* A text that is put into the field as a whole.                             *)
LEMMA Refill ==
  ASSUME NEW t \in Texts
  PROVE  /\ Entered(Reformatted(t)) \in Raws
         /\ Len(Entered(Reformatted(t))) <= FIELD_LENGTH
         /\ Reformatted(t) = ShownAs(Entered(Reformatted(t)))
<1> DEFINE b == ReadBack(t)
<1>1. b \in Raws
  BY ReadBackType
<1>2. Reformatted(t) = ShownAs(b)
  BY ReformattedReads
<1> HIDE DEF b
<1>3. Entered(ShownAs(b)) = Slice(b, 0, 8)
  BY <1>1, EnteredShown DEF FIELD_LENGTH
<1>4. Slice(b, 0, 8) \in Raws /\ Len(Slice(b, 0, 8)) <= 8
  <2>1. Len(Slice(b, 0, 8)) = IF Len(b) <= 0 \/ 8 <= 0 THEN 0
                              ELSE IF 8 < Len(b) THEN 8 - 0 ELSE Len(b) - 0
    BY <1>1, GroupLength
  <2>2. Len(b) \in Nat
    BY <1>1, RawLength
  <2>3. Len(Slice(b, 0, 8)) <= 8
    <3>1. \A n \in Nat : (IF n <= 0 \/ 8 <= 0 THEN 0 ELSE IF 8 < n THEN 8 - 0 ELSE n - 0) <= 8
      OBVIOUS
    <3> QED BY <2>1, <2>2, <3>1
  <2> QED BY <1>1, <2>3, Group
<1>5. ShownAs(Slice(b, 0, 8)) = ShownAs(b)
  BY <1>1, ShownOfSlice DEF FIELD_LENGTH
<1> QED BY <1>2, <1>3, <1>4, <1>5 DEF FIELD_LENGTH

-----------------------------------------------------------------------------
(* The invariant *)

(* The field shows what was typed and pasted into it, up to eight characters.*)
Field ==
  /\ buffer \in Raws /\ Len(buffer) <= FIELD_LENGTH
  /\ remoteId = ShownAs(buffer)

(* What was pasted spells an id, and the field still shows it.               *)
Pasted ==
  pasted # <<>> =>
    /\ pasted[1] \in Issued /\ pasted[2] \in Spellings(pasted[1])
    /\ remoteId = Reformatted(pasted[2])

(* While a request is out the field shows a whole id: editing is disabled,   *)
(* and a recent id is whole.                                                 *)
WholeWhileConnecting == isConnecting => ~TooShort

Flags ==
  /\ localError \in BOOLEAN /\ connectionError \in BOOLEAN
  /\ isConnecting \in BOOLEAN /\ recalled \in BOOLEAN
  /\ requests \in 0..MaxRequests
  /\ asked # NoId <=> isConnecting
  /\ asked # NoId => Len(asked) = 13

Asked == WholeWhileConnecting /\ AskedIsShown

Inv == Field /\ Pasted /\ Flags /\ Asked

LEMMA Exactly == \A n, m \in Nat : n <= m /\ ~(n < m) => n = m
  OBVIOUS

LEMMA FieldLength == Field => Len(remoteId) \in Nat /\ Len(remoteId) <= 13
  BY ShownLength DEF Field

LEMMA Fills ==
  ASSUME NEW t \in Texts, remoteId' = Reformatted(t), buffer' = Entered(remoteId')
  PROVE  Field'
  BY Refill DEF Field

LEMMA FieldStep == Inv /\ [Next]_vars => Field'
<1> SUFFICES ASSUME Inv, [Next]_vars PROVE Field'
  OBVIOUS
<1>0. Field
  BY DEF Inv
<1>1. ASSUME NEW c \in Chars, Type(c) PROVE Field'
  <2>1. remoteId' = ShownAs(ReadBack(Append(remoteId, c)))
    BY <1>1, ReformattedReads DEF Type, HandleInputChange
  <2>2. ReadBack(Append(ShownAs(buffer), c)) = buffer \o Bare(<<c>>)
    BY <1>0, TypeReads, Whole DEF Field
  <2>3. remoteId' = ShownAs(buffer \o Bare(<<c>>))
    BY <1>0, <2>1, <2>2 DEF Field
  <2>4. Len(buffer) \in Nat /\ buffer \o <<>> = buffer
    BY <1>0, RawLength, ConcatEmptySeq DEF Field, Raws
  <2>5. CASE c \notin FieldChars
    <3>1. buffer' = buffer
      BY <1>1, <2>5 DEF Type
    <3>2. Bare(<<c>>) = <<>>
      BY <2>5, BareOne
    <3> QED BY <1>0, <2>3, <2>4, <3>1, <3>2 DEF Field
  <2>6. CASE c \in FieldChars /\ Room
    <3>1. buffer' = Append(buffer, c)
      BY <1>1, <2>6 DEF Type
    <3>2. Bare(<<c>>) = <<c>>
      BY <2>6, BareOne
    <3>3. /\ Append(buffer, c) = buffer \o <<c>> /\ Append(buffer, c) \in Raws
          /\ Len(Append(buffer, c)) = Len(buffer) + 1
      BY <1>0, <2>6, AppendIsConcat, AppendProperties DEF Field, Raws
    <3>4. Len(buffer) + 1 <= 8
      BY <2>4, <2>6 DEF Room, FIELD_LENGTH
    <3> QED BY <2>3, <3>1, <3>2, <3>3, <3>4 DEF Field, FIELD_LENGTH
  <2>7. CASE c \in FieldChars /\ ~Room
    <3>1. buffer' = buffer
      BY <1>1, <2>7 DEF Type
    <3>2. Bare(<<c>>) \in Raws
      BY One, BareType
    <3>3. Len(buffer) = FIELD_LENGTH
      <4>1. Len(buffer) <= 8 /\ ~(Len(buffer) < 8)
        BY <1>0, <2>7 DEF Room, Field, FIELD_LENGTH
      <4>2. Len(buffer) = 8
        BY <2>4, <4>1, Exactly
      <4> QED BY <4>2 DEF FIELD_LENGTH
    <3>4. ShownAs(buffer \o Bare(<<c>>)) = ShownAs(buffer)
      BY <1>0, <3>2, <3>3, NoMore DEF Field
    <3> QED BY <1>0, <2>3, <3>1, <3>4 DEF Field
  <2> QED BY <2>5, <2>6, <2>7
<1>2. CASE Backspace
  <2>1. buffer # <<>>
    BY <1>0, <1>2 DEF Backspace, Field, ShownAs
  <2>2. /\ ReadBack(Front(ShownAs(buffer))) = Front(buffer)
        /\ Front(buffer) \in Raws /\ Len(Front(buffer)) <= FIELD_LENGTH
    BY <1>0, <2>1, BackspaceReads DEF Field
  <2>3. remoteId' = ShownAs(ReadBack(Front(remoteId))) /\ buffer' = Front(buffer)
    BY <1>2, ReformattedReads DEF Backspace, HandleInputChange
  <2> QED BY <1>0, <2>2, <2>3 DEF Field
<1>3. ASSUME NEW raw \in Issued, NEW text \in Spellings(raw), Paste(raw, text)
      PROVE  Field'
  <2>1. text \in Texts
    BY SpellingIsText, ScreenAssumption
  <2> QED BY <1>3, <2>1, Fills DEF Paste, HandleInputChange
<1>4. CASE Submit
  BY <1>0, <1>4 DEF Submit, Field, history
<1>5. ASSUME NEW id \in Recent, HandleRecentClick(id) PROVE Field'
  <2>1. id \in Texts /\ id = Reformatted(id)
    BY ScreenAssumption DEF Texts
  <2> QED BY <1>5, <2>1, Fills DEF HandleRecentClick
<1>6. CASE Rejected
  BY <1>0, <1>6 DEF Rejected, Field
<1>7. CASE SessionShown
  <2>1. <<>> \in Raws /\ Len(<<>>) = 0
    BY Nothing, EmptySeq
  <2> QED BY <1>7, <2>1 DEF SessionShown, Field, ShownAs, FIELD_LENGTH
<1>8. CASE UNCHANGED vars
  BY <1>0, <1>8 DEF vars, history, Field
<1> QED BY <1>1, <1>2, <1>3, <1>4, <1>5, <1>6, <1>7, <1>8 DEF Next

LEMMA PastedStep == Inv /\ [Next]_vars => Pasted'
<1> SUFFICES ASSUME Inv, [Next]_vars PROVE Pasted'
  OBVIOUS
<1>0. Pasted
  BY DEF Inv
<1>1. ASSUME NEW c \in Chars, Type(c) PROVE Pasted'
  BY <1>1 DEF Type, Pasted
<1>2. CASE Backspace
  BY <1>2 DEF Backspace, Pasted
<1>3. ASSUME NEW raw \in Issued, NEW text \in Spellings(raw), Paste(raw, text)
      PROVE  Pasted'
  <2>1. pasted' = <<raw, text>> /\ remoteId' = Reformatted(text)
    BY <1>3 DEF Paste, HandleInputChange
  <2>2. pasted'[1] = raw /\ pasted'[2] = text
    BY <2>1
  <2> QED BY <2>1, <2>2 DEF Pasted
<1>4. CASE Submit
  BY <1>0, <1>4 DEF Submit, Pasted, history
<1>5. ASSUME NEW id \in Recent, HandleRecentClick(id) PROVE Pasted'
  BY <1>5 DEF HandleRecentClick, Pasted
<1>6. CASE Rejected
  BY <1>0, <1>6 DEF Rejected, Pasted
<1>7. CASE SessionShown
  BY <1>7 DEF SessionShown, Pasted
<1>8. CASE UNCHANGED vars
  BY <1>0, <1>8 DEF vars, history, Pasted
<1> QED BY <1>1, <1>2, <1>3, <1>4, <1>5, <1>6, <1>7, <1>8 DEF Next

(* A request takes a whole id.                                               *)
LEMMA Connects ==
  ASSUME Inv, HandleConnect, recalled' \in BOOLEAN
  PROVE  Flags'
<1>1. Len(remoteId) \in Nat /\ Len(remoteId) <= 13 /\ Flags
  BY FieldLength DEF Inv
<1>2. CASE TooShort
  BY <1>1, <1>2 DEF HandleConnect, Flags
<1>3. CASE ~TooShort
  <2>1. asked' = remoteId /\ Len(remoteId) = 13
    <3>1. ~(Len(remoteId) < 13)
      BY <1>3 DEF TooShort
    <3>2. Len(remoteId) = 13
      BY <1>1, <3>1, Exactly
    <3> QED BY <1>3, <3>2 DEF HandleConnect
  <2>2. remoteId # NoId
    <3>1. Len(<<>>) = 0
      BY EmptySeq
    <3> QED BY <2>1, <3>1, SMTT(30) DEF NoId
  <2>3. requests' \in 0..MaxRequests
    BY <1>1, <1>3, ScreenAssumption DEF HandleConnect, Flags
  <2>4. ~localError' /\ ~connectionError' /\ isConnecting'
        /\ localError' \in BOOLEAN /\ connectionError' \in BOOLEAN /\ isConnecting' \in BOOLEAN
    BY <1>3 DEF HandleConnect
  <2> QED BY <2>1, <2>2, <2>3, <2>4 DEF Flags
<1> QED BY <1>2, <1>3

LEMMA Idle ==
  /\ 0 \in 0..MaxRequests
  /\ /\ localError = FALSE /\ connectionError = FALSE /\ isConnecting = FALSE
     /\ requests = 0 /\ asked = NoId /\ recalled = FALSE
     => Flags
<1>1. 0 \in 0..MaxRequests
  BY ScreenAssumption
<1> QED BY <1>1, Zenon DEF Flags

LEMMA FlagsStep == Inv /\ [Next]_vars => Flags'
<1> SUFFICES ASSUME Inv, [Next]_vars PROVE Flags'
  OBVIOUS
<1>0. Flags
  BY DEF Inv
<1>1. ASSUME NEW c \in Chars, Type(c) PROVE Flags'
  BY <1>0, <1>1 DEF Type, HandleInputChange, Flags
<1>2. CASE Backspace
  BY <1>0, <1>2 DEF Backspace, HandleInputChange, Flags
<1>3. ASSUME NEW raw \in Issued, NEW text \in Spellings(raw), Paste(raw, text)
      PROVE  Flags'
  BY <1>0, <1>3 DEF Paste, HandleInputChange, Flags
<1>4. CASE Submit
  BY <1>0, <1>4, Connects DEF Submit, history, Flags
<1>5. ASSUME NEW id \in Recent, HandleRecentClick(id) PROVE Flags'
  <2>1. isConnecting' \in BOOLEAN
    BY <1>0, <1>5 DEF HandleRecentClick, HandleConnect, Flags
  <2> QED BY <1>5, <2>1, Connects DEF HandleRecentClick
<1>6. CASE Rejected
  <2>1. requests' \in 0..MaxRequests
    BY <1>0, <1>6, ScreenAssumption DEF Rejected, Flags
  <2>2. isConnecting' = FALSE /\ asked' = NoId /\ connectionError' = TRUE /\ recalled' = FALSE
        /\ localError' \in BOOLEAN
    BY <1>0, <1>6 DEF Rejected, Flags
  <2> QED BY <2>1, <2>2, Zenon DEF Flags
<1>7. CASE SessionShown
  <2>1. /\ localError' = FALSE /\ connectionError' = FALSE /\ isConnecting' = FALSE
        /\ requests' = 0 /\ asked' = NoId /\ recalled' = FALSE
    BY <1>7 DEF SessionShown
  <2> QED BY <2>1, Idle, Zenon DEF Flags
<1>8. CASE UNCHANGED vars
  BY <1>0, <1>8 DEF vars, errors, history, Flags
<1> QED BY <1>1, <1>2, <1>3, <1>4, <1>5, <1>6, <1>7, <1>8 DEF Next

LEMMA AskedStep == Inv /\ [Next]_vars => Asked'
<1> SUFFICES ASSUME Inv, [Next]_vars PROVE Asked'
  OBVIOUS
<1>0. Asked
  BY DEF Inv
<1> USE DEF Asked, WholeWhileConnecting, AskedIsShown
<1>1. ASSUME ~isConnecting, NEW text, HandleInputChange(text) PROVE Asked'
  BY <1>1 DEF HandleInputChange
<1>2. ASSUME NEW c \in Chars, Type(c) PROVE Asked'
  BY <1>1, <1>2 DEF Type
<1>3. CASE Backspace
  BY <1>1, <1>3 DEF Backspace
<1>4. ASSUME NEW raw \in Issued, NEW text \in Spellings(raw), Paste(raw, text)
      PROVE  Asked'
  BY <1>1, <1>4 DEF Paste
<1>5. CASE Submit
  BY <1>0, <1>5 DEF Submit, HandleConnect, TooShort, history
(* handleConnect looks at the id before the click, which is whole while a    *)
(* request is out; and so is the one that takes its place.                   *)
<1>6. ASSUME NEW id \in Recent, HandleRecentClick(id) PROVE Asked'
  <2>1. ~TooShort'
    <3>1. Len(remoteId)' = 13
      BY <1>6, ScreenAssumption DEF HandleRecentClick
    <3> QED BY <3>1 DEF TooShort
  <2>2. isConnecting' => ~localError' /\ ~connectionError' /\ recalled'
    BY <1>0, <1>6 DEF HandleRecentClick, HandleConnect
  <2> QED BY <2>1, <2>2
<1>7. CASE Rejected
  BY <1>7 DEF Rejected
<1>8. CASE SessionShown
  BY <1>8 DEF SessionShown
<1>9. CASE UNCHANGED vars
  BY <1>0, <1>9 DEF vars, errors, history, TooShort
<1> QED BY <1>2, <1>3, <1>4, <1>5, <1>6, <1>7, <1>8, <1>9 DEF Next

LEMMA InvStep == Inv /\ [Next]_vars => Inv'
  BY FieldStep, PastedStep, FlagsStep, AskedStep DEF Inv

LEMMA InvInit == Init => Inv
<1> SUFFICES ASSUME Init PROVE Inv
  OBVIOUS
<1>1. <<>> \in Raws /\ Len(<<>>) = 0
  BY Nothing, EmptySeq
<1>2. Field
  BY <1>1 DEF Init, Field, ShownAs, FIELD_LENGTH
<1>3. Flags
  BY Idle DEF Init
<1>4. Pasted /\ Asked
  BY DEF Init, Pasted, Asked, WholeWhileConnecting, AskedIsShown
<1> QED BY <1>2, <1>3, <1>4 DEF Inv

LEMMA Invariance == Spec => []Inv
  BY InvInit, InvStep, PTL DEF Spec

(* What the field shows is a fixed point of its formatter and fits, so the   *)
(* id that is asked for is whole (ConnectionScreen.tsx:34-61).               *)
THEOREM ScreenTyping == Spec => []ScreenTypeOK
<1>1. Inv => ScreenTypeOK
  <2> SUFFICES ASSUME Inv PROVE ScreenTypeOK
    OBVIOUS
  <2>1. Field /\ Flags
    BY DEF Inv
  <2>2. Reformatted(remoteId) = ShownAs(ReadBack(ShownAs(buffer)))
    BY <2>1, ReformattedReads DEF Field
  <2>3. ReadBack(ShownAs(buffer)) = buffer
    BY <2>1, ReadBackShown, Whole DEF Field
  <2>4. remoteId = Reformatted(remoteId)
    BY <2>1, <2>2, <2>3 DEF Field
  <2> QED BY <2>1, <2>4, FieldLength DEF Flags, ScreenTypeOK
<1> QED BY <1>1, Invariance, PTL

(* The field behaves as a buffer of eight characters, for every charset and  *)
(* every text: the prefix and the dashes that the formatter puts in are the  *)
(* ones it takes out again (ConnectionScreen.tsx:34-45).                     *)
THEOREM FieldIsABuffer == Spec => []FieldIsBuffer
<1>1. Inv => FieldIsBuffer
  BY DEF Inv, Field, FieldIsBuffer
<1> QED BY <1>1, Invariance, PTL

(* However an id of the common charset is spelled, the field shows the same  *)
(* and normalizeDeviceId finds it: no such id begins with the letters of the *)
(* prefix, since L is not in the charset (device-id.ts:49-67).               *)
THEOREM SpellingsShowOneId == Spec => []SpellingsAreOne
<1>1. Inv => SpellingsAreOne
  <2> SUFFICES ASSUME Inv, pasted # <<>>, OfCharset(pasted[1])
               PROVE  /\ remoteId = Reformatted(FormatId(pasted[1]))
                      /\ NormalizeDeviceId(pasted[2]) = FormatId(pasted[1])
    BY DEF SpellingsAreOne
  <2> DEFINE raw == pasted[1]
             text == pasted[2]
  <2>1. raw \in Issued /\ text \in Spellings(raw) /\ remoteId = Reformatted(text)
    BY DEF Inv, Pasted
  <2>2. raw \in Ids
    <3>1. raw \in [1..DEVICE_ID_LENGTH -> FieldChars]
      BY <2>1, ScreenAssumption
    <3>2. \A i \in 1..DEVICE_ID_LENGTH : raw[i] \in Charset
      <4>1. \A i \in DOMAIN raw : raw[i] \in ToSet(raw)
        BY DEF ToSet
      <4> QED BY <3>1, <4>1 DEF OfCharset
    <3> QED BY <3>1, <3>2 DEF Ids
  <2> HIDE DEF raw, text
  <2>3. FormatId(raw) \in Spellings(raw)
    <3>1. DL \o Dash \in Starts /\ Dash \in Joints
      BY DEF Starts, Joints
    <3> DEFINE p == DL \o Dash
    <3>2. p \in Starts
      BY <3>1
    <3> HIDE DEF p
    <3>3. p \o Grouped(raw, Dash, Dash) \in Spellings(raw)
      BY <3>1, <3>2 DEF Spellings
    <3> QED BY <3>3 DEF FormatId, p
  <2>4. ReadBack(text) = raw /\ NormalizeDeviceId(text) = FormatId(raw)
    BY <2>1, <2>2, SpellingReads
  <2>5. ReadBack(FormatId(raw)) = raw
    BY <2>2, <2>3, SpellingReads
  <2>6. Reformatted(text) = Reformatted(FormatId(raw))
    BY <2>4, <2>5, ReformattedReads
  <2> QED BY <2>1, <2>4, <2>6 DEF raw, text
<1> QED BY <1>1, Invariance, PTL

(* While a request is out no error is shown, and the device asked for is the *)
(* one in the field unless a recent one was picked: the two errors belong to *)
(* two components (App.tsx:74-75, ConnectionScreen.tsx:48-57, 69-72).        *)
THEOREM AskedIsInTheField == Spec => []AskedIsShown
<1>1. Inv => AskedIsShown
  BY DEF Inv, Asked
<1> QED BY <1>1, Invariance, PTL

=============================================================================
