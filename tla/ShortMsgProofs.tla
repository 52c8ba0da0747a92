---------------------------- MODULE ShortMsgProofs ----------------------------
(* A message carries no value from before its PrepareNewShortMsg and loses *)
(* no visible character, but where the code says so, whatever the models,  *)
(* the parameters and the texts are.                                       *)
EXTENDS ShortMsg, TLAPS, FiniteSetTheorems, WellFoundedInduction

-----------------------------------------------------------------------------
(* The widths of a text.                                                   *)

\* A set of numbers that is not empty has a least one: among the ranges that
\* end at its members, one includes no other.
LEMMA LeastNumber ==
    ASSUME NEW S \in SUBSET Nat, S # {}
    PROVE  \E i \in S : \A j \in S : i <= j
<1> DEFINE T == {1 .. i : i \in S}
<1>1. T \subseteq FiniteSubsetsOf(Nat) /\ T # {}
  <2>1. ASSUME NEW i \in S PROVE 1 .. i \in FiniteSubsetsOf(Nat)
    <3>1. 1 .. i \subseteq Nat /\ IsFiniteSet(1 .. i)
      BY FS_Interval
    <3> QED
      BY <3>1 DEF FiniteSubsetsOf
  <2> QED
    BY <2>1
<1>2. \E X \in T : \A Y \in T : ~(<<Y, X>> \in StrictSubsetOrdering(Nat))
  BY <1>1, FS_StrictSubsetOrderingWellFounded, WFMin
<1>3. PICK i \in S : \A j \in S :
          ~(<<1 .. j, 1 .. i>> \in StrictSubsetOrdering(Nat))
  BY <1>2
<1>4. ASSUME NEW j \in S PROVE i <= j
  <2> SUFFICES ASSUME j < i PROVE FALSE
    OBVIOUS
  <2>1. i \in 1 .. i /\ i \notin 1 .. j /\ 1 .. j \subseteq 1 .. i
    OBVIOUS
  <2>2. 1 .. j \in FiniteSubsetsOf(Nat) /\ 1 .. i \in FiniteSubsetsOf(Nat)
    BY <1>1
  <2> QED
    BY <1>3, <2>1, <2>2 DEF StrictSubsetOrdering, FiniteSubsetsOf
<1> QED
  BY <1>4

\* And among the numbers up to a bound there is a greatest.
LEMMA GreatestNumber ==
    ASSUME NEW l \in Nat, NEW S \in SUBSET (0 .. l), S # {}
    PROVE  \E i \in S : \A j \in S : i >= j
<1> DEFINE T == {l - j : j \in S}
<1>1. T \in SUBSET Nat /\ T # {}
  <2>1. PICK s : s \in S
    OBVIOUS
  <2>2. l - s \in T
    BY <2>1
  <2>3. \A j \in S : l - j \in Nat
    OBVIOUS
  <2> QED
    BY <2>2, <2>3
<1> HIDE DEF T
<1>2. PICK k \in T : \A j \in T : k <= j
  BY <1>1, LeastNumber
<1>3. PICK i \in S : k = l - i
  BY <1>2 DEF T
<1>4. ASSUME NEW j \in S PROVE i >= j
  <2>1. k <= l - j
    BY <1>2 DEF T
  <2> QED
    BY <1>3, <2>1
<1> QED
  BY <1>4

\* Min and Max of such a set are its ends.
LEMMA MinMax ==
    ASSUME NEW l \in Nat, NEW S \in SUBSET (0 .. l), S # {}
    PROVE  /\ Min(S) \in S /\ Max(S) \in S
           /\ \A j \in S : Min(S) <= j /\ j <= Max(S)
<1>1. Min(S) \in S /\ \A j \in S : Min(S) <= j
  <2>1. S \in SUBSET Nat
    OBVIOUS
  <2> QED
    BY <2>1, LeastNumber DEF Min
<1>2. Max(S) \in S /\ \A j \in S : Max(S) >= j
  BY GreatestNumber DEF Max
<1> QED
  BY <1>1, <1>2

\* What holds of 0 and goes from each number to the next one holds of all up
\* to the last.
LEMMA UpTo ==
    ASSUME NEW l \in Nat, NEW S, 0 \in S,
           \A n \in 1 .. l : n - 1 \in S => n \in S
    PROVE  0 .. l \subseteq S
<1> DEFINE T == (0 .. l) \ S
<1>1. SUFFICES ASSUME T # {} PROVE FALSE
  OBVIOUS
<1>2. PICK n \in T : \A j \in T : n <= j
  <2>1. T \in SUBSET Nat
    OBVIOUS
  <2> HIDE DEF T
  <2> QED
    BY <1>1, <2>1, LeastNumber
<1>3. n \in 1 .. l /\ n - 1 \in 0 .. l /\ ~(n <= n - 1)
  BY <1>2
<1>4. n - 1 \in S
  BY <1>2, <1>3
<1> QED
  BY <1>3, <1>4

\* w adds the characters of a text up one by one, up to the n-th.
AddsUp(w, text, n) ==
    w = [k \in 0 .. n |-> IF k = 0 THEN 0 ELSE w[k - 1] + Width(text[k])]

\* There is such a function for every text, so Widths is one.
LEMMA WidthsAddUp ==
    ASSUME NEW text \in Seq(Char)
    PROVE  AddsUp(Widths(text), text, Len(text))
<1> DEFINE S == {n \in Nat : \E w : AddsUp(w, text, n)}
<1>1. 0 \in S
  <2> DEFINE w == [k \in 0 .. 0 |-> 0]
  <2>1. w = [k \in 0 .. 0 |-> IF k = 0 THEN 0 ELSE w[k - 1] + Width(text[k])]
    OBVIOUS
  <2> QED
    BY <2>1 DEF AddsUp
<1>2. ASSUME NEW n \in 1 .. Len(text), n - 1 \in S PROVE n \in S
  <2>1. PICK g : AddsUp(g, text, n - 1)
    BY <1>2
  <2> DEFINE w == [k \in 0 .. n |-> IF k = n THEN g[n - 1] + Width(text[n]) ELSE g[k]]
  <2>2. ASSUME NEW k \in 0 .. n
        PROVE  w[k] = IF k = 0 THEN 0 ELSE w[k - 1] + Width(text[k])
    <3>1. CASE k = n
      <4>1. k # 0 /\ k - 1 \in 0 .. n /\ k - 1 # n
        BY <1>2, <3>1
      <4> QED
        BY <3>1, <4>1
    <3>2. CASE k # n
      <4>1. k \in 0 .. n - 1
        BY <1>2, <2>2, <3>2
      <4>2. w[k] = g[k]
        BY <2>2, <3>2
      <4>3. g[k] = IF k = 0 THEN 0 ELSE g[k - 1] + Width(text[k])
        BY <2>1, <4>1 DEF AddsUp
      <4>4. k # 0 => w[k - 1] = g[k - 1]
        BY <1>2, <4>1
      <4> QED
        BY <4>2, <4>3, <4>4
    <3> QED
      BY <3>1, <3>2
  <2>3. AddsUp(w, text, n)
    <3>1. w = [k \in 0 .. n |-> w[k]]
      OBVIOUS
    <3>2. [k \in 0 .. n |-> w[k]]
              = [k \in 0 .. n |-> IF k = 0 THEN 0 ELSE w[k - 1] + Width(text[k])]
      BY <2>2
    <3> HIDE DEF w
    <3> QED
      BY <3>1, <3>2 DEF AddsUp
  <2> QED
    BY <1>2, <2>3
<1>3. Len(text) \in S
  <2>1. Len(text) \in Nat
    OBVIOUS
  <2> HIDE DEF S
  <2>2. 0 .. Len(text) \subseteq S
    BY <1>1, <1>2, <2>1, UpTo
  <2> QED
    BY <2>1, <2>2
<1>4. PICK w : AddsUp(w, text, Len(text))
  BY <1>3
<1> QED
  BY <1>4 DEF AddsUp, Widths

\* A text begins with no bytes and grows by one or two with each character.
LEMMA WidthsGrow ==
    ASSUME NEW text \in Seq(Char)
    PROVE  /\ Widths(text)[0] = 0
           /\ \A n \in 0 .. Len(text) : /\ Widths(text)[n] \in Nat
                                        /\ Widths(text)[n] <= 2 * n
           /\ \A n \in 1 .. Len(text) :
                  /\ Widths(text)[n] >= Widths(text)[n - 1]
                  /\ Widths(text)[n] <= Widths(text)[n - 1] + 2
<1> DEFINE w == Widths(text)
           l == Len(text)
<1>1. l \in Nat
  OBVIOUS
<1>2. w[0] = 0 /\ \A n \in 1 .. l : w[n] = w[n - 1] + Width(text[n])
  BY <1>1, WidthsAddUp DEF AddsUp
<1>3. \A n \in 1 .. l : Width(text[n]) \in {1, 2}
  BY DEF Width
<1> DEFINE S == {n \in 0 .. l : w[n] \in Nat /\ w[n] <= 2 * n}
<1> HIDE DEF w, l
<1>4. 0 \in S
  BY <1>1, <1>2
<1>5. ASSUME NEW n \in 1 .. l, n - 1 \in S PROVE n \in S
  <2>1. w[n - 1] \in Nat /\ w[n - 1] <= 2 * (n - 1)
    BY <1>5
  <2>2. w[n] = w[n - 1] + 1 \/ w[n] = w[n - 1] + 2
    BY <1>2, <1>3
  <2> QED
    BY <1>1, <2>1, <2>2
<1>6. 0 .. l \subseteq S
  <2> HIDE DEF S
  <2> QED
    BY <1>1, <1>4, <1>5, UpTo
<1>7. \A n \in 0 .. l : w[n] \in Nat /\ w[n] <= 2 * n
  BY <1>6
<1>8. ASSUME NEW n \in 1 .. l PROVE w[n] >= w[n - 1] /\ w[n] <= w[n - 1] + 2
  <2>1. n - 1 \in 0 .. l
    BY <1>1
  <2>2. w[n] = w[n - 1] + 1 \/ w[n] = w[n - 1] + 2
    BY <1>2, <1>3
  <2> QED
    BY <1>7, <2>1, <2>2
<1>9. /\ w[0] = 0
      /\ \A n \in 0 .. l : w[n] \in Nat /\ w[n] <= 2 * n
      /\ \A n \in 1 .. l : w[n] >= w[n - 1] /\ w[n] <= w[n - 1] + 2
  BY <1>2, <1>7, <1>8
<1> QED
  BY <1>9 DEF w, l

\* More characters have more bytes.
LEMMA WidthsMonotone ==
    ASSUME NEW text \in Seq(Char), NEW j \in 0 .. Len(text),
           NEW k \in 0 .. Len(text), j <= k
    PROVE  Widths(text)[j] <= Widths(text)[k]
<1> DEFINE w == Widths(text)
           l == Len(text)
           S == {n \in 0 .. l : j <= n => w[j] <= w[n]}
<1>1. l \in Nat /\ j \in 0 .. l /\ k \in 0 .. l
  OBVIOUS
<1>2. /\ \A n \in 0 .. l : w[n] \in Nat
      /\ \A n \in 1 .. l : w[n] >= w[n - 1]
  BY WidthsGrow
<1> HIDE DEF w, l
<1>3. 0 \in S
  BY <1>1, <1>2
<1>4. ASSUME NEW n \in 1 .. l, n - 1 \in S PROVE n \in S
  <2>1. w[n] \in Nat /\ w[n - 1] \in Nat /\ w[j] \in Nat /\ w[n] >= w[n - 1]
    BY <1>1, <1>2
  <2>2. j <= n - 1 => w[j] <= w[n - 1]
    BY <1>4
  <2>3. j <= n => j <= n - 1 \/ j = n
    BY <1>1
  <2> QED
    BY <1>1, <2>1, <2>2, <2>3
<1>5. 0 .. l \subseteq S
  <2> HIDE DEF S
  <2> QED
    BY <1>1, <1>3, <1>4, UpTo
<1>6. w[j] <= w[k]
  BY <1>1, <1>5
<1> QED
  BY <1>6 DEF w

-----------------------------------------------------------------------------
(* The pieces of a text.                                                   *)

\* ChnStrSplit finds a piece: as many characters as the field takes, and if
\* there are more, one more is too many.
LEMMA SplitFits ==
    ASSUME NEW text \in Seq(Char), NEW skip \in 0 .. Len(text)
    PROVE  LET n == ChnStrSplit(text, skip)
           IN  /\ n \in skip .. Len(text)
               /\ Bytes(text, skip + 1, n) <= Field
               /\ n < Len(text) => Bytes(text, skip + 1, n + 1) > Field
<1> DEFINE l == Len(text)
           b(n) == Bytes(text, skip + 1, n)
           T == {n \in skip .. l : b(n) <= Field}
<1>1. /\ l \in Nat /\ Field \in Nat /\ skip \in 0 .. l /\ b(skip) = 0
      /\ \A n \in 0 .. l : b(n) \in Int
  <2>1. /\ l \in Nat /\ Field \in Nat /\ skip + 1 - 1 = skip
        /\ \A n \in 0 .. l : Widths(text)[n] \in Nat
    BY WidthsGrow, ShortMsgAssumption
  <2> QED
    BY <2>1 DEF Bytes
<1> HIDE DEF b, l
<1>2. PICK n \in T : \A j \in T : n >= j
  <2>1. T \in SUBSET (0 .. l) /\ skip \in T
    BY <1>1
  <2> HIDE DEF T
  <2> QED
    BY <1>1, <2>1, GreatestNumber
<1>3. ASSUME n < l PROVE b(n + 1) > Field
  <2>1. n + 1 \in skip .. l /\ n + 1 \in 0 .. l /\ ~(n >= n + 1)
    BY <1>1, <1>2, <1>3
  <2>2. ~(b(n + 1) <= Field) /\ b(n + 1) \in Int
    BY <1>1, <1>2, <2>1
  <2> QED
    BY <1>1, <2>2
<1>4. \E i \in skip .. l : b(i) <= Field /\ (i < l => b(i + 1) > Field)
  BY <1>2, <1>3
<1> QED
  BY <1>4 DEF ChnStrSplit, b, l

\* A piece of a text, which may be empty.
IsPiece(text, p) ==
    /\ p \in Piece /\ p.first >= 1
    /\ p.first <= p.last + 1 /\ p.last <= Len(text)

\* What is left of a piece when spaces and control characters are taken off.
Left(text, p, q) ==
    /\ IsPiece(text, q) /\ q.first >= p.first /\ q.last <= p.last
    /\ \A i \in p.first .. p.last :
           i \in q.first .. q.last \/ text[i] \in {"blank", "control"}

\* Stripping takes off only what is not visible.
LEMMA StrippedLeft ==
    ASSUME NEW text \in Seq(Char), NEW p, IsPiece(text, p)
    PROVE  Left(text, p, Stripped(text, p))
<1> DEFINE V == Visible(text, p)
<1>1. /\ p.first \in Nat /\ p.last \in Nat /\ Len(text) \in Nat
      /\ p.first >= 1 /\ p.first <= p.last + 1 /\ p.last <= Len(text)
  BY DEF IsPiece, Piece
<1>2. \A i \in p.first .. p.last : i \in V \/ text[i] \in {"blank", "control"}
  <2> SUFFICES ASSUME NEW i \in p.first .. p.last
               PROVE  i \in V \/ text[i] \in {"blank", "control"}
    OBVIOUS
  <2>1. text[i] \in Char
    BY <1>1
  <2> QED
    BY <2>1 DEF Visible, Char
<1>3. CASE V = {}
  <2> DEFINE q == [first |-> p.first, last |-> p.first - 1]
  <2>1. Stripped(text, p) = q
    BY <1>3 DEF Stripped
  <2>2. IsPiece(text, q) /\ q.first >= p.first /\ q.last <= p.last
    BY <1>1 DEF IsPiece, Piece
  <2> QED
    BY <1>2, <1>3, <2>1, <2>2 DEF Left
<1>4. CASE V # {}
  <2> DEFINE q == [first |-> Min(V), last |-> Max(V)]
  <2>1. Stripped(text, p) = q
    BY <1>4 DEF Stripped
  <2>2. V \in SUBSET (0 .. p.last) /\ V \subseteq p.first .. p.last
    BY <1>1 DEF Visible
  <2>3. /\ Min(V) \in V /\ Max(V) \in V
        /\ \A j \in V : Min(V) <= j /\ j <= Max(V)
    <3> HIDE DEF V
    <3> QED
      BY <1>1, <1>4, <2>2, MinMax
  <2> HIDE DEF V
  <2>4. /\ Min(V) \in p.first .. p.last /\ Max(V) \in p.first .. p.last
        /\ Min(V) <= Max(V)
    BY <2>2, <2>3
  <2>5. q \in Piece /\ q.first = Min(V) /\ q.last = Max(V)
    BY <1>1, <2>4 DEF Piece
  <2>6. IsPiece(text, q) /\ q.first >= p.first /\ q.last <= p.last
    BY <1>1, <2>4, <2>5 DEF IsPiece
  <2>7. \A i \in V : i \in q.first .. q.last
    BY <1>1, <2>2, <2>3, <2>4, <2>5
  <2> QED
    BY <1>2, <2>1, <2>6, <2>7 DEF Left
<1> QED
  BY <1>3, <1>4

\* So does Trim, if it does anything.
LEMMA TrimLeft ==
    ASSUME NEW text \in Seq(Char), NEW p, IsPiece(text, p)
    PROVE  Left(text, p, Trim(text, p))
<1>1. Left(text, p, p)
  <2>1. p.first \in Nat /\ p.last \in Nat
    BY DEF IsPiece, Piece
  <2> QED
    BY <2>1 DEF Left
<1> QED
  BY <1>1, StrippedLeft DEF Trim

\* What is left fits where the piece did.
LEMMA LeftFits ==
    ASSUME NEW text \in Seq(Char), NEW p, IsPiece(text, p), NEW q,
           Left(text, p, q), q.first <= q.last,
           Bytes(text, p.first, p.last) <= Field
    PROVE  Bytes(text, q.first, q.last) <= Field
<1> DEFINE w == Widths(text)
<1>1. /\ p.first \in Nat /\ p.last \in Nat /\ q.first \in Nat
      /\ q.last \in Nat /\ Len(text) \in Nat
      /\ p.first >= 1 /\ p.first <= q.first /\ q.last <= p.last
      /\ p.last <= Len(text)
  BY DEF IsPiece, Piece, Left
<1>2. /\ p.first - 1 \in 0 .. Len(text) /\ q.first - 1 \in 0 .. Len(text)
      /\ p.last \in 0 .. Len(text) /\ q.last \in 0 .. Len(text)
      /\ p.first - 1 <= q.first - 1
  BY <1>1
<1>3. w[p.first - 1] <= w[q.first - 1]
  BY <1>2, WidthsMonotone
<1>4. w[q.last] <= w[p.last]
  BY <1>1, <1>2, WidthsMonotone
<1>5. /\ w[p.first - 1] \in Nat /\ w[q.first - 1] \in Nat
      /\ w[q.last] \in Nat /\ w[p.last] \in Nat
  BY <1>2, WidthsGrow
<1>6. w[p.last] - w[p.first - 1] <= Field /\ Field \in Nat
  BY ShortMsgAssumption DEF Bytes
<1> HIDE DEF w
<1>7. w[q.last] - w[q.first - 1] <= Field
  BY <1>3, <1>4, <1>5, <1>6
<1> QED
  BY <1>7 DEF Bytes, w

\* What is inserted of a text: pieces that fit into their fields, one behind
\* the other, and all of the text but what TextKept names.
Fits(m, text, p) ==
    /\ p.msg \in Piece /\ p.append \in Piece
    /\ p.msg.last <= Len(text) /\ p.append.last <= Len(text)
    /\ p.msg.first <= p.msg.last =>
           Bytes(text, p.msg.first, p.msg.last) <= Field
    /\ p.append.first <= p.append.last =>
           Bytes(text, p.append.first, p.append.last) <= Field
    /\ \A i \in p.msg.first .. p.msg.last,
          j \in p.append.first .. p.append.last : i < j
    /\ \A i \in 1 .. Len(text) :
           \/ i \in p.msg.first .. p.msg.last
           \/ i \in p.append.first .. p.append.last
           \/ text[i] \in {"blank", "control"}
           \/ IF /\ FoldPolicy[m] = "0" /\ SmType[m] = "norm"
                 /\ Len(text) > NormLen
              THEN i > NormLen ELSE Bytes(text, 1, i) >= 2 * Field

\* The two pieces of a text fit, and what is behind them would not.
LEMMA TwoPiecesFit ==
    ASSUME NEW text \in Seq(Char), NEW m,
           ~(FoldPolicy[m] = "0" /\ SmType[m] = "norm" /\ Len(text) > NormLen)
    PROVE  Fits(m, text, TwoPieces(text))
<1> DEFINE w == Widths(text)
           l == Len(text)
           a == ChnStrSplit(text, 0)
           c == ChnStrSplit(text, a)
           p == [first |-> 1, last |-> a]
           q == [first |-> a + 1, last |-> c]
           s == Trim(text, p)
           t == Trim(text, q)
<1>1. l \in Nat /\ Field \in Nat \ {0, 1} /\ 0 \in 0 .. l
  BY ShortMsgAssumption
<1>2. /\ a \in 0 .. l /\ Bytes(text, 1, a) <= Field
      /\ a < l => Bytes(text, 1, a + 1) > Field
  <2>1. 0 + 1 = 1
    OBVIOUS
  <2> HIDE DEF a, l
  <2>2. /\ a \in 0 .. l /\ Bytes(text, 0 + 1, a) <= Field
        /\ a < l => Bytes(text, 0 + 1, a + 1) > Field
    BY <1>1, SplitFits DEF a, l
  <2> QED
    BY <2>1, <2>2
<1>3. /\ c \in a .. l /\ Bytes(text, a + 1, c) <= Field
      /\ c < l => Bytes(text, a + 1, c + 1) > Field
  BY <1>2, SplitFits
<1>4. /\ w[0] = 0 /\ \A n \in 0 .. l : w[n] \in Nat
      /\ \A n \in 1 .. l : w[n] <= w[n - 1] + 2
      /\ \A j, k \in 0 .. l : j <= k => w[j] <= w[k]
  BY WidthsGrow, WidthsMonotone
<1> HIDE DEF a, c
<1>5. IsPiece(text, p) /\ IsPiece(text, q)
  BY <1>1, <1>2, <1>3 DEF IsPiece, Piece
<1>6. Left(text, p, s) /\ Left(text, q, t)
  BY <1>5, TrimLeft
<1> HIDE DEF s, t
<1>7. /\ s.first <= s.last => Bytes(text, s.first, s.last) <= Field
      /\ t.first <= t.last => Bytes(text, t.first, t.last) <= Field
  BY <1>2, <1>3, <1>5, <1>6, LeftFits
<1>8. /\ s \in Piece /\ t \in Piece /\ s.last <= a /\ t.first >= a + 1
       /\ s.last <= l /\ t.last <= l
  BY <1>6 DEF Left, IsPiece
<1>9. \A i \in s.first .. s.last, j \in t.first .. t.last : i < j
  BY <1>2, <1>8 DEF Piece
<1>10. ASSUME NEW i \in 1 .. l
       PROVE  \/ i \in s.first .. s.last \/ i \in t.first .. t.last
              \/ text[i] \in {"blank", "control"}
              \/ Bytes(text, 1, i) >= 2 * Field
  <2>1. CASE i <= a
    <3>1. i \in p.first .. p.last
      BY <1>2, <2>1
    <3> QED
      BY <1>6, <3>1 DEF Left
  <2>2. CASE i > a /\ i <= c
    <3>1. i \in q.first .. q.last
      BY <1>2, <1>3, <2>2
    <3> QED
      BY <1>6, <3>1 DEF Left
  <2>3. CASE i > c
    <3> HIDE DEF w
    <3>1. /\ a < l /\ c < l /\ a + 1 \in 1 .. l /\ (a + 1) - 1 = a
          /\ a \in 0 .. l /\ a + 1 \in 0 .. l /\ c + 1 \in 0 .. l
          /\ i \in 0 .. l /\ c + 1 <= i /\ 1 - 1 = 0
      BY <1>1, <1>2, <1>3, <2>3
    <3>2. w[a + 1] - w[0] > Field /\ w[c + 1] - w[a] > Field
      BY <1>2, <1>3, <3>1 DEF Bytes, w
    <3>3. w[a + 1] <= w[a] + 2 /\ w[c + 1] <= w[i] /\ w[0] = 0
      BY <1>4, <3>1
    <3>4. /\ w[a] \in Nat /\ w[a + 1] \in Nat /\ w[c + 1] \in Nat
          /\ w[i] \in Nat
      BY <1>4, <3>1
    <3>5. w[i] - w[0] >= 2 * Field
      BY <1>1, <3>2, <3>3, <3>4
    <3> QED
      BY <3>1, <3>5 DEF Bytes, w
  <2> QED
    BY <1>1, <1>2, <1>3, <2>1, <2>2, <2>3
<1>11. TwoPieces(text) = [msg |-> s, append |-> t]
  BY DEF TwoPieces, a, c, s, t
<1> HIDE DEF l
<1>12. Fits(m, text, [msg |-> s, append |-> t])
  BY <1>7, <1>8, <1>9, <1>10 DEF Fits, l
<1> QED
  BY <1>11, <1>12

\* The other texts are inserted in one piece.
LEMMA InsertedFits ==
    ASSUME NEW m \in Model, NEW text \in Text[m], NEW p \in Inserted(m, text)
    PROVE  Fits(m, text, p)
<1>1. /\ text \in Seq(Char) /\ SmType[m] \in {"push", "long", "norm"}
      /\ Len(text) \in Nat /\ Field \in Nat /\ NormLen \in Nat
      /\ 2 * NormLen <= Field
  BY ShortMsgAssumption
<1>2. \A n \in 0 .. Len(text) :
          /\ Bytes(text, 1, n) \in Nat /\ Bytes(text, 1, n) <= 2 * n
  <2>1. \A n \in 0 .. Len(text) :
            /\ Widths(text)[n] \in Nat /\ Widths(text)[n] <= 2 * n
            /\ Widths(text)[0] = 0
    BY <1>1, WidthsGrow
  <2>2. 1 - 1 = 0
    OBVIOUS
  <2> QED
    BY <2>1, <2>2 DEF Bytes
<1>3. /\ Nothing \in Piece /\ Nothing.first = 1 /\ Nothing.last = 0
      /\ Whole(text) \in Piece /\ Whole(text).first = 1
      /\ Whole(text).last = Len(text)
  BY <1>1 DEF Nothing, Whole, Piece
<1>4. ASSUME p = [msg |-> Whole(text), append |-> Nothing],
             Bytes(text, 1, Len(text)) <= Field
      PROVE  Fits(m, text, p)
  BY <1>1, <1>3, <1>4 DEF Fits
<1>5. CASE p = [msg |-> Whole(text), append |-> Nothing] /\ Len(text) <= NormLen
  <2>1. Bytes(text, 1, Len(text)) <= Field
    BY <1>1, <1>2, <1>5
  <2> QED
    BY <1>4, <1>5, <2>1
<1>6. CASE /\ p = Cut(text) /\ SmType[m] = "norm"
           /\ FoldPolicy[m] = "0" /\ Len(text) > NormLen
  <2> DEFINE c == [first |-> 1, last |-> NormLen]
             s == Stripped(text, c)
  <2>1. IsPiece(text, c)
    BY <1>1, <1>6 DEF IsPiece, Piece
  <2>2. Left(text, c, s)
    BY <1>1, <2>1, StrippedLeft
  <2>3. Bytes(text, 1, NormLen) <= Field
    BY <1>1, <1>2, <1>6
  <2>4. s.first <= s.last => Bytes(text, s.first, s.last) <= Field
    BY <1>1, <2>1, <2>2, <2>3, LeftFits
  <2>5. p = [msg |-> s, append |-> Nothing]
    BY <1>6 DEF Cut
  <2> HIDE DEF s
  <2>6. \A i \in 1 .. Len(text) :
            \/ i \in s.first .. s.last \/ text[i] \in {"blank", "control"}
            \/ i > NormLen
    BY <1>1, <2>2 DEF Left
  <2> QED
    BY <1>1, <1>3, <1>6, <2>2, <2>4, <2>5, <2>6 DEF Fits, Left, IsPiece
<1>7. CASE SmType[m] = "push"
  <2>1. p = [msg |-> Whole(text), append |-> Nothing]
        /\ Bytes(text, 1, Len(text)) <= Field
    BY <1>3, <1>7 DEF Inserted
  <2> QED
    BY <1>4, <2>1
<1>8. CASE SmType[m] = "long"
  <2>1. p = TwoPieces(text)
    BY <1>8 DEF Inserted
  <2> QED
    BY <1>1, <1>8, <2>1, TwoPiecesFit
<1>9. CASE SmType[m] = "norm"
  <2>1. CASE Len(text) <= NormLen
    <3>1. p = [msg |-> Whole(text), append |-> Nothing]
      BY <1>1, <1>9, <2>1 DEF Inserted
    <3> QED
      BY <1>5, <2>1, <3>1
  <2>2. CASE Len(text) > NormLen /\ FoldPolicy[m] = "0"
    <3>1. p = Cut(text)
      BY <1>1, <1>9, <2>2 DEF Inserted
    <3> QED
      BY <1>6, <1>9, <2>2, <3>1
  <2>3. CASE Len(text) > NormLen /\ FoldPolicy[m] # "0"
    <3>1. p = TwoPieces(text)
      BY <1>1, <1>9, <2>3 DEF Inserted
    <3> QED
      BY <1>1, <2>3, <3>1, TwoPiecesFit
  <2> QED
    BY <1>1, <2>1, <2>2, <2>3
<1> QED
  BY <1>1, <1>7, <1>8, <1>9

-----------------------------------------------------------------------------
(* The parameters and the rows.                                            *)

\* All values were set for one model.
OneModel(values, m) == \A k \in Key : values[k] # NotSet => values[k].model = m

\* All values were set since one call of PrepareNewShortMsg.
OneCall(values, n) == \A k \in Key : values[k] # NotSet => values[k].call = n

\* The parameters in the interpreter are of the last call of
\* PrepareNewShortMsg, since Initial empties them at each call, and of its
\* model as long as nothing was set for another one.
OwnParams ==
    params # NoTable =>
        /\ serial > 0
        /\ OneCall(params, serial)
        /\ current # NoModel /\ ~mixed => OneModel(params, current)

\* Every row was inserted from a text by DispatchShortMsg.
RowsFit == \A r \in pool : Fits(r.model, r.text, r)

IInv == TypeOK /\ OwnParams /\ MessageIsOwn /\ RowsFit

\* Kept takes rows out of the pool and puts none in.
LEMMA KeptInPool ==
    ASSUME NEW m, NEW channel, NEW t PROVE Kept(m, channel, t) \subseteq pool
BY DEF Kept

\* A new interpreter is empty.
LEMMA InitIInv == Init => IInv
<1> SUFFICES ASSUME Init PROVE IInv
  OBVIOUS
<1>1. 0 \in 0 .. MaxCalls
  BY ShortMsgAssumption
<1> QED
  BY <1>1 DEF Init, IInv, TypeOK, OwnParams, MessageIsOwn, RowsFit, NoTable

\* What is said of the rows holds of fewer rows.
LEMMA FewerRows ==
    ASSUME IInv, pool' \subseteq pool, nextval' = nextval
    PROVE  /\ pool' \subseteq Row /\ nextval' \in 0 .. MaxCalls
           /\ \A r \in pool' : /\ r.id <= nextval'
                               /\ r.msg.last <= Len(r.text)
                               /\ r.append.last <= Len(r.text)
           /\ MessageIsOwn' /\ RowsFit'
<1>1. pool \subseteq Row /\ nextval \in 0 .. MaxCalls
  BY DEF IInv, TypeOK
<1>2. \A r \in pool : /\ r.id <= nextval /\ r.msg.last <= Len(r.text)
                      /\ r.append.last <= Len(r.text)
  BY DEF IInv, TypeOK
<1>3. MessageIsOwn'
  BY DEF IInv, MessageIsOwn
<1>4. RowsFit'
  BY DEF IInv, RowsFit
<1> QED
  BY <1>1, <1>2, <1>3, <1>4

\* The types of the parameters, where the pool only loses rows.
LEMMA SameTypes ==
    ASSUME IInv, pool' \subseteq pool, nextval' = nextval,
           lib' \in BOOLEAN, params' \in {NoTable} \cup [Key -> Value],
           ~lib' => params' = NoTable, serial' \in 0 .. MaxCalls,
           current' \in Model \cup {NoModel}, mixed' \in BOOLEAN
    PROVE  TypeOK'
BY FewerRows DEF TypeOK, Row, Value, NotSet, NoTable, Piece

\* A call of PrepareNewShortMsg leaves nothing of an earlier one.
LEMMA PrepareIInv ==
    ASSUME IInv, NEW m \in Model, PrepareNewShortMsg(m)
    PROVE  IInv'
<1> DEFINE v == [call |-> serial + 1, model |-> m]
<1>1. PICK set \in SUBSET Default[m] :
          params' = [k \in Key |-> IF k \in set THEN v ELSE NotSet]
  BY DEF PrepareNewShortMsg, Initial
<1>2. /\ lib /\ lib' = lib /\ serial < MaxCalls /\ serial' = serial + 1
      /\ current' = m /\ mixed' = FALSE /\ pool' = pool /\ nextval' = nextval
  BY DEF PrepareNewShortMsg
<1>3. MaxCalls \in Nat /\ serial' \in 1 .. MaxCalls
  BY <1>2, ShortMsgAssumption DEF IInv, TypeOK
<1>4. v \in Value /\ NotSet \in Value /\ v.call = serial + 1 /\ v.model = m
  BY <1>2, <1>3 DEF Value
<1> HIDE DEF v
<1>5. params' \in [Key -> Value]
  BY <1>1, <1>4
<1>6. \A k \in Key : params'[k] \in {v, NotSet}
  BY <1>1
<1>7. OneCall(params, serial)' /\ OneModel(params, current)'
  BY <1>2, <1>4, <1>6 DEF OneCall, OneModel, NotSet
<1>8. OwnParams'
  BY <1>3, <1>7 DEF OwnParams
<1>9. TypeOK'
  <2>1. lib' \in BOOLEAN /\ lib'
    BY <1>2 DEF IInv, TypeOK
  <2>2. serial' \in 0 .. MaxCalls
    BY <1>3
  <2>3. current' \in Model \cup {NoModel} /\ mixed' \in BOOLEAN
    BY <1>2, Zenon
  <2> QED
    BY <1>2, <1>5, <2>1, <2>2, <2>3, SameTypes
<1> QED
  BY <1>2, <1>8, <1>9, FewerRows DEF IInv

\* A parameter that is set becomes one of the current call, and another model
\* does not go unnoticed.
LEMMA SetIInv ==
    ASSUME IInv, NEW m \in Model, NEW key \in Key, SetShortMsgParameter(m, key)
    PROVE  IInv'
<1> DEFINE v == [call |-> serial, model |-> m]
<1>1. /\ lib /\ lib' = lib /\ params # NoTable
      /\ params' = [params EXCEPT ![key] = v]
      /\ mixed' = (mixed \/ m # current) /\ serial' = serial
      /\ current' = current /\ pool' = pool /\ nextval' = nextval
  BY DEF SetShortMsgParameter
<1>2. params \in [Key -> Value] /\ serial \in 1 .. MaxCalls
  BY <1>1, ShortMsgAssumption DEF IInv, TypeOK, OwnParams
<1>3. v \in Value /\ v.call = serial /\ v.model = m
  BY <1>2 DEF Value
<1> HIDE DEF v
<1>4. params' \in [Key -> Value]
  BY <1>1, <1>2, <1>3
<1>5. \A k \in Key : params'[k] = params[k] \/ params'[k] = v
  BY <1>1, <1>2
<1>6. OneCall(params, serial)'
  BY <1>1, <1>3, <1>5 DEF IInv, OwnParams, OneCall, NotSet
<1>7. current' # NoModel /\ ~mixed' => OneModel(params, current)'
  <2> SUFFICES ASSUME current' # NoModel, ~mixed', NEW k \in Key,
                      params'[k] # NotSet
               PROVE  params'[k].model = current'
    BY DEF OneModel, NotSet
  <2>1. m = current /\ ~mixed /\ current # NoModel
    BY <1>1
  <2>2. OneModel(params, current)
    BY <1>1, <2>1 DEF IInv, OwnParams
  <2> QED
    BY <1>1, <1>3, <1>5, <2>1, <2>2 DEF OneModel
<1>8. OwnParams'
  BY <1>1, <1>2, <1>6, <1>7 DEF OwnParams
<1>9. mixed' \in BOOLEAN
  BY <1>1 DEF IInv, TypeOK
<1>10. TypeOK'
  BY <1>1, <1>2, <1>4, <1>9, SameTypes DEF IInv, TypeOK
<1> QED
  BY <1>1, <1>8, <1>10, FewerRows DEF IInv

\* A message is built from the current parameters, or its error changes no
\* row.
LEMMA GenerateIInv ==
    ASSUME IInv, NEW m \in Model, NEW op \in Op, GenerateShortMsg(m, op)
    PROVE  IInv'
<1>1. /\ lib /\ params # NoTable /\ CheckMandatoryParameters(m)
      /\ \A k \in Used[m] : params[k] # NotSet
      /\ lib' = lib /\ params' = params /\ serial' = serial /\ mixed' = mixed
  BY DEF GenerateShortMsg
<1>2. /\ params \in [Key -> Value] /\ serial \in 1 .. MaxCalls
      /\ current \in Model \cup {NoModel} /\ mixed \in BOOLEAN
      /\ MaxCalls \in Nat
  BY <1>1, ShortMsgAssumption DEF IInv, TypeOK, OwnParams
<1>3. PICK t \in SendTime :
          DispatchShortMsg(m, op, t) \/ DispatchFails(m, op, t)
  BY DEF GenerateShortMsg
<1>4. CASE DispatchFails(m, op, t)
  <2>1. pool' \subseteq pool /\ nextval' = nextval /\ current' = current
    BY <1>4, KeptInPool DEF DispatchFails
  <2>2. OwnParams'
    BY <1>1, <2>1 DEF IInv, OwnParams, OneCall, OneModel, NotSet, NoTable
  <2>3. TypeOK'
    BY <1>1, <1>2, <2>1, SameTypes
  <2> QED
    BY <2>1, <2>2, <2>3, FewerRows DEF IInv
<1>5. CASE DispatchShortMsg(m, op, t)
  <2> DEFINE Made(channel, text, p) ==
                 [id |-> nextval + 1, model |-> m, op |-> op,
                  channel |-> channel, values |-> params, call |-> serial,
                  inOrder |-> m = current /\ ~mixed,
                  text |-> text, msg |-> p.msg, append |-> p.append]
  <2>1. PICK channel \in QryShortMsgChannel(m, op), text \in Text[m] :
            \E p \in Inserted(m, text) :
                pool' = Kept(m, channel, t) \cup {Made(channel, text, p)}
    BY <1>5 DEF DispatchShortMsg
  <2>2. PICK p \in Inserted(m, text) :
            pool' = Kept(m, channel, t) \cup {Made(channel, text, p)}
    BY <2>1
  <2> DEFINE row == Made(channel, text, p)
  <2>3. pool' \subseteq pool \cup {row}
    BY <2>2, KeptInPool
  <2>4. /\ nextval < MaxCalls /\ nextval' = nextval + 1 /\ current' = NoModel
        /\ nextval \in Nat /\ nextval + 1 \in 1 .. MaxCalls
    BY <1>2, <1>5 DEF DispatchShortMsg, IInv, TypeOK
  <2>5. Fits(m, text, p)
    BY InsertedFits
  <2>6. /\ row.model = m /\ row.text = text /\ row.msg = p.msg
        /\ row.append = p.append /\ row.id = nextval + 1
        /\ row.values = params /\ row.call = serial
        /\ row.inOrder = (m = current /\ ~mixed)
    OBVIOUS
  <2>7. row \in Row
    <3>1. channel \in Channel /\ text \in Seq(Char)
      BY ShortMsgAssumption DEF QryShortMsgChannel
    <3>2. p.msg \in Piece /\ p.append \in Piece
      BY <2>5 DEF Fits
    <3>3. (m = current /\ ~mixed) \in BOOLEAN
      OBVIOUS
    <3> QED
      BY <1>2, <2>4, <3>1, <3>2, <3>3 DEF Row
  <2>8. Fits(row.model, row.text, row)
    BY <2>5, <2>6 DEF Fits
  <2>9. \A k \in Key : row.values[k] # NotSet =>
            /\ row.values[k].call = row.call
            /\ row.inOrder => row.values[k].model = row.model
    <3>1. OneCall(params, serial)
      BY <1>1 DEF IInv, OwnParams
    <3>2. row.inOrder => OneModel(params, m)
      BY <1>1, <2>6, ShortMsgAssumption DEF IInv, OwnParams, ShortMsgAssumption
    <3> HIDE DEF row
    <3> QED
      BY <2>6, <3>1, <3>2 DEF OneCall, OneModel
  <2>10. \A k \in Mandatory[row.model] \cup Used[row.model] :
             row.values[k] # NotSet
    BY <1>1, <2>6 DEF CheckMandatoryParameters
  <2>11. row.msg.last <= Len(row.text) /\ row.append.last <= Len(row.text)
    BY <2>5, <2>6 DEF Fits
  <2> HIDE DEF row
  <2>12. MessageIsOwn'
    <3> SUFFICES ASSUME NEW r \in pool'
        PROVE  /\ \A k \in Key : r.values[k] # NotSet =>
                      /\ r.values[k].call = r.call
                      /\ r.inOrder => r.values[k].model = r.model
               /\ \A k \in Mandatory[r.model] \cup Used[r.model] :
                      r.values[k] # NotSet
      BY DEF MessageIsOwn, NotSet
    <3>1. CASE r = row
      BY <2>9, <2>10, <3>1
    <3>2. CASE r \in pool
      BY <3>2 DEF IInv, MessageIsOwn
    <3> QED
      BY <2>3, <3>1, <3>2
  <2>13. RowsFit'
    <3>1. \A r \in pool' : Fits(r.model, r.text, r)
      BY <2>3, <2>8 DEF IInv, RowsFit
    <3> QED
      BY <3>1 DEF RowsFit
  <2>14. /\ pool' \subseteq Row /\ nextval' \in 0 .. MaxCalls
         /\ \A r \in pool' : /\ r.id <= nextval'
                             /\ r.msg.last <= Len(r.text)
                             /\ r.append.last <= Len(r.text)
    <3>1. /\ pool \subseteq Row
          /\ \A r \in pool : /\ r.id <= nextval /\ r.msg.last <= Len(r.text)
                             /\ r.append.last <= Len(r.text)
      BY DEF IInv, TypeOK
    <3>2. \A r \in pool : r.id \in Nat
      BY <3>1 DEF Row
    <3>3. row.id <= nextval'
      BY <2>4, <2>6
    <3> QED
      BY <2>3, <2>4, <2>7, <2>11, <3>1, <3>2, <3>3
  <2>15. TypeOK'
    <3>1. /\ lib' \in BOOLEAN /\ params' \in [Key -> Value] /\ lib'
          /\ serial' \in 0 .. MaxCalls /\ mixed' \in BOOLEAN
          /\ current' \in Model \cup {NoModel}
      BY <1>1, <1>2, <2>4
    <3> QED
      BY <2>14, <3>1 DEF TypeOK, Row, Value, NotSet, NoTable, Piece
  <2>16. OwnParams'
    BY <1>1, <2>4 DEF IInv, OwnParams, OneCall, NotSet, NoTable
  <2> QED
    BY <2>12, <2>13, <2>15, <2>16 DEF IInv
<1> QED
  BY <1>3, <1>4, <1>5

\* Every step keeps the parameters and the rows as they should be.
LEMMA NextIInv == IInv /\ [Next]_vars => IInv'
<1> SUFFICES ASSUME IInv, [Next]_vars PROVE IInv'
  OBVIOUS
<1>1. ASSUME UNCHANGED <<serial, current, mixed, nextval>>, pool' \subseteq pool,
             \/ lib' \in BOOLEAN /\ params' = NoTable
             \/ UNCHANGED <<lib, params>>
      PROVE  IInv'
  <2>1. TypeOK'
    BY <1>1, SameTypes DEF IInv, TypeOK
  <2>2. OwnParams'
    BY <1>1 DEF IInv, OwnParams, OneCall, OneModel, NotSet, NoTable
  <2> QED
    BY <1>1, <2>1, <2>2, FewerRows DEF IInv
<1>2. CASE InitShortMsgLib \/ DestroyShortMsgLib
  BY <1>1, <1>2 DEF InitShortMsgLib, DestroyShortMsgLib, composing
<1>3. CASE Gateway
  BY <1>1, <1>3 DEF Gateway, composing
<1>4. ASSUME NEW m \in Model, PrepareNewShortMsg(m) PROVE IInv'
  BY <1>4, PrepareIInv
<1>5. ASSUME NEW m \in Model, NEW k \in Key, SetShortMsgParameter(m, k)
      PROVE  IInv'
  BY <1>5, SetIInv
<1>6. ASSUME NEW m \in Model, NEW op \in Op, GenerateShortMsg(m, op)
      PROVE  IInv'
  BY <1>6, GenerateIInv
<1>7. CASE UNCHANGED vars
  BY <1>1, <1>7 DEF vars, composing
<1> QED
  BY <1>2, <1>3, <1>4, <1>5, <1>6, <1>7 DEF Next

\* Every variable keeps its type, and every piece lies within its text.
THEOREM TypeCorrect == Spec => []TypeOK
<1>1. IInv => TypeOK
  BY DEF IInv
<1> QED
  BY InitIInv, NextIInv, <1>1, PTL DEF Spec

\* No message of a channel table carries a value from before the last call of
\* PrepareNewShortMsg or lacks one, and one that was composed in order carries
\* only values of its own model.
THEOREM MessageIsOwnHolds == Spec => []MessageIsOwn
<1>1. IInv => MessageIsOwn
  BY DEF IInv
<1> QED
  BY InitIInv, NextIInv, <1>1, PTL DEF Spec

\* No piece exceeds its field, and a text loses only what Trim takes off the
\* ends of its pieces and what is behind two fields or cut by policy.
THEOREM TextKeptHolds == Spec => []TextKept
<1>1. RowsFit => TextKept
  BY DEF RowsFit, Fits, TextKept, Positions, Beyond
<1>2. IInv => TextKept
  BY <1>1 DEF IInv
<1> QED
  BY InitIInv, NextIInv, <1>2, PTL DEF Spec
=============================================================================
