------------------------ MODULE RedoAssignLoopProofs ------------------------
(***************************************************************************)
(* Facts about the distribution of RedoAssign, and that the loops compute  *)
(* it, for every number of children and slots, every batch and every set   *)
(* of idle children.                                                       *)
(***************************************************************************)
EXTENDS RedoAssignLoop, FiniteSetTheorems, TLAPS

-----------------------------------------------------------------------------
(* How the parent distributes a batch.                                     *)

\* A member of a finite set of numbers has less smaller ones than there are
\* members, and more than each of those.
LEMMA BelowGrows ==
    ASSUME NEW S \in SUBSET Nat, IsFiniteSet(S), NEW x \in S
    PROVE  /\ Below(S, x) \in 0 .. Cardinality(S) - 1
           /\ \A y \in S : y < x => Below(S, y) < Below(S, x)
<1> DEFINE T(z) == {y \in S : y < z}
<1>1. ASSUME NEW z \in S
      PROVE  /\ IsFiniteSet(T(z)) /\ Cardinality(T(z)) \in Nat
             /\ IsFiniteSet(T(z) \cup {z})
             /\ Cardinality(T(z) \cup {z}) = Cardinality(T(z)) + 1
  <2>1. T(z) \in SUBSET S /\ z \notin T(z)
    OBVIOUS
  <2>2. IsFiniteSet(T(z)) /\ Cardinality(T(z)) \in Nat
    BY <2>1, FS_Subset, FS_CardinalityType
  <2> QED
    BY <2>1, <2>2, FS_AddElement
<1>2. Cardinality(T(x) \cup {x}) <= Cardinality(S)
  <2>1. T(x) \cup {x} \in SUBSET S
    OBVIOUS
  <2> QED
    BY <2>1, FS_Subset
<1>3. ASSUME NEW y \in S, y < x
      PROVE  Cardinality(T(y) \cup {y}) <= Cardinality(T(x))
  <2>1. ASSUME NEW z \in T(y) \cup {y} PROVE z \in S /\ z < x
    <3>1. z \in Nat /\ y \in Nat /\ x \in Nat /\ (z < y \/ z = y)
      OBVIOUS
    <3> QED
      BY <1>3, <3>1
  <2>2. T(y) \cup {y} \in SUBSET T(x)
    BY <2>1
  <2> QED
    BY <2>2, <1>1, FS_Subset
<1>4. Cardinality(S) \in Nat
  BY FS_CardinalityType
<1> DEFINE c(z) == Cardinality(T(z))  d(z) == Cardinality(T(z) \cup {z})
<1>5. \A z \in S : c(z) \in Nat /\ d(z) = c(z) + 1
  BY <1>1
<1>6. d(x) <= Cardinality(S) /\ \A y \in S : y < x => d(y) <= c(x)
  BY <1>2, <1>3
<1>7. \A z \in S : Below(S, z) = c(z)
  BY DEF Below
<1> HIDE DEF c, d, T
<1> QED
  BY <1>4, <1>5, <1>6, <1>7

\* For each number below its size a finite set of numbers has exactly one
\* member with that many smaller ones.
LEMMA NthMember ==
    ASSUME NEW S \in SUBSET Nat, IsFiniteSet(S),
           NEW n \in 0 .. Cardinality(S) - 1
    PROVE  /\ \E x \in S : Below(S, x) = n
           /\ \A x, y \in S : Below(S, x) = Below(S, y) => x = y
<1> DEFINE c == Cardinality(S)
           f == [x \in S |-> Below(S, x)]
<1>1. c \in Nat
  BY FS_CardinalityType
<1>2. \A x \in S : Below(S, x) \in 0 .. c - 1
  BY BelowGrows
<1>3. \A x, y \in S : Below(S, x) = Below(S, y) => x = y
  <2> SUFFICES ASSUME NEW x \in S, NEW y \in S, x # y
               PROVE  Below(S, x) # Below(S, y)
    OBVIOUS
  <2>1. x < y \/ y < x
    OBVIOUS
  <2>2. Below(S, x) \in Int /\ Below(S, y) \in Int
    BY <1>1, <1>2
  <2> QED
    BY <2>1, <2>2, BelowGrows
<1>4. f \in Injection(S, 0 .. c - 1)
  BY <1>2, <1>3 DEF Injection, IsInjective
<1>5. IsFiniteSet(0 .. c - 1) /\ Cardinality(0 .. c - 1) = c
  BY <1>1, FS_Interval
<1>6. f \in Surjection(S, 0 .. c - 1)
  BY <1>4, <1>5, FS_Injection
<1> QED
  BY <1>3, <1>6 DEF Surjection

\* The n-th idle child is an idle child, and no other number names it.
LEMMA IdleChildNamed ==
    ASSUME NEW S \in SUBSET Proc,
           NEW m \in 0 .. Cardinality(S) - 1, NEW n \in 0 .. Cardinality(S) - 1
    PROVE  /\ IdleChild(S, n) \in S /\ Below(S, IdleChild(S, n)) = n
           /\ IdleChild(S, m) = IdleChild(S, n) => m = n
<1>1. S \in SUBSET Nat /\ IsFiniteSet(S)
  <2>1. IsFiniteSet(Proc) /\ Proc \subseteq Nat
    BY RedoAssumption, FS_Interval DEF Proc
  <2> QED
    BY <2>1, FS_Subset
<1>2. ASSUME NEW i \in 0 .. Cardinality(S) - 1
      PROVE  IdleChild(S, i) \in S /\ Below(S, IdleChild(S, i)) = i
  <2>1. \E k \in S : Below(S, k) = i
    BY <1>1, NthMember
  <2> QED
    BY <2>1 DEF IdleChild
<1> QED
  BY <1>2

\* The records of one number are counted one by one from 0 in the order of
\* the batch; a record without a number is counted 0.
LEMMA Ranks ==
    ASSUME NEW n \in Nat, NEW b, DOMAIN b = 1 .. n, NEW i \in 1 .. n
    PROVE  /\ Rank(b, i) \in Nat
           /\ b[i] = NoPhone => Rank(b, i) = 0
           /\ \A j \in 1 .. n : SameNumber(b, i, j) =>
                  /\ j < i => Rank(b, j) < Rank(b, i)
                  /\ Rank(b, j) = Rank(b, i) => j = i
           /\ b[i] # NoPhone => \A r \in 0 .. Rank(b, i) :
                  \E j \in 1 .. n : SameNumber(b, i, j) /\ Rank(b, j) = r
<1> DEFINE W == {j \in 1 .. n : SameNumber(b, i, j)}
<1>1. W \in SUBSET Nat /\ IsFiniteSet(W)
  <2>1. W \in SUBSET (1 .. n) /\ IsFiniteSet(1 .. n)
    BY FS_Interval
  <2>2. 1 .. n \subseteq Nat
    OBVIOUS
  <2> QED
    BY <2>1, <2>2, FS_Subset
<1>2. CASE b[i] = NoPhone
  <2>1. {j \in 1 .. i - 1 : SameNumber(b, i, j)} = {}
    BY <1>2 DEF SameNumber
  <2>2. Rank(b, i) = 0
    BY <2>1, FS_EmptySet DEF Rank
  <2> QED
    BY <1>2, <2>2 DEF SameNumber
<1>3. CASE b[i] # NoPhone
  <2>1. i \in W
    BY <1>3 DEF SameNumber
  <2>2. ASSUME NEW j \in W PROVE Rank(b, j) = Below(W, j)
    <3>1. {k \in 1 .. j - 1 : SameNumber(b, j, k)} = {k \in W : k < j}
      BY <1>3 DEF SameNumber
    <3> QED
      BY <3>1 DEF Rank, Below
  <2>3. \A j \in W : Below(W, j) \in 0 .. Cardinality(W) - 1
    BY <1>1, BelowGrows
  <2>4. \A j \in W : j < i => Below(W, j) < Below(W, i)
    BY <1>1, <2>1, BelowGrows
  <2>5. Cardinality(W) \in Nat
    BY <1>1, FS_CardinalityType
  <2>6. ASSUME NEW r \in 0 .. Below(W, i)
        PROVE  /\ \E j \in W : Below(W, j) = r
               /\ \A j \in W : Below(W, j) = Below(W, i) => j = i
    <3>1. r \in 0 .. Cardinality(W) - 1
      BY <2>1, <2>3, <2>5
    <3>2. \E j \in W : Below(W, j) = r
      BY <1>1, <3>1, NthMember
    <3>3. \A j \in W : Below(W, j) = Below(W, i) => j = i
      BY <1>1, <2>1, <3>1, NthMember
    <3> QED
      BY <3>2, <3>3
  <2>7. Below(W, i) \in Nat
    BY <2>1, <2>3, <2>5
  <2>8. 0 \in 0 .. Below(W, i)
    BY <2>7
  <2>9. \A j \in W : Below(W, j) = Below(W, i) => j = i
    BY <2>6, <2>8
  <2>10. \A r \in 0 .. Below(W, i) : \E j \in W : Below(W, j) = r
    BY <2>6
  <2>11. /\ Rank(b, i) = Below(W, i)
         /\ \A j \in 1 .. n : SameNumber(b, i, j) =>
                j \in W /\ Rank(b, j) = Below(W, j)
         /\ \A j \in W : SameNumber(b, i, j) /\ j \in 1 .. n
    BY <2>1, <2>2
  <2> HIDE DEF W
  <2> QED
    BY <1>3, <2>2, <2>4, <2>7, <2>9, <2>10, <2>11
<1> QED
  BY <1>2, <1>3

\* Quotient and remainder.
LEMMA Division ==
    ASSUME NEW c \in Nat \ {0}, NEW q \in Nat
    PROVE  /\ c * q \in Nat /\ (c * q) % c = 0
           /\ \A s \in 0 .. c - 1 :
                  /\ (c * q + s) % c = s
                  /\ (c * q + s) \div c = q
<1>1. c * q \in Nat
  OBVIOUS
<1>2. \A s \in 0 .. c - 1 : (c * q + s) % c = s /\ (c * q + s) \div c = q
  OBVIOUS
<1>3. 0 \in 0 .. c - 1
  OBVIOUS
<1>4. (c * q + 0) % c = 0 /\ c * q + 0 = c * q
  BY <1>1, <1>2, <1>3
<1> QED
  BY <1>1, <1>2, <1>4

\* What the CHOOSE of LeaderOf looks for.
Leads(b, l, i) ==
    \/ l = i
    \/ SameNumber(b, l, i) /\ Rank(b, l) = Rank(b, i) - SlotOf(b, i)

\* The slot is what is left of the rank after whole groups.
LEMMA Slots ==
    ASSUME NEW n \in Nat, NEW b, DOMAIN b = 1 .. n, NEW i \in 1 .. n
    PROVE  /\ SlotOf(b, i) \in Slot /\ SlotOf(b, i) <= Rank(b, i)
           /\ Rank(b, i) \div RedoCount \in Nat
           /\ Rank(b, i) - SlotOf(b, i)
                  = RedoCount * (Rank(b, i) \div RedoCount)
<1> DEFINE r == Rank(b, i)
<1>1. r \in Nat
  BY Ranks
<1> HIDE DEF r
<1>2. RedoCount \in Nat \ {0}
  BY RedoAssumption
<1>3. r % RedoCount \in 0 .. RedoCount - 1 /\ r \div RedoCount \in Nat
  BY <1>1, <1>2
<1>4. r = (RedoCount * (r \div RedoCount)) + (r % RedoCount)
  BY <1>1, <1>2
<1>5. RedoCount * (r \div RedoCount) \in Nat
  BY <1>2, <1>3
<1>6. /\ r - (r % RedoCount) = RedoCount * (r \div RedoCount)
      /\ r % RedoCount <= r
  BY <1>1, <1>2, <1>3, <1>4, <1>5
<1> QED
  BY <1>3, <1>6 DEF r, SlotOf, Slot

\* Every record has one leader: itself, or the record of its number whose
\* rank is a multiple of RedoCount less than RedoCount away.
LEMMA LeaderNamed ==
    ASSUME NEW n \in Nat, NEW b, DOMAIN b = 1 .. n, NEW i \in 1 .. n
    PROVE  /\ LeaderOf(b, i) \in Leaders(b) /\ Leads(b, LeaderOf(b, i), i)
           /\ \A l \in Leaders(b) : Leads(b, l, i) => l = LeaderOf(b, i)
<1>1. \E l \in Leaders(b) : Leads(b, l, i)
  <2>1. CASE SlotOf(b, i) = 0
    <3>1. i \in Leaders(b)
      BY <2>1 DEF Leaders
    <3> QED
      BY <3>1 DEF Leads
  <2>2. CASE SlotOf(b, i) # 0
    <3> DEFINE q == Rank(b, i) \div RedoCount
    <3>1. q \in Nat /\ RedoCount * q = Rank(b, i) - SlotOf(b, i)
          /\ SlotOf(b, i) \in Nat /\ Rank(b, i) \in Nat
          /\ SlotOf(b, i) <= Rank(b, i)
      BY Slots, Ranks DEF Slot
    <3>2. b[i] # NoPhone
      BY <2>2, <3>1, Ranks
    <3>6. RedoCount * q \in 0 .. Rank(b, i)
      BY <3>1
    <3>3. PICK l \in 1 .. n : SameNumber(b, i, l) /\ Rank(b, l) = RedoCount * q
      BY <3>6, <3>2, Ranks
    <3>4. (RedoCount * q) % RedoCount = 0
      <4>1. RedoCount \in Nat \ {0}
        BY RedoAssumption
      <4> HIDE DEF q
      <4> QED
        BY <3>1, <4>1, Division
    <3>5. l \in Leaders(b)
      BY <3>3, <3>4 DEF Leaders, SlotOf
    <3> QED
      BY <3>1, <3>3, <3>5 DEF Leads, SameNumber
  <2> QED
    BY <2>1, <2>2
<1>2. ASSUME NEW l \in Leaders(b), NEW m \in Leaders(b),
             Leads(b, l, i), Leads(b, m, i)
      PROVE  l = m
  <2>1. l \in 1 .. n /\ m \in 1 .. n
    BY DEF Leaders
  <2>2. ASSUME NEW k \in 1 .. n, Leads(b, k, i), k # i, SlotOf(b, i) = 0
        PROVE  FALSE
    <3>1. SameNumber(b, i, k) /\ Rank(b, k) = Rank(b, i)
      BY <2>2, Ranks DEF Leads, SameNumber
    <3> QED
      BY <2>2, <3>1, Ranks
  <2>3. CASE l = i \/ m = i
    <3>1. SlotOf(b, i) = 0
      BY <1>2, <2>3 DEF Leads, Leaders
    <3> QED
      BY <1>2, <2>1, <2>2, <3>1
  <2>4. CASE l # i /\ m # i
    <3>1. SameNumber(b, l, m) /\ Rank(b, m) = Rank(b, l)
      BY <1>2, <2>4 DEF Leads, SameNumber
    <3> QED
      BY <2>1, <3>1, Ranks
  <2> QED
    BY <2>3, <2>4
<1>3. LeaderOf(b, i) = CHOOSE l \in Leaders(b) : Leads(b, l, i)
  BY DEF LeaderOf, Leads
<1>4. LeaderOf(b, i) \in Leaders(b) /\ Leads(b, LeaderOf(b, i), i)
  BY <1>1, <1>3
<1> QED
  BY <1>2, <1>4

\* Two records of one leader have one number, in different slots.
LEMMA GroupMates ==
    ASSUME NEW n \in Nat, NEW b, DOMAIN b = 1 .. n,
           NEW i \in 1 .. n, NEW j \in 1 .. n,
           LeaderOf(b, i) = LeaderOf(b, j)
    PROVE  /\ b[i] = b[j]
           /\ i # j => /\ SameNumber(b, i, j)
                       /\ SlotOf(b, i) # SlotOf(b, j)
                       /\ SlotOf(b, i) < SlotOf(b, j) <=> i < j
<1> DEFINE l == LeaderOf(b, i)
<1>1. /\ l \in Leaders(b) /\ l \in 1 .. n
      /\ Leads(b, l, i) /\ Leads(b, l, j)
  BY LeaderNamed DEF Leaders
<1>2. b[i] = b[j] /\ (i # j => SameNumber(b, i, j))
  BY <1>1 DEF Leads, SameNumber
<1>3. /\ SlotOf(b, l) = 0
      /\ \A k \in {i, j, l} : Rank(b, k) \in Nat /\ SlotOf(b, k) \in Nat
  BY <1>1, Ranks, Slots DEF Leaders, Slot
<1>4. ASSUME NEW k \in {i, j}
      PROVE  Rank(b, k) - SlotOf(b, k) = Rank(b, l)
  BY <1>1, <1>3, <1>4 DEF Leads
<1>5. ASSUME i # j
      PROVE  SlotOf(b, i) # SlotOf(b, j) /\ (SlotOf(b, i) < SlotOf(b, j) <=> i < j)
  <2>1. SameNumber(b, i, j) /\ SameNumber(b, j, i)
    BY <1>2, <1>5 DEF SameNumber
  <2>2. /\ i < j => Rank(b, i) < Rank(b, j)
        /\ j < i => Rank(b, j) < Rank(b, i)
        /\ Rank(b, i) # Rank(b, j)
    BY <1>5, <2>1, Ranks
  <2>3. /\ Rank(b, i) - SlotOf(b, i) = Rank(b, l)
        /\ Rank(b, j) - SlotOf(b, j) = Rank(b, l)
        /\ Rank(b, i) \in Nat /\ SlotOf(b, i) \in Nat
        /\ Rank(b, j) \in Nat /\ SlotOf(b, j) \in Nat
        /\ Rank(b, l) \in Nat
    BY <1>3, <1>4
  <2> QED
    BY <1>5, <2>2, <2>3
<1> QED
  BY <1>2, <1>5

\* Records of one number whose ranks lie between the same multiples of
\* RedoCount have one leader.
LEMMA GroupJoined ==
    ASSUME NEW n \in Nat, NEW b, DOMAIN b = 1 .. n,
           NEW i \in 1 .. n, NEW j \in 1 .. n, SameNumber(b, i, j),
           Rank(b, i) \div RedoCount = Rank(b, j) \div RedoCount
    PROVE  LeaderOf(b, i) = LeaderOf(b, j)
<1> DEFINE l == LeaderOf(b, i)
<1>1. l \in Leaders(b) /\ l \in 1 .. n /\ Leads(b, l, i)
  BY LeaderNamed DEF Leaders
<1>2. Rank(b, i) - SlotOf(b, i) = Rank(b, j) - SlotOf(b, j)
  BY Slots
<1>3. l = i => Rank(b, l) = Rank(b, i) - SlotOf(b, i)
  BY <1>1, Ranks DEF Leaders
<1>4. SameNumber(b, l, j) /\ Rank(b, l) = Rank(b, j) - SlotOf(b, j)
  BY <1>1, <1>2, <1>3 DEF Leads, SameNumber
<1>5. Leads(b, l, j)
  BY <1>4 DEF Leads
<1> QED
  BY <1>1, <1>5, LeaderNamed

\* The slots of a group are filled without a gap from slot 0 on.
LEMMA GroupFilled ==
    ASSUME NEW n \in Nat, NEW b, DOMAIN b = 1 .. n,
           NEW i \in 1 .. n, NEW s \in Nat, s < SlotOf(b, i)
    PROVE  \E j \in 1 .. n : LeaderOf(b, j) = LeaderOf(b, i) /\ SlotOf(b, j) = s
<1> DEFINE q == Rank(b, i) \div RedoCount
<1>1. /\ q \in Nat /\ SlotOf(b, i) \in Slot /\ Rank(b, i) \in Nat
      /\ Rank(b, i) - SlotOf(b, i) = RedoCount * q
  BY Ranks, Slots
<1>2. RedoCount \in Nat \ {0} /\ s \in 0 .. RedoCount - 1
  BY <1>1, RedoAssumption DEF Slot
<1>3. RedoCount * q + s \in 0 .. Rank(b, i)
  <2> HIDE DEF q
  <2>1. RedoCount * q \in Nat
    BY <1>1, <1>2, Division
  <2> QED
    BY <1>1, <2>1 DEF Slot
<1>4. b[i] # NoPhone
  <2>1. SlotOf(b, i) \in Nat /\ SlotOf(b, i) # 0 /\ SlotOf(b, i) <= Rank(b, i)
    BY <1>1, Slots DEF Slot
  <2> QED
    BY <2>1, Ranks
<1>5. PICK j \in 1 .. n : SameNumber(b, i, j) /\ Rank(b, j) = RedoCount * q + s
  BY <1>3, <1>4, Ranks
<1>6. Rank(b, j) % RedoCount = s /\ Rank(b, j) \div RedoCount = q
  <2> HIDE DEF q
  <2> QED
    BY <1>1, <1>2, <1>5, Division
<1>7. LeaderOf(b, i) = LeaderOf(b, j)
  BY <1>5, <1>6, GroupJoined
<1> QED
  BY <1>6, <1>7 DEF SlotOf

\* Every group gets a turn of its own, less than the number of groups.
LEMMA TurnNamed ==
    ASSUME NEW n \in Nat, NEW b, DOMAIN b = 1 .. n, NEW l \in Leaders(b)
    PROVE  /\ Turn(b, l) \in 0 .. n - 1
           /\ \A m \in Leaders(b) : Turn(b, m) = Turn(b, l) => m = l
<1> DEFINE A(k) == {m \in Leaders(b) : Earlier(b, m, k)}
<1>1. /\ Leaders(b) \subseteq 1 .. n /\ IsFiniteSet(1 .. n)
      /\ Cardinality(1 .. n) = n
  BY FS_Interval DEF Leaders
<1>2. ASSUME NEW k \in Leaders(b)
      PROVE  /\ IsFiniteSet(A(k)) /\ Cardinality(A(k)) \in Nat
             /\ IsFiniteSet(A(k) \cup {k})
             /\ Cardinality(A(k) \cup {k}) = Cardinality(A(k)) + 1
             /\ Cardinality(A(k) \cup {k}) <= n
  <2>1. A(k) \in SUBSET (1 .. n) /\ k \in 1 .. n /\ k \notin A(k)
    BY <1>1 DEF Earlier
  <2>2. IsFiniteSet(A(k)) /\ Cardinality(A(k)) \in Nat
    BY <1>1, <2>1, FS_Subset, FS_CardinalityType
  <2>3. A(k) \cup {k} \in SUBSET (1 .. n)
    BY <2>1
  <2>4. Cardinality(A(k) \cup {k}) <= n
    BY <1>1, <2>3, FS_Subset
  <2>5. /\ IsFiniteSet(A(k) \cup {k})
        /\ Cardinality(A(k) \cup {k}) = Cardinality(A(k)) + 1
    BY <2>1, <2>2, FS_AddElement
  <2> QED
    BY <2>2, <2>4, <2>5
<1>3. ASSUME NEW k \in Leaders(b), NEW m \in Leaders(b), Earlier(b, k, m)
      PROVE  Cardinality(A(k) \cup {k}) <= Cardinality(A(m))
  <2>1. ASSUME NEW h \in A(k) PROVE h \in A(m)
    <3>1. h \in 1 .. n /\ k \in 1 .. n /\ m \in 1 .. n
      BY <1>1
    <3>2. Shared(b, h) \in BOOLEAN /\ Shared(b, k) \in BOOLEAN
          /\ Shared(b, m) \in BOOLEAN
      BY DEF Shared
    <3> QED
      BY <1>3, <3>1, <3>2 DEF Earlier
  <2>2. A(k) \cup {k} \in SUBSET A(m)
    BY <1>3, <2>1
  <2> QED
    BY <2>2, <1>2, FS_Subset
<1>4. ASSUME NEW k \in Leaders(b), NEW m \in Leaders(b), k # m
      PROVE  Earlier(b, k, m) \/ Earlier(b, m, k)
  <2>1. k \in 1 .. n /\ m \in 1 .. n
    BY <1>1
  <2>2. Shared(b, k) \in BOOLEAN /\ Shared(b, m) \in BOOLEAN
    BY DEF Shared
  <2> QED
    BY <1>4, <2>1, <2>2 DEF Earlier
<1> DEFINE c(k) == Cardinality(A(k))  d(k) == Cardinality(A(k) \cup {k})
<1>5. \A k \in Leaders(b) : c(k) \in Nat /\ d(k) = c(k) + 1 /\ d(k) <= n
  BY <1>2
<1>6. \A k, m \in Leaders(b) : Earlier(b, k, m) => d(k) <= c(m)
  BY <1>3
<1>7. \A k \in Leaders(b) : Turn(b, k) = c(k)
  BY DEF Turn
<1> HIDE DEF c, d, A
<1>8. ASSUME NEW m \in Leaders(b), m # l PROVE c(m) # c(l)
  BY <1>4, <1>5, <1>6, <1>8
<1> QED
  BY <1>5, <1>7, <1>8

\* What the rest of the proofs knows of the distribution: with enough idle
\* children every record has a child and a slot of its own; the slots of a
\* child hold records of one number, in their order and without a gap.
LEMMA Targets ==
    ASSUME NEW n \in Nat, NEW b, DOMAIN b = 1 .. n,
           NEW S \in SUBSET Proc, n <= Cardinality(S)
    PROVE  LET t == ProcessNo(b, S) IN
           /\ \A i \in 1 .. n :
                  /\ t[i].proc \in S /\ t[i].slot \in Slot
                  /\ \A s \in Slot : s < t[i].slot =>
                         \E j \in 1 .. n : t[j].proc = t[i].proc /\ t[j].slot = s
           /\ \A i, j \in 1 .. n : t[i].proc = t[j].proc =>
                  /\ b[i] = b[j]
                  /\ i # j => t[i].slot # t[j].slot
                  /\ t[i].slot < t[j].slot <=> i < j
           /\ \A i, j \in 1 .. n :
                  /\ SameNumber(b, i, j)
                  /\ Rank(b, i) \div RedoCount = Rank(b, j) \div RedoCount
                  => t[i].proc = t[j].proc
<1> DEFINE t == ProcessNo(b, S)
           l(i) == LeaderOf(b, i)
<1>1. ASSUME NEW i \in 1 .. n
      PROVE  /\ t[i].proc = IdleChild(S, Turn(b, l(i)))
             /\ t[i].slot = SlotOf(b, i)
  BY DEF ProcessNo
<1>2. ASSUME NEW i \in 1 .. n
      PROVE  l(i) \in Leaders(b) /\ Turn(b, l(i)) \in 0 .. Cardinality(S) - 1
  <2>1. l(i) \in Leaders(b)
    BY LeaderNamed
  <2>2. Turn(b, l(i)) \in 0 .. n - 1
    BY <2>1, TurnNamed
  <2>3. Cardinality(S) \in Nat
    <3>1. IsFiniteSet(Proc)
      BY RedoAssumption, FS_Interval DEF Proc
    <3> QED
      BY <3>1, FS_Subset, FS_CardinalityType
  <2> QED
    BY <2>1, <2>2, <2>3
<1>3. \A i \in 1 .. n : t[i].proc \in S /\ t[i].slot \in Slot
  BY <1>1, <1>2, IdleChildNamed, Slots
<1>4. ASSUME NEW i \in 1 .. n, NEW j \in 1 .. n
      PROVE  t[i].proc = t[j].proc <=> l(i) = l(j)
  <2>1. t[i].proc = t[j].proc => Turn(b, l(i)) = Turn(b, l(j))
    BY <1>1, <1>2, IdleChildNamed
  <2>2. Turn(b, l(i)) = Turn(b, l(j)) => l(i) = l(j)
    BY <1>2, TurnNamed
  <2> QED
    BY <1>1, <2>1, <2>2
<1>5. ASSUME NEW i \in 1 .. n, NEW s \in Slot, s < t[i].slot
      PROVE  \E j \in 1 .. n : t[j].proc = t[i].proc /\ t[j].slot = s
  <2>1. s \in Nat /\ s < SlotOf(b, i)
    BY <1>1, <1>5 DEF Slot
  <2>2. PICK j \in 1 .. n : l(j) = l(i) /\ SlotOf(b, j) = s
    BY <2>1, GroupFilled
  <2> QED
    BY <1>1, <1>4, <2>2
<1>6. ASSUME NEW i \in 1 .. n, NEW j \in 1 .. n, t[i].proc = t[j].proc
      PROVE  /\ b[i] = b[j]
             /\ i # j => t[i].slot # t[j].slot
             /\ t[i].slot < t[j].slot <=> i < j
  <2>1. l(i) = l(j)
    BY <1>4, <1>6
  <2>2. CASE i = j
    <3>1. t[i].slot \in Nat
      BY <1>3 DEF Slot
    <3> QED
      BY <2>2, <3>1
  <2>3. CASE i # j
    BY <2>1, <2>3, <1>1, GroupMates
  <2> QED
    BY <2>2, <2>3
<1>7. ASSUME NEW i \in 1 .. n, NEW j \in 1 .. n, SameNumber(b, i, j),
             Rank(b, i) \div RedoCount = Rank(b, j) \div RedoCount
      PROVE  t[i].proc = t[j].proc
  BY <1>4, <1>7, GroupJoined
<1> HIDE DEF t
<1>8. /\ \A i \in 1 .. n :
             /\ t[i].proc \in S /\ t[i].slot \in Slot
             /\ \A s \in Slot : s < t[i].slot =>
                    \E j \in 1 .. n : t[j].proc = t[i].proc /\ t[j].slot = s
      /\ \A i, j \in 1 .. n : t[i].proc = t[j].proc =>
             /\ b[i] = b[j]
             /\ i # j => t[i].slot # t[j].slot
             /\ t[i].slot < t[j].slot <=> i < j
      /\ \A i, j \in 1 .. n :
             /\ SameNumber(b, i, j)
             /\ Rank(b, i) \div RedoCount = Rank(b, j) \div RedoCount
             => t[i].proc = t[j].proc
  BY <1>3, <1>5, <1>6, <1>7
<1> QED
  BY <1>8 DEF t

-----------------------------------------------------------------------------
(* What the loops compute from.                                            *)

\* The lowest marked child is the next idle child, as long as the children
\* with a mark are the idle children from a place on.
LEMMA NextIdle ==
    ASSUME NEW S \in SUBSET Proc, NEW t \in 0 .. Cardinality(S) - 1
    PROVE  /\ IdleChild(S, t) \in IdleFrom(S, t)
           /\ Lowest(IdleFrom(S, t)) = IdleChild(S, t)
           /\ IdleFrom(S, t) \ {IdleChild(S, t)} = IdleFrom(S, t + 1)
<1>1. S \in SUBSET Nat /\ IsFiniteSet(S)
  <2>1. IsFiniteSet(Proc) /\ Proc \subseteq Nat
    BY RedoAssumption, FS_Interval DEF Proc
  <2> QED
    BY <2>1, FS_Subset
<1> DEFINE x == IdleChild(S, t)
<1>2. x \in S /\ Below(S, x) = t
  BY IdleChildNamed
<1>3. Cardinality(S) \in Nat /\ t \in Nat
  BY <1>1, FS_CardinalityType
<1>4. \A k \in S : Below(S, k) \in Nat /\ (Below(S, k) = t => k = x)
  <2>1. \A k \in S : Below(S, k) \in 0 .. Cardinality(S) - 1
    BY <1>1, BelowGrows
  <2>2. \A k, y \in S : Below(S, k) = Below(S, y) => k = y
    BY <1>1, NthMember
  <2> QED
    BY <1>2, <1>3, <2>1, <2>2
<1>5. \A k \in S : k < x => Below(S, k) < t
  BY <1>1, <1>2, BelowGrows
<1> HIDE DEF x
<1>6. x \in IdleFrom(S, t)
  BY <1>2, <1>3 DEF IdleFrom
<1>7. \A k \in IdleFrom(S, t) : x <= k
  BY <1>1, <1>2, <1>3, <1>4, <1>5 DEF IdleFrom
<1>8. \A k \in IdleFrom(S, t) : (\A y \in IdleFrom(S, t) : k <= y) => k = x
  <2>1. \A k \in IdleFrom(S, t) : k \in Nat
    BY <1>1 DEF IdleFrom
  <2> QED
    BY <1>6, <1>7, <2>1
<1>9. Lowest(IdleFrom(S, t)) = x
  BY <1>6, <1>7, <1>8 DEF Lowest
<1>10. IdleFrom(S, t) \ {x} = IdleFrom(S, t + 1)
  <2>1. ASSUME NEW k \in S
        PROVE  Below(S, k) >= t /\ k # x <=> Below(S, k) >= t + 1
    BY <1>2, <1>3, <1>4
  <2> QED
    BY <2>1 DEF IdleFrom
<1> QED
  BY <1>6, <1>9, <1>10 DEF x

\* Before the first group all idle children are left.
LEMMA AllIdle ==
    ASSUME NEW S \in SUBSET Proc
    PROVE  IdleFrom(S, 0) = S
<1>1. S \in SUBSET Nat /\ IsFiniteSet(S) /\ Cardinality(S) \in Nat
  <2>1. IsFiniteSet(Proc) /\ Proc \subseteq Nat
    BY RedoAssumption, FS_Interval DEF Proc
  <2> QED
    BY <2>1, FS_Subset, FS_CardinalityType
<1>2. \A k \in S : Below(S, k) \in 0 .. Cardinality(S) - 1
  BY <1>1, BelowGrows
<1> QED
  <2>1. \A k \in S : Below(S, k) >= 0
    BY <1>1, <1>2
  <2> QED
    BY <2>1 DEF IdleFrom

\* A leader comes first among its records, leads itself and shares its child
\* with every other record it leads.
LEMMA LeaderFirst ==
    ASSUME NEW n \in Nat, NEW b, DOMAIN b = 1 .. n, NEW i \in 1 .. n
    PROVE  /\ LeaderOf(b, i) \in Leaders(b) /\ LeaderOf(b, i) \in 1 .. i
           /\ i \in Leaders(b) => LeaderOf(b, i) = i
           /\ LeaderOf(b, i) # i => /\ SameNumber(b, LeaderOf(b, i), i)
                                    /\ Shared(b, LeaderOf(b, i))
<1> DEFINE l == LeaderOf(b, i)
<1>1. l \in Leaders(b) /\ l \in 1 .. n /\ Leads(b, l, i)
  BY LeaderNamed DEF Leaders
<1>2. i \in Leaders(b) => l = i
  BY LeaderNamed DEF Leads
<1>3. ASSUME l # i PROVE SameNumber(b, l, i) /\ Shared(b, l)
  BY <1>1, <1>3 DEF Leads, Shared
<1>4. l <= i
  <2> SUFFICES ASSUME l > i PROVE FALSE
    BY <1>1
  <2>1. SameNumber(b, l, i) /\ Rank(b, l) = Rank(b, i) - SlotOf(b, i)
    BY <1>1 DEF Leads
  <2>2. Rank(b, i) < Rank(b, l)
    BY <1>1, <2>1, Ranks
  <2>3. Rank(b, i) \in Nat /\ SlotOf(b, i) \in Nat
    BY Ranks, Slots DEF Slot
  <2> QED
    BY <2>1, <2>2, <2>3
<1> HIDE DEF l
<1> QED
  BY <1>1, <1>2, <1>3, <1>4 DEF l

\* From record i on, ranks count the records in between.
LEMMA RankFrom ==
    ASSUME NEW n \in Nat, NEW b, DOMAIN b = 1 .. n, NEW i \in 1 .. n,
           NEW j \in 1 .. n, i < j, SameNumber(b, i, j)
    PROVE  /\ Cardinality(Between(b, i, j)) \in Nat
           /\ Rank(b, j) = Rank(b, i) + 1 + Cardinality(Between(b, i, j))
<1> DEFINE A == {m \in 1 .. j - 1 : SameNumber(b, j, m)}
           B == {m \in 1 .. i - 1 : SameNumber(b, i, m)}
           C == Between(b, i, j)
<1>1. IsFiniteSet(B) /\ IsFiniteSet(C)
  <2>1. IsFiniteSet(1 .. i - 1) /\ IsFiniteSet(i + 1 .. j - 1)
    <3>1. 1 \in Int /\ i - 1 \in Int /\ i + 1 \in Int /\ j - 1 \in Int
      OBVIOUS
    <3> QED
      BY <3>1, FS_Interval
  <2>2. B \subseteq 1 .. i - 1 /\ C \subseteq i + 1 .. j - 1
    BY DEF Between
  <2> QED
    BY <2>1, <2>2, FS_Subset
<1>2. i \notin B /\ (B \cup {i}) \cap C = {}
  BY DEF Between
<1>3. A = (B \cup {i}) \cup C
  <2>1. ASSUME NEW m \in 1 .. j - 1
        PROVE  m \in 1 .. i - 1 \/ m = i \/ m \in i + 1 .. j - 1
    OBVIOUS
  <2>2. \A m : SameNumber(b, j, m) <=> SameNumber(b, i, m)
    BY DEF SameNumber
  <2>3. SameNumber(b, i, i)
    BY DEF SameNumber
  <2>4. 1 .. i - 1 \subseteq 1 .. j - 1 /\ i \in 1 .. j - 1
        /\ i + 1 .. j - 1 \subseteq 1 .. j - 1
    OBVIOUS
  <2> QED
    BY <2>1, <2>2, <2>3, <2>4 DEF Between
<1> HIDE DEF A, B, C
<1>4. IsFiniteSet(B \cup {i}) /\ Cardinality(B \cup {i}) = Cardinality(B) + 1
  BY <1>1, <1>2, FS_AddElement
<1>5. Cardinality(A) = Cardinality(B \cup {i}) + Cardinality(C)
                           - Cardinality((B \cup {i}) \cap C)
  BY <1>1, <1>3, <1>4, FS_Union
<1>6. /\ Cardinality((B \cup {i}) \cap C) = 0
      /\ Cardinality(B) \in Nat /\ Cardinality(C) \in Nat
  BY <1>1, <1>2, FS_EmptySet, FS_CardinalityType
<1>7. Cardinality(A) = Cardinality(B) + 1 + Cardinality(C)
  BY <1>4, <1>5, <1>6
<1> QED
  BY <1>6, <1>7 DEF A, B, C, Rank

\* A record with the number of a leader joins its group until the group has
\* RedoCount records; the record after that comes after the whole group.
LEMMA GroupGrows ==
    ASSUME NEW n \in Nat, NEW b, DOMAIN b = 1 .. n, NEW i \in Leaders(b),
           NEW j \in 1 .. n, i < j, SameNumber(b, i, j),
           NEW s \in Nat, s = Cardinality(Between(b, i, j))
    PROVE  /\ s + 1 < RedoCount => SlotOf(b, j) = s + 1 /\ LeaderOf(b, j) = i
           /\ s + 1 = RedoCount =>
                  \A m \in 1 .. n : LeaderOf(b, m) = i => m < j
<1>1. i \in 1 .. n /\ SlotOf(b, i) = 0
  BY DEF Leaders
<1>2. Rank(b, j) = Rank(b, i) + 1 + s
  BY <1>1, RankFrom
<1>3. PICK q \in Nat : Rank(b, i) = RedoCount * q
  <2>1. /\ Rank(b, i) \div RedoCount \in Nat /\ Rank(b, i) \in Nat
        /\ Rank(b, i) - SlotOf(b, i) = RedoCount * (Rank(b, i) \div RedoCount)
    BY <1>1, Slots, Ranks
  <2> QED
    BY <1>1, <2>1
<1>4. RedoCount \in Nat \ {0} /\ RedoCount * q \in Nat
  BY RedoAssumption, Division
<1>5. ASSUME s + 1 < RedoCount PROVE SlotOf(b, j) = s + 1 /\ LeaderOf(b, j) = i
  <2>1. s + 1 \in 0 .. RedoCount - 1 /\ Rank(b, j) = RedoCount * q + (s + 1)
    BY <1>2, <1>3, <1>4, <1>5
  <2>4. (RedoCount * q + (s + 1)) % RedoCount = s + 1
    BY <1>4, <2>1, Division
  <2>2. SlotOf(b, j) = s + 1
    BY <2>1, <2>4 DEF SlotOf
  <2>3. Rank(b, i) = Rank(b, j) - SlotOf(b, j)
    BY <1>2, <1>3, <1>4, <2>2
  <2>5. Leads(b, i, j)
    BY <2>3 DEF Leads
  <2> QED
    BY <2>2, <2>5, LeaderNamed
<1>6. ASSUME s + 1 = RedoCount, NEW m \in 1 .. n, LeaderOf(b, m) = i, m >= j
      PROVE  FALSE
  <2>1. m # i /\ Leads(b, i, m)
    BY <1>1, <1>6, LeaderNamed
  <2>2. SameNumber(b, i, m) /\ Rank(b, i) = Rank(b, m) - SlotOf(b, m)
    BY <2>1 DEF Leads
  <2>3. m = j \/ Rank(b, j) < Rank(b, m)
    <3>1. SameNumber(b, m, j)
      BY <2>2 DEF SameNumber
    <3> QED
      BY <1>6, <3>1, Ranks
  <2>4. Rank(b, m) \in Nat /\ SlotOf(b, m) \in 0 .. RedoCount - 1
    BY Ranks, Slots DEF Slot
  <2> QED
    BY <1>2, <1>3, <1>4, <1>6, <2>2, <2>3, <2>4
<1> QED
  BY <1>1, <1>5, <1>6

\* A later record with the number of a leader belongs to no earlier group.
LEMMA NoEarlierGroup ==
    ASSUME NEW n \in Nat, NEW b, DOMAIN b = 1 .. n, NEW i \in Leaders(b),
           NEW j \in 1 .. n, i < j, SameNumber(b, i, j)
    PROVE  LeaderOf(b, j) >= i
<1> DEFINE l == LeaderOf(b, j)
<1> SUFFICES ASSUME l < i PROVE FALSE
  BY LeaderFirst DEF Leaders
<1>1. i \in 1 .. n /\ l \in 1 .. n /\ l # j /\ SlotOf(b, i) = 0
  BY LeaderFirst DEF Leaders
<1>2. Leads(b, l, j) /\ SlotOf(b, l) = 0
  BY LeaderNamed DEF Leaders
<1>3. SameNumber(b, l, j) /\ Rank(b, l) = Rank(b, j) - SlotOf(b, j)
  BY <1>1, <1>2 DEF Leads
<1>4. Rank(b, l) < Rank(b, i) /\ Rank(b, i) < Rank(b, j)
  <2>1. SameNumber(b, i, l) /\ SameNumber(b, j, i)
    BY <1>3 DEF SameNumber
  <2> QED
    BY <1>1, <2>1, Ranks
<1>5. PICK p \in Nat, q \in Nat :
          Rank(b, l) = RedoCount * p /\ Rank(b, i) = RedoCount * q
  <2>1. ASSUME NEW k \in 1 .. n, SlotOf(b, k) = 0
        PROVE  \E q \in Nat : Rank(b, k) = RedoCount * q
    <3>1. /\ Rank(b, k) \div RedoCount \in Nat /\ Rank(b, k) \in Nat
          /\ Rank(b, k) - SlotOf(b, k)
                 = RedoCount * (Rank(b, k) \div RedoCount)
      BY Slots, Ranks
    <3> QED
      BY <2>1, <3>1
  <2> QED
    BY <1>1, <1>2, <2>1
<1>6. /\ RedoCount \in Nat \ {0} /\ Rank(b, j) \in Nat
      /\ SlotOf(b, j) \in 0 .. RedoCount - 1
  BY RedoAssumption, Ranks, Slots DEF Slot
<1>7. p < q
  BY <1>4, <1>5, <1>6
<1>8. RedoCount * q >= RedoCount * p + RedoCount
  BY <1>6, <1>7
<1>9. RedoCount * p \in Nat /\ RedoCount * q \in Nat
  BY <1>6
<1> QED
  BY <1>3, <1>4, <1>5, <1>6, <1>8, <1>9

\* Groups and singles are counted one by one; the singles come after all
\* groups.
LEMMA Counts ==
    ASSUME NEW n \in Nat, NEW b, DOMAIN b = 1 .. n
    PROVE  /\ GroupsBefore(b, 1) = 0
           /\ TurnsBefore(b, 1) = GroupsBefore(b, n + 1)
           /\ \A i \in 1 .. n :
                  /\ GroupsBefore(b, i + 1) = GroupsBefore(b, i) +
                         IF i \in Leaders(b) /\ Shared(b, i) THEN 1 ELSE 0
                  /\ TurnsBefore(b, i + 1) = TurnsBefore(b, i) +
                         IF i \in Leaders(b) /\ ~Shared(b, i) THEN 1 ELSE 0
<1> DEFINE G(i) == {l \in Leaders(b) : Shared(b, l) /\ l < i}
           T(i) == {l \in Leaders(b) : Shared(b, l) \/ l < i}
<1>1. Leaders(b) \subseteq 1 .. n /\ IsFiniteSet(Leaders(b))
  <2>1. Leaders(b) \subseteq 1 .. n /\ IsFiniteSet(1 .. n)
    BY FS_Interval DEF Leaders
  <2> QED
    BY <2>1, FS_Subset
<1>2. \A i : IsFiniteSet(G(i)) /\ IsFiniteSet(T(i))
             /\ Cardinality(G(i)) \in Nat /\ Cardinality(T(i)) \in Nat
  <2> SUFFICES ASSUME NEW i
               PROVE  IsFiniteSet(G(i)) /\ IsFiniteSet(T(i))
    BY FS_CardinalityType
  <2>1. G(i) \subseteq Leaders(b) /\ T(i) \subseteq Leaders(b)
    OBVIOUS
  <2> QED
    BY <1>1, <2>1, FS_Subset
<1>3. G(1) = {} /\ T(1) = G(n + 1)
  <2>1. \A l \in Leaders(b) : ~(l < 1) /\ l < n + 1
    BY <1>1
  <2> QED
    BY <2>1
<1>4. ASSUME NEW i \in 1 .. n
      PROVE  /\ i \notin G(i)
             /\ G(i + 1) = IF i \in Leaders(b) /\ Shared(b, i)
                           THEN G(i) \cup {i} ELSE G(i)
  <2>1. \A l \in Leaders(b) : l < i + 1 <=> l < i \/ l = i
    BY <1>1
  <2> QED
    BY <2>1
<1>5. ASSUME NEW i \in 1 .. n
      PROVE  /\ ~Shared(b, i) => i \notin T(i)
             /\ T(i + 1) = IF i \in Leaders(b) /\ ~Shared(b, i)
                           THEN T(i) \cup {i} ELSE T(i)
  <2>1. \A l \in Leaders(b) : l < i + 1 <=> l < i \/ l = i
    BY <1>1
  <2> QED
    BY <2>1
<1>6. \A i : GroupsBefore(b, i) = Cardinality(G(i))
             /\ TurnsBefore(b, i) = Cardinality(T(i))
  BY DEF GroupsBefore, TurnsBefore
<1> HIDE DEF G, T
<1>7. GroupsBefore(b, 1) = 0 /\ TurnsBefore(b, 1) = GroupsBefore(b, n + 1)
  BY <1>3, <1>6, FS_EmptySet
<1>8. ASSUME NEW i \in 1 .. n
      PROVE  GroupsBefore(b, i + 1) = GroupsBefore(b, i) +
                 IF i \in Leaders(b) /\ Shared(b, i) THEN 1 ELSE 0
  <2>1. CASE i \in Leaders(b) /\ Shared(b, i)
    <3>1. Cardinality(G(i) \cup {i}) = Cardinality(G(i)) + 1
      BY <1>2, <1>4, FS_AddElement
    <3> QED
      BY <1>4, <1>6, <2>1, <3>1
  <2>2. CASE ~(i \in Leaders(b) /\ Shared(b, i))
    <3>1. GroupsBefore(b, i) \in Nat
      BY <1>2, <1>6
    <3>2. GroupsBefore(b, i + 1) = GroupsBefore(b, i)
      BY <1>4, <1>6, <2>2
    <3> QED
      BY <2>2, <3>1, <3>2
  <2> QED
    BY <2>1, <2>2
<1>9. ASSUME NEW i \in 1 .. n
      PROVE  TurnsBefore(b, i + 1) = TurnsBefore(b, i) +
                 IF i \in Leaders(b) /\ ~Shared(b, i) THEN 1 ELSE 0
  <2>1. CASE i \in Leaders(b) /\ ~Shared(b, i)
    <3>1. Cardinality(T(i) \cup {i}) = Cardinality(T(i)) + 1
      BY <1>2, <1>5, <2>1, FS_AddElement
    <3> QED
      BY <1>5, <1>6, <2>1, <3>1
  <2>2. CASE ~(i \in Leaders(b) /\ ~Shared(b, i))
    <3>1. TurnsBefore(b, i) \in Nat
      BY <1>2, <1>6
    <3>2. TurnsBefore(b, i + 1) = TurnsBefore(b, i)
      BY <1>5, <1>6, <2>2
    <3> QED
      BY <2>2, <3>1, <3>2
  <2> QED
    BY <2>1, <2>2
<1> QED
  BY <1>7, <1>8, <1>9

\* The counts are numbers.
LEMMA CountsTyped ==
    ASSUME NEW n \in Nat, NEW b, DOMAIN b = 1 .. n, NEW i
    PROVE  GroupsBefore(b, i) \in Nat /\ TurnsBefore(b, i) \in Nat
<1>1. IsFiniteSet(Leaders(b))
  <2>1. Leaders(b) \subseteq 1 .. n /\ IsFiniteSet(1 .. n)
    BY FS_Interval DEF Leaders
  <2> QED
    BY <2>1, FS_Subset
<1>2. /\ IsFiniteSet({l \in Leaders(b) : Shared(b, l) /\ l < i})
      /\ IsFiniteSet({l \in Leaders(b) : Shared(b, l) \/ l < i})
  BY <1>1, FS_Subset
<1> QED
  BY <1>2, FS_CardinalityType DEF GroupsBefore, TurnsBefore

\* The turn of a group is the number of groups before it, that of a single
\* record the number of all groups and of the singles before it.
LEMMA TurnsAre ==
    ASSUME NEW b, NEW l \in Leaders(b)
    PROVE  Turn(b, l) = IF Shared(b, l) THEN GroupsBefore(b, l)
                                        ELSE TurnsBefore(b, l)
<1>1. \A m : Shared(b, m) \in BOOLEAN
  BY DEF Shared
<1>2. CASE Shared(b, l)
  <2>1. \A m \in Leaders(b) : Earlier(b, m, l) <=> Shared(b, m) /\ m < l
    BY <1>1, <1>2 DEF Earlier
  <2>2. {m \in Leaders(b) : Earlier(b, m, l)}
            = {m \in Leaders(b) : Shared(b, m) /\ m < l}
    BY <2>1
  <2> QED
    BY <1>2, <2>2 DEF Turn, GroupsBefore
<1>3. CASE ~Shared(b, l)
  <2>1. \A m \in Leaders(b) : Earlier(b, m, l) <=> Shared(b, m) \/ m < l
    BY <1>1, <1>3 DEF Earlier
  <2>2. {m \in Leaders(b) : Earlier(b, m, l)}
            = {m \in Leaders(b) : Shared(b, m) \/ m < l}
    BY <2>1
  <2> QED
    BY <1>3, <2>2 DEF Turn, TurnsBefore
<1> QED
  BY <1>2, <1>3

\* What a record is to have, and that it is something.
LEMMA Goals ==
    ASSUME NEW n \in Nat, NEW b, DOMAIN b = 1 .. n,
           NEW S \in SUBSET Proc, n <= Cardinality(S), NEW i \in 1 .. n
    PROVE  /\ ProcessNo(b, S)[i] =
                  [proc |-> IdleChild(S, Turn(b, LeaderOf(b, i))),
                   slot |-> SlotOf(b, i)]
           /\ ProcessNo(b, S)[i] # None
           /\ Turn(b, LeaderOf(b, i)) \in 0 .. Cardinality(S) - 1
<1>1. ProcessNo(b, S)[i] = [proc |-> IdleChild(S, Turn(b, LeaderOf(b, i))),
                            slot |-> SlotOf(b, i)]
  BY DEF ProcessNo
<1>2. SlotOf(b, i) \in Nat /\ SlotOf(b, i) # -1
  <2>1. SlotOf(b, i) \in Nat
    BY Slots DEF Slot
  <2> QED
    BY <2>1
<1>3. Turn(b, LeaderOf(b, i)) \in 0 .. n - 1
  BY LeaderFirst, TurnNamed
<1>4. Cardinality(S) \in Nat
  <2>1. IsFiniteSet(Proc)
    BY RedoAssumption, FS_Interval DEF Proc
  <2> QED
    BY <2>1, FS_Subset, FS_CardinalityType
<1>5. Turn(b, LeaderOf(b, i)) \in 0 .. Cardinality(S) - 1
  BY <1>3, <1>4
<1>6. ProcessNo(b, S)[i].slot # None.slot
  BY <1>1, <1>2 DEF None
<1> QED
  BY <1>1, <1>5, <1>6

\* The groups that begin before record i + 1 are those before record i and the
\* one that begins with it.
LEMMA GroupsGrow ==
    ASSUME NEW n \in Nat, NEW b, DOMAIN b = 1 .. n, NEW i \in 1 .. n
    PROVE  /\ InGroups(b, 1) = {}
           /\ InGroups(b, i + 1) = InGroups(b, i) \cup
                  IF Shared(b, i) THEN {m \in 1 .. n : LeaderOf(b, m) = i}
                                  ELSE {}
           /\ i \in InGroups(b, i) <=> i \notin Leaders(b)
<1>1. \A m \in 1 .. n : LeaderOf(b, m) \in 1 .. m
  BY LeaderFirst
<1>2. \A m \in 1 .. n : /\ ~(LeaderOf(b, m) < 1)
                        /\ LeaderOf(b, m) < i + 1 <=>
                               LeaderOf(b, m) < i \/ LeaderOf(b, m) = i
  BY <1>1
<1>3. InGroups(b, 1) = {}
  BY <1>2 DEF InGroups
<1>4. ASSUME NEW m \in 1 .. n
      PROVE  m \in InGroups(b, i + 1) <=>
                 m \in InGroups(b, i) \/ (Shared(b, i) /\ LeaderOf(b, m) = i)
  BY <1>2 DEF InGroups
<1>5. InGroups(b, i) \subseteq 1 .. n /\ InGroups(b, i + 1) \subseteq 1 .. n
  BY DEF InGroups
<1>6. i \in InGroups(b, i) <=> i \notin Leaders(b)
  <2>1. i \notin Leaders(b) => LeaderOf(b, i) # i
    BY LeaderFirst
  <2>2. LeaderOf(b, i) # i => Shared(b, LeaderOf(b, i)) /\ LeaderOf(b, i) < i
    BY <1>1, LeaderFirst
  <2>3. i \in Leaders(b) => LeaderOf(b, i) = i
    BY LeaderFirst
  <2> QED
    BY <2>1, <2>2, <2>3 DEF InGroups
<1> QED
  BY <1>3, <1>4, <1>5, <1>6

\* The group of a leader i that has been followed to record j.
LEMMA MembersAre ==
    ASSUME NEW n \in Nat, NEW b, DOMAIN b = 1 .. n, NEW i \in Leaders(b)
    PROVE  /\ \A m \in 1 .. n : LeaderOf(b, m) = i /\ m # i =>
                  m > i /\ SameNumber(b, i, m)
           /\ \A j \in 1 .. n : i < j =>
                  /\ i \in Members(b, i, j) /\ j \notin Members(b, i, j)
                  /\ Members(b, i, j + 1) = Members(b, i, j) \cup
                         IF LeaderOf(b, j) = i THEN {j} ELSE {}
           /\ Members(b, i, n + 1) = {m \in 1 .. n : LeaderOf(b, m) = i}
           /\ \A j : Members(b, i, j) \subseteq 1 .. n
           /\ Shared(b, i) => \E m \in 1 .. n : m > i /\ SameNumber(b, i, m)
<1>1. i \in 1 .. n /\ LeaderOf(b, i) = i
  BY LeaderFirst DEF Leaders
<1>2. ASSUME NEW m \in 1 .. n, LeaderOf(b, m) = i, m # i
      PROVE  m > i /\ SameNumber(b, i, m)
  BY <1>1, <1>2, LeaderFirst
<1>3. ASSUME NEW j \in 1 .. n, i < j
      PROVE  /\ i \in Members(b, i, j) /\ j \notin Members(b, i, j)
             /\ Members(b, i, j + 1) = Members(b, i, j) \cup
                    IF LeaderOf(b, j) = i THEN {j} ELSE {}
  <2>1. \A m \in 1 .. n : m < j + 1 <=> m < j \/ m = j
    OBVIOUS
  <2> QED
    BY <1>1, <1>3, <2>1 DEF Members
<1>4. Members(b, i, n + 1) = {m \in 1 .. n : LeaderOf(b, m) = i}
  <2>1. \A m \in 1 .. n : m < n + 1
    OBVIOUS
  <2> QED
    BY <2>1 DEF Members
<1>5. \A j : Members(b, i, j) \subseteq 1 .. n
  BY DEF Members
<1>6. ASSUME Shared(b, i) PROVE \E m \in 1 .. n : m > i /\ SameNumber(b, i, m)
  BY <1>2, <1>6 DEF Shared
<1> QED
  BY <1>2, <1>3, <1>4, <1>5, <1>6

\* The count of the records in between grows with each record of the number.
LEMMA BetweenGrows ==
    ASSUME NEW n \in Nat, NEW b, DOMAIN b = 1 .. n, NEW i \in 1 .. n,
           NEW j \in 1 .. n + 1, i < j
    PROVE  /\ Cardinality(Between(b, i, j)) \in Nat
           /\ Between(b, i, i + 1) = {}
           /\ Cardinality(Between(b, i, j)) = 0 <=> Between(b, i, j) = {}
           /\ Between(b, i, j + 1) = Between(b, i, j) \cup
                  IF SameNumber(b, i, j) THEN {j} ELSE {}
           /\ Cardinality(Between(b, i, j + 1)) = Cardinality(Between(b, i, j))
                  + IF SameNumber(b, i, j) THEN 1 ELSE 0
<1>1. IsFiniteSet(Between(b, i, j)) /\ Cardinality(Between(b, i, j)) \in Nat
  <2>1. i + 1 \in Int /\ j - 1 \in Int
    OBVIOUS
  <2>2. IsFiniteSet(i + 1 .. j - 1)
    BY <2>1, FS_Interval
  <2> QED
    BY <2>2, FS_Subset, FS_CardinalityType DEF Between
<1>2. Between(b, i, i + 1) = {} /\ j \notin Between(b, i, j)
  BY DEF Between
<1>3. Between(b, i, j + 1) = Between(b, i, j) \cup
          IF SameNumber(b, i, j) THEN {j} ELSE {}
  <2>1. \A m : m \in i + 1 .. (j + 1) - 1 <=> m \in i + 1 .. j - 1 \/ m = j
    OBVIOUS
  <2> QED
    BY <2>1 DEF Between
<1>4. Cardinality(Between(b, i, j)) = 0 <=> Between(b, i, j) = {}
  BY <1>1, FS_EmptySet
<1>5. Cardinality(Between(b, i, j) \cup {j}) = Cardinality(Between(b, i, j)) + 1
  BY <1>1, <1>2, FS_AddElement
<1>6. Cardinality(Between(b, i, j + 1)) = Cardinality(Between(b, i, j))
          + IF SameNumber(b, i, j) THEN 1 ELSE 0
  <2>1. SameNumber(b, i, j) => Between(b, i, j + 1) = Between(b, i, j) \cup {j}
    BY <1>3
  <2>2. ~SameNumber(b, i, j) => Between(b, i, j + 1) = Between(b, i, j)
    BY <1>3
  <2> DEFINE c == Cardinality(Between(b, i, j))
             d == Cardinality(Between(b, i, j + 1))
  <2>3. c \in Nat /\ (SameNumber(b, i, j) => d = c + 1)
        /\ (~SameNumber(b, i, j) => d = c)
    BY <1>1, <1>5, <2>1, <2>2
  <2> HIDE DEF c, d
  <2>4. d = c + IF SameNumber(b, i, j) THEN 1 ELSE 0
    BY <2>3
  <2> QED
    BY <2>4 DEF c, d
<1> QED
  BY <1>1, <1>2, <1>3, <1>4, <1>6

-----------------------------------------------------------------------------
(* The loops.                                                              *)

\* A batch and the idle children it waits for.
LEMMA Batches ==
    ASSUME LoopTypes, loop # "read"
    PROVE  /\ Len(phoneNo) \in Nat /\ DOMAIN phoneNo = 1 .. Len(phoneNo)
           /\ free \in SUBSET Proc /\ Cardinality(free) \in Nat
           /\ Len(phoneNo) <= Cardinality(free)
           /\ first \in 1 .. Len(phoneNo) + 1
<1>1. IsFiniteSet(Proc)
  BY RedoAssumption, FS_Interval DEF Proc
<1>2. free \in SUBSET Proc /\ Cardinality(free) \in Nat
  BY <1>1, FS_Subset, FS_CardinalityType DEF LoopTypes
<1> QED
  BY <1>2 DEF LoopTypes

\* Who has a child, and which.
LEMMA GivenIs ==
    ASSUME LoopTypes, loop # "read", NEW M \in SUBSET (1 .. Len(phoneNo)),
           Given(M)
    PROVE  /\ DOMAIN processNo = 1 .. Len(phoneNo)
           /\ \A m \in 1 .. Len(phoneNo) :
                  /\ processNo[m] = None <=> m \notin M
                  /\ m \in M => processNo[m] = ProcessNo(phoneNo, free)[m]
<1>1. /\ Len(phoneNo) \in Nat /\ DOMAIN phoneNo = 1 .. Len(phoneNo)
      /\ free \in SUBSET Proc /\ Len(phoneNo) <= Cardinality(free)
  BY Batches
<1>2. \A m \in 1 .. Len(phoneNo) : ProcessNo(phoneNo, free)[m] # None
  BY <1>1, Goals
<1> QED
  BY <1>1, <1>2 DEF Given

\* No step of the loops touches the batch or the idle children.
LEMMA TypesStay ==
    ASSUME LoopTypes, loop # "read", UNCHANGED batchVars,
           loop' \in {"group", "pair", "single", "assigned"},
           first' \in 1 .. Len(phoneNo) + 1,
           loop' = "pair" => /\ first' <= Len(phoneNo)
                             /\ other' \in first' + 1 .. Len(phoneNo) + 1
    PROVE  LoopTypes'
BY DEF LoopTypes, batchVars

\* Nor does one that gives no child change what has been given.
LEMMA GivenStays ==
    ASSUME NEW M, Given(M), UNCHANGED <<batchVars, processNo>>
    PROVE  Given(M)'
BY DEF Given, batchVars

\* The next record.
LEMMA InvRead ==
    ASSUME LoopInv, NEW p \in Phones \cup {NoPhone}, ReadRecord(p)
    PROVE  LoopInv'
<1>1. /\ loop = "read" /\ loop' = "read" /\ Len(phoneNo) < BatchSize
      /\ phoneNo' = Append(phoneNo, p) /\ processNo' = Append(processNo, None)
      /\ free' = free /\ first' = first
  BY DEF ReadRecord
<1>2. phoneNo \in Seq(Phones \cup {NoPhone}) /\ Len(phoneNo) \in Nat
  BY DEF LoopInv, LoopTypes
<1>3. /\ phoneNo' \in Seq(Phones \cup {NoPhone})
      /\ Len(phoneNo') = Len(phoneNo) + 1
      /\ DOMAIN phoneNo' = 1 .. Len(phoneNo) + 1
  BY <1>1, <1>2
<1>4. Len(phoneNo') <= BatchSize
  <2>1. BatchSize \in Int
    BY RedoAssumption DEF BatchSize
  <2> QED
    BY <1>1, <1>2, <1>3, <2>1
<1>5. LoopTypes'
  <2>1. first' \in 1 .. Len(phoneNo') + 1
    BY <1>1, <1>2, <1>3 DEF LoopInv, LoopTypes
  <2> QED
    BY <1>1, <1>3, <1>4, <2>1 DEF LoopInv, LoopTypes
<1>6. Given({})'
  <2>1. processNo = [m \in 1 .. Len(phoneNo) |-> None]
    BY <1>1, <1>2 DEF LoopInv, Given
  <2>2. processNo \in Seq({None}) /\ Len(processNo) = Len(phoneNo)
    BY <1>2, <2>1
  <2>3. processNo' = [m \in 1 .. Len(phoneNo) + 1 |-> None]
    BY <1>1, <1>2, <2>1, <2>2
  <2> QED
    BY <1>3, <2>3 DEF Given
<1> QED
  BY <1>1, <1>5, <1>6 DEF LoopInv

\* Enough idle children.
LEMMA InvFind ==
    ASSUME LoopInv, FindIdle
    PROVE  LoopInv'
<1>1. /\ loop = "read" /\ loop' = "group" /\ phoneNo # <<>>
      /\ free' \in SUBSET Proc /\ Cardinality(free') = BatchSize
      /\ blankFlag' = free' /\ first' = 1
      /\ UNCHANGED <<phoneNo, processNo>>
  BY DEF FindIdle
<1>2. /\ phoneNo \in Seq(Phones \cup {NoPhone}) /\ Len(phoneNo) \in Nat \ {0}
      /\ DOMAIN phoneNo = 1 .. Len(phoneNo) /\ 1 \in 1 .. Len(phoneNo)
  BY <1>1 DEF LoopInv, LoopTypes
<1>3. LoopTypes'
  BY <1>1, <1>2 DEF LoopInv, LoopTypes
<1>4. InGroups(phoneNo, 1) = {} /\ GroupsBefore(phoneNo, 1) = 0
  BY <1>2, GroupsGrow, Counts
<1>5. Given(InGroups(phoneNo, first))'
  <2>1. processNo = [m \in DOMAIN phoneNo |-> None]
    BY <1>1 DEF LoopInv, Given
  <2> QED
    BY <1>1, <1>4, <2>1 DEF Given
<1>6. blankFlag' = IdleFrom(free', GroupsBefore(phoneNo', first'))
  BY <1>1, <1>4, AllIdle
<1> QED
  BY <1>1, <1>3, <1>5, <1>6 DEF LoopInv

\* A record of an earlier group.
LEMMA InvSkipGrouped ==
    ASSUME LoopInv, SkipGrouped
    PROVE  LoopInv'
<1> DEFINE n == Len(phoneNo)
<1>1. /\ loop = "group" /\ loop' = "group" /\ first' = first + 1 /\ first <= n
      /\ processNo[first] # None
      /\ UNCHANGED <<batchVars, processNo, blankFlag>>
  BY DEF SkipGrouped
<1>2. /\ n \in Nat /\ DOMAIN phoneNo = 1 .. n /\ first \in 1 .. n
      /\ LoopTypes /\ loop # "read"
  BY <1>1, Batches DEF LoopInv
<1>3. LoopTypes'
  BY <1>1, <1>2, TypesStay
<1>4. Given(InGroups(phoneNo, first)) /\ InGroups(phoneNo, first) \subseteq 1 .. n
  BY <1>1, <1>2 DEF LoopInv, InGroups
<1>5. first \in InGroups(phoneNo, first)
  BY <1>1, <1>2, <1>4, GivenIs
<1>6. first \notin Leaders(phoneNo)
  BY <1>2, <1>5, GroupsGrow
<1>7. InGroups(phoneNo, first + 1) = InGroups(phoneNo, first)
  <2>1. \A m \in 1 .. n : LeaderOf(phoneNo, m) # first
    BY <1>2, <1>6, LeaderFirst
  <2>2. {m \in 1 .. n : LeaderOf(phoneNo, m) = first} = {}
    BY <2>1
  <2>3. InGroups(phoneNo, first + 1) = InGroups(phoneNo, first) \cup
            IF Shared(phoneNo, first)
            THEN {m \in 1 .. n : LeaderOf(phoneNo, m) = first} ELSE {}
    BY <1>2, GroupsGrow
  <2> QED
    BY <2>2, <2>3
<1>8. GroupsBefore(phoneNo, first + 1) = GroupsBefore(phoneNo, first)
  <2>1. GroupsBefore(phoneNo, first) \in Nat
    BY <1>2, CountsTyped
  <2>2. GroupsBefore(phoneNo, first + 1) = GroupsBefore(phoneNo, first) + 0
    BY <1>2, <1>6, Counts
  <2> QED
    BY <2>1, <2>2
<1>9. Given(InGroups(phoneNo, first))'
  <2>1. Given(InGroups(phoneNo, first + 1))
    BY <1>4, <1>7
  <2> QED
    BY <1>1, <2>1 DEF Given, batchVars
<1>10. blankFlag' = IdleFrom(free', GroupsBefore(phoneNo', first'))
  BY <1>1, <1>8 DEF LoopInv, batchVars
<1> QED
  BY <1>1, <1>3, <1>9, <1>10 DEF LoopInv

\* A record without a child begins a group of its own.
LEMMA InvStartPairs ==
    ASSUME LoopInv, StartPairs
    PROVE  LoopInv'
<1> DEFINE n == Len(phoneNo)
<1>1. /\ loop = "group" /\ loop' = "pair" /\ other' = first + 1
      /\ processNo[first] = None /\ first <= n
      /\ same' = 0 /\ blankPosition' = 0
      /\ UNCHANGED <<batchVars, first, processNo, blankFlag>>
  BY DEF StartPairs
<1>2. /\ n \in Nat /\ DOMAIN phoneNo = 1 .. n /\ first \in 1 .. n
      /\ LoopTypes /\ loop # "read"
  BY <1>1, Batches DEF LoopInv
<1>3. LoopTypes'
  BY <1>1, <1>2, TypesStay
<1>4. Given(InGroups(phoneNo, first)) /\ InGroups(phoneNo, first) \subseteq 1 .. n
  BY <1>1, <1>2 DEF LoopInv, InGroups
<1>5. first \in Leaders(phoneNo)
  BY <1>1, <1>2, <1>4, GivenIs, GroupsGrow
<1>6. 0 = Cardinality(Between(phoneNo, first, first + 1))
  <2>1. Between(phoneNo, first, first + 1) = {}
    BY <1>2 DEF Between
  <2> QED
    BY <2>1, FS_EmptySet
<1>7. GroupOpen'
  BY <1>1, <1>5, <1>6, RedoAssumption DEF GroupOpen, batchVars
<1>8. Given(InGroups(phoneNo, first) \cup
               IF same = 0 THEN {} ELSE Members(phoneNo, first, other))'
  BY <1>1, <1>4 DEF Given, batchVars
<1>9. blankFlag' = IdleFrom(free', GroupsBefore(phoneNo', first') +
                       IF same' > 0 /\ other' > Len(phoneNo') THEN 1 ELSE 0)
  <2>1. GroupsBefore(phoneNo, first) \in Nat
    BY <1>2, CountsTyped
  <2>2. GroupsBefore(phoneNo, first) + 0 = GroupsBefore(phoneNo, first)
    BY <2>1
  <2>3. blankFlag = IdleFrom(free, GroupsBefore(phoneNo, first))
    BY <1>1 DEF LoopInv
  <2> QED
    BY <1>1, <2>2, <2>3 DEF batchVars
<1> QED
  BY <1>1, <1>3, <1>7, <1>8, <1>9 DEF LoopInv

\* All groups are made.
LEMMA InvEndGroups ==
    ASSUME LoopInv, EndGroups
    PROVE  LoopInv'
<1> DEFINE n == Len(phoneNo)
<1>1. /\ loop = "group" /\ loop' = "single" /\ first' = 1 /\ first > n
      /\ UNCHANGED <<batchVars, processNo, blankFlag>>
  BY DEF EndGroups
<1>2. /\ n \in Nat /\ DOMAIN phoneNo = 1 .. n /\ first = n + 1
      /\ LoopTypes /\ loop # "read"
  BY <1>1, Batches DEF LoopInv
<1>3. LoopTypes'
  BY <1>1, <1>2, TypesStay
<1>4. Given(InGroups(phoneNo, n + 1) \cup 1 .. 0)
  <2>1. 1 .. 0 = {}
    OBVIOUS
  <2> QED
    BY <1>1, <1>2, <2>1 DEF LoopInv
<1>5. Given(InGroups(phoneNo, Len(phoneNo) + 1) \cup 1 .. first - 1)'
  <2>1. 1 - 1 = 0
    OBVIOUS
  <2> QED
    BY <1>1, <1>4, <2>1 DEF Given, batchVars
<1>6. blankFlag' = IdleFrom(free', TurnsBefore(phoneNo', first'))
  <2>1. TurnsBefore(phoneNo, 1) = GroupsBefore(phoneNo, n + 1)
    BY <1>2, Counts
  <2> QED
    BY <1>1, <1>2, <2>1 DEF LoopInv, batchVars
<1> QED
  BY <1>1, <1>3, <1>5, <1>6 DEF LoopInv

\* The loop over j, spelled out.
PairSet == InGroups(phoneNo, first) \cup
               IF same = 0 THEN {} ELSE Members(phoneNo, first, other)

\* What holds while the records after record i are compared with it.
LEMMA PairFacts ==
    ASSUME LoopInv, loop = "pair"
    PROVE  /\ LoopTypes /\ loop # "read"
           /\ Len(phoneNo) \in Nat /\ DOMAIN phoneNo = 1 .. Len(phoneNo)
           /\ free \in SUBSET Proc /\ Cardinality(free) \in Nat
           /\ Len(phoneNo) <= Cardinality(free)
           /\ first \in Leaders(phoneNo) /\ first \in 1 .. Len(phoneNo)
           /\ other \in first + 1 .. Len(phoneNo) + 1
           /\ same \in 0 .. RedoCount - 1
           /\ PairSet \in SUBSET (1 .. Len(phoneNo)) /\ Given(PairSet)
           /\ GroupsBefore(phoneNo, first) \in Nat
<1>1. /\ LoopTypes /\ loop # "read" /\ Len(phoneNo) \in Nat
      /\ DOMAIN phoneNo = 1 .. Len(phoneNo)
      /\ free \in SUBSET Proc /\ Cardinality(free) \in Nat
      /\ Len(phoneNo) <= Cardinality(free)
  BY Batches DEF LoopInv
<1>2. /\ first \in Leaders(phoneNo) /\ first \in 1 .. Len(phoneNo)
      /\ other \in first + 1 .. Len(phoneNo) + 1
  BY <1>1 DEF LoopInv, GroupOpen, LoopTypes, Leaders
<1>3. same \in 0 .. RedoCount - 1
  <2>1. /\ same = Cardinality(Between(phoneNo, first, other))
        /\ same < RedoCount
    BY DEF LoopInv, GroupOpen
  <2>2. first < other /\ other \in 1 .. Len(phoneNo) + 1
    BY <1>1, <1>2
  <2>3. Cardinality(Between(phoneNo, first, other)) \in Nat
    BY <1>1, <1>2, <2>2, BetweenGrows
  <2> QED
    BY <2>1, <2>3, RedoAssumption
<1>4. PairSet \in SUBSET (1 .. Len(phoneNo)) /\ Given(PairSet)
  BY <1>1 DEF LoopInv, PairSet, InGroups, Members
<1>5. GroupsBefore(phoneNo, first) \in Nat
  BY <1>1, CountsTyped
<1> QED
  BY <1>1, <1>2, <1>3, <1>4, <1>5

\* The child of a group is the next idle child, which is at hand as long as
\* the batch is not at its end.
LEMMA GroupChild ==
    ASSUME LoopInv, loop = "pair", other <= Len(phoneNo),
           Shared(phoneNo, first)
    PROVE  LET G == GroupsBefore(phoneNo, first) IN
           /\ G \in 0 .. Cardinality(free) - 1
           /\ G = Turn(phoneNo, first)
           /\ blankFlag = IdleFrom(free, G)
           /\ Looked # {} /\ Lowest(Looked) = IdleChild(free, G)
<1> DEFINE G == GroupsBefore(phoneNo, first)
<1>1. /\ Len(phoneNo) \in Nat /\ DOMAIN phoneNo = 1 .. Len(phoneNo)
      /\ free \in SUBSET Proc /\ Len(phoneNo) <= Cardinality(free)
      /\ first \in Leaders(phoneNo) /\ first \in 1 .. Len(phoneNo)
      /\ other \in Nat /\ same \in Nat /\ G \in Nat
  BY PairFacts
<1>2. G = Turn(phoneNo, first)
  BY <1>1, TurnsAre
<1>3. G \in 0 .. Cardinality(free) - 1
  <2>1. LeaderOf(phoneNo, first) = first
    BY <1>1, LeaderFirst
  <2>2. Turn(phoneNo, LeaderOf(phoneNo, first)) \in 0 .. Cardinality(free) - 1
    BY <1>1, Goals
  <2> QED
    BY <1>2, <2>1, <2>2
<1>4. blankFlag = IdleFrom(free, G)
  <2>1. blankFlag = IdleFrom(free, G +
                        IF same > 0 /\ other > Len(phoneNo) THEN 1 ELSE 0)
    BY DEF LoopInv
  <2>2. ~(other > Len(phoneNo)) /\ G + 0 = G
    BY <1>1
  <2> QED
    BY <2>1, <2>2
<1>5. /\ IdleChild(free, G) \in IdleFrom(free, G)
      /\ Lowest(IdleFrom(free, G)) = IdleChild(free, G)
  BY <1>1, <1>3, NextIdle
<1>6. CASE blankPosition > 0
  <2>1. same # 0
    <3>1. same = 0 => blankPosition = 0
      BY DEF LoopInv, GroupOpen
    <3> QED
      BY <1>6, <3>1
  <2>2. blankPosition = IdleChild(free, G)
    BY <1>1, <2>1 DEF LoopInv, GroupOpen
  <2>3. Looked = {IdleChild(free, G)}
    BY <1>4, <1>5, <1>6, <2>2 DEF Looked
  <2>4. IdleChild(free, G) \in Int
    <3>1. IdleChild(free, G) \in free
      BY <1>5 DEF IdleFrom
    <3>2. IdleChild(free, G) \in Proc
      BY <1>1, <3>1
    <3>3. Proc \subseteq Int
      BY RedoAssumption DEF Proc
    <3> QED
      BY <3>2, <3>3
  <2>5. Lowest({IdleChild(free, G)}) = IdleChild(free, G)
    BY <2>4 DEF Lowest
  <2> QED
    BY <1>2, <1>3, <1>4, <2>3, <2>5
<1>7. CASE ~(blankPosition > 0)
  <2>1. Looked = blankFlag
    BY <1>7 DEF Looked
  <2> QED
    BY <1>2, <1>3, <1>4, <1>5, <2>1
<1> QED
  BY <1>6, <1>7

\* The mark of the group's child goes with the last record.
LEMMA Closes ==
    ASSUME LoopInv, loop = "pair", other <= Len(phoneNo), NEW l \in Nat, NEW k,
           l > 0 => /\ Shared(phoneNo, first)
                    /\ k = IdleChild(free, GroupsBefore(phoneNo, first))
    PROVE  Closed(blankFlag, l, k) =
               IdleFrom(free, GroupsBefore(phoneNo, first) +
                   IF l > 0 /\ other + 1 > Len(phoneNo) THEN 1 ELSE 0)
<1> DEFINE G == GroupsBefore(phoneNo, first)
<1>1. /\ Len(phoneNo) \in Nat /\ other \in Nat /\ G \in Nat
      /\ free \in SUBSET Proc
  BY PairFacts
<1>2. blankFlag = IdleFrom(free, G)
  <2>1. blankFlag = IdleFrom(free, G +
                        IF same > 0 /\ other > Len(phoneNo) THEN 1 ELSE 0)
    BY DEF LoopInv
  <2>2. ~(other > Len(phoneNo)) /\ G + 0 = G
    BY <1>1
  <2> QED
    BY <2>1, <2>2
<1>3. other + 1 > Len(phoneNo) <=> other = Len(phoneNo)
  BY <1>1
<1>4. CASE l > 0 /\ other = Len(phoneNo)
  <2>1. G \in 0 .. Cardinality(free) - 1
    BY <1>4, GroupChild
  <2>2. IdleFrom(free, G) \ {k} = IdleFrom(free, G + 1)
    BY <1>1, <1>4, <2>1, NextIdle
  <2> QED
    BY <1>2, <1>3, <1>4, <2>2 DEF Closed
<1>5. CASE ~(l > 0 /\ other = Len(phoneNo))
  <2>1. G + 0 = G
    BY <1>1
  <2>2. Closed(blankFlag, l, k) = blankFlag
    BY <1>5 DEF Closed
  <2> QED
    BY <1>2, <1>3, <1>5, <2>1, <2>2
<1> QED
  BY <1>4, <1>5

\* What leaves the loop over j closes the group, if there is one.
LEMMA GroupLeft ==
    ASSUME LoopInv, loop = "pair", LeaveGroup, UNCHANGED <<batchVars, processNo>>,
           same = 0 <=> ~Shared(phoneNo, first),
           same # 0 => Members(phoneNo, first, other) =
               {m \in 1 .. Len(phoneNo) : LeaderOf(phoneNo, m) = first},
           blankFlag' = IdleFrom(free, GroupsBefore(phoneNo, first) +
                            IF same = 0 THEN 0 ELSE 1)
    PROVE  LoopInv'
<1>1. /\ LoopTypes /\ loop # "read" /\ Len(phoneNo) \in Nat
      /\ DOMAIN phoneNo = 1 .. Len(phoneNo)
      /\ first \in Leaders(phoneNo) /\ first \in 1 .. Len(phoneNo)
      /\ Given(PairSet)
  BY PairFacts
<1>2. loop' = "group" /\ first' = first + 1
  BY DEF LeaveGroup
<1>3. LoopTypes'
  BY <1>1, <1>2, TypesStay
<1>4. PairSet = InGroups(phoneNo, first + 1)
  <2>1. InGroups(phoneNo, first + 1) = InGroups(phoneNo, first) \cup
            IF Shared(phoneNo, first)
            THEN {m \in 1 .. Len(phoneNo) : LeaderOf(phoneNo, m) = first}
            ELSE {}
    BY <1>1, GroupsGrow
  <2> QED
    BY <2>1 DEF PairSet
<1>5. GroupsBefore(phoneNo, first + 1) =
          GroupsBefore(phoneNo, first) + IF same = 0 THEN 0 ELSE 1
  BY <1>1, Counts
<1>6. Given(InGroups(phoneNo, first))'
  BY <1>1, <1>2, <1>4 DEF Given, batchVars
<1>7. blankFlag' = IdleFrom(free', GroupsBefore(phoneNo', first'))
  BY <1>2, <1>5 DEF batchVars
<1> QED
  BY <1>2, <1>3, <1>6, <1>7 DEF LoopInv

\* A record with a child, or of another number, changes no count; the last one
\* closes the group.
LEMMA InvPassRecord ==
    ASSUME LoopInv, PassRecord
    PROVE  LoopInv'
<1> DEFINE n == Len(phoneNo)
<1>1. /\ loop = "pair" /\ loop' = "pair" /\ other <= n /\ other' = other + 1
      /\ UNCHANGED <<batchVars, first, processNo, same, blankPosition, pos>>
      /\ blankFlag' = Closed(blankFlag, same, pos)
  BY DEF PassRecord, Pairing, NextOther, groupVars
<1>2. /\ LoopTypes /\ loop # "read" /\ n \in Nat /\ DOMAIN phoneNo = 1 .. n
      /\ first \in Leaders(phoneNo) /\ first \in 1 .. n
      /\ other \in first + 1 .. n + 1 /\ same \in 0 .. RedoCount - 1
      /\ PairSet \in SUBSET (1 .. n) /\ Given(PairSet)
  BY <1>1, PairFacts
<1>3. other \in 1 .. n /\ first < other /\ other + 1 \in first + 1 .. n + 1
  BY <1>1, <1>2
<1>4. ~SameNumber(phoneNo, first, other)
  <2> SUFFICES ASSUME SameNumber(phoneNo, first, other) PROVE FALSE
    OBVIOUS
  <2>1. processNo[other] # None
    BY DEF PassRecord, SameNumber
  <2>2. other \in PairSet
    BY <1>2, <1>3, <2>1, GivenIs
  <2>3. other \notin Members(phoneNo, first, other)
    BY <1>2, <1>3, MembersAre
  <2>4. LeaderOf(phoneNo, other) < first
    BY <2>2, <2>3 DEF PairSet, InGroups
  <2>5. LeaderOf(phoneNo, other) >= first
    BY <1>2, <1>3, NoEarlierGroup
  <2>6. LeaderOf(phoneNo, other) \in Int /\ first \in Int
    BY <1>2, <1>3, LeaderFirst DEF Leaders
  <2> QED
    BY <2>4, <2>5, <2>6
<1>5. LoopTypes'
  BY <1>1, <1>2, <1>3, TypesStay
<1>6. same = Cardinality(Between(phoneNo, first, other + 1))
  <2>1. Between(phoneNo, first, other + 1) = Between(phoneNo, first, other)
    <3>1. other \in 1 .. n + 1
      BY <1>2, <1>3
    <3>2. Between(phoneNo, first, other + 1) = Between(phoneNo, first, other)
              \cup IF SameNumber(phoneNo, first, other) THEN {other} ELSE {}
      BY <1>2, <1>3, <3>1, BetweenGrows
    <3> QED
      BY <1>4, <3>2
  <2> QED
    BY <1>1, <2>1 DEF LoopInv, GroupOpen
<1>7. GroupOpen'
  <2>1. GroupOpen
    BY <1>1 DEF LoopInv
  <2> QED
    BY <1>1, <1>6, <2>1 DEF GroupOpen, batchVars
<1>8. Given(PairSet)'
  <2>1. LeaderOf(phoneNo, other) # first
    BY <1>2, <1>3, <1>4, MembersAre
  <2>2. Members(phoneNo, first, other + 1) = Members(phoneNo, first, other)
    <3>1. Members(phoneNo, first, other + 1) = Members(phoneNo, first, other)
              \cup IF LeaderOf(phoneNo, other) = first THEN {other} ELSE {}
      BY <1>2, <1>3, MembersAre
    <3> QED
      BY <2>1, <3>1
  <2> QED
    BY <1>1, <1>2, <2>2 DEF Given, PairSet, batchVars
<1>9. blankFlag' = IdleFrom(free', GroupsBefore(phoneNo', first') +
                       IF same' > 0 /\ other' > Len(phoneNo') THEN 1 ELSE 0)
  <2>1. same \in Nat /\ (same > 0 =>
            /\ Shared(phoneNo, first)
            /\ pos = IdleChild(free, GroupsBefore(phoneNo, first)))
    BY <1>1, <1>2, RedoAssumption DEF LoopInv, GroupOpen
  <2>2. Closed(blankFlag, same, pos) =
            IdleFrom(free, GroupsBefore(phoneNo, first) +
                IF same > 0 /\ other + 1 > Len(phoneNo) THEN 1 ELSE 0)
    BY <1>1, <2>1, Closes
  <2> QED
    BY <1>1, <2>2 DEF batchVars
<1> QED
  BY <1>1, <1>5, <1>7, <1>8, <1>9 DEF LoopInv, PairSet

\* Record i has no number, so it shares with none.
LEMMA InvLeavePairs ==
    ASSUME LoopInv, LeavePairs
    PROVE  LoopInv'
<1>1. /\ loop = "pair" /\ LeaveGroup /\ phoneNo[first] = NoPhone
      /\ UNCHANGED <<batchVars, processNo, blankFlag>>
  BY DEF LeavePairs, Pairing
<1>2. /\ Len(phoneNo) \in Nat /\ DOMAIN phoneNo = 1 .. Len(phoneNo)
      /\ first \in Leaders(phoneNo) /\ other \in Nat /\ same \in Nat
      /\ GroupsBefore(phoneNo, first) \in Nat
  BY <1>1, PairFacts
<1>3. ~Shared(phoneNo, first)
  <2>1. \A m : ~SameNumber(phoneNo, first, m)
    BY <1>1 DEF SameNumber
  <2> QED
    BY <1>2, <2>1, MembersAre
<1>4. same = 0
  BY <1>1, <1>2, <1>3 DEF LoopInv, GroupOpen
<1>5. blankFlag' = IdleFrom(free, GroupsBefore(phoneNo, first) +
                       IF same = 0 THEN 0 ELSE 1)
  <2>1. ~(same > 0)
    BY <1>4
  <2> QED
    BY <1>1, <1>4, <2>1 DEF LoopInv
<1> QED
  BY <1>1, <1>3, <1>4, <1>5, GroupLeft

\* Every record after record i has been looked at.
LEMMA InvEndPairs ==
    ASSUME LoopInv, EndPairs
    PROVE  LoopInv'
<1> DEFINE n == Len(phoneNo)
<1>1. /\ loop = "pair" /\ LeaveGroup /\ other > n
      /\ UNCHANGED <<batchVars, processNo, blankFlag>>
  BY DEF EndPairs
<1>2. /\ n \in Nat /\ DOMAIN phoneNo = 1 .. n
      /\ first \in Leaders(phoneNo) /\ first \in 1 .. n
      /\ other \in first + 1 .. n + 1 /\ same \in Nat
  BY <1>1, PairFacts, RedoAssumption
<1>3. other = n + 1
  BY <1>1, <1>2
<1>4. same = 0 <=> ~Shared(phoneNo, first)
  <2>1. same # 0 => Shared(phoneNo, first)
    BY <1>1, <1>2 DEF LoopInv, GroupOpen
  <2>2. ASSUME same = 0, Shared(phoneNo, first) PROVE FALSE
    <3>1. PICK m \in 1 .. n : m > first /\ SameNumber(phoneNo, first, m)
      BY <1>2, <2>2, MembersAre
    <3>2. m \in Between(phoneNo, first, other)
      BY <1>2, <1>3, <3>1 DEF Between
    <3>3. Cardinality(Between(phoneNo, first, other)) = 0
      BY <1>1, <2>2 DEF LoopInv, GroupOpen
    <3>4. other \in 1 .. n + 1 /\ first < other
      BY <1>2
    <3> QED
      BY <1>2, <3>2, <3>3, <3>4, BetweenGrows
  <2> QED
    BY <2>1, <2>2
<1>5. Members(phoneNo, first, other) =
          {m \in 1 .. n : LeaderOf(phoneNo, m) = first}
  BY <1>2, <1>3, MembersAre
<1>6. blankFlag' = IdleFrom(free, GroupsBefore(phoneNo, first) +
                       IF same = 0 THEN 0 ELSE 1)
  <2>1. (same > 0 /\ other > n) <=> same # 0
    BY <1>1, <1>2
  <2> QED
    BY <1>1, <2>1 DEF LoopInv
<1> QED
  BY <1>1, <1>4, <1>5, <1>6, GroupLeft

\* A second record of the number of record i.
LEMMA MatchFacts ==
    ASSUME LoopInv, Matching
    PROVE  /\ loop = "pair" /\ other \in 1 .. Len(phoneNo) /\ first < other
           /\ other <= Len(phoneNo)
           /\ SameNumber(phoneNo, first, other)
           /\ Shared(phoneNo, first)
           /\ same + 1 < RedoCount => /\ SlotOf(phoneNo, other) = same + 1
                                      /\ LeaderOf(phoneNo, other) = first
           /\ same + 1 = RedoCount =>
                  \A m \in 1 .. Len(phoneNo) :
                      LeaderOf(phoneNo, m) = first => m < other
<1> DEFINE n == Len(phoneNo)
<1>1. loop = "pair" /\ other <= n /\ SameNumber(phoneNo, first, other)
  BY DEF Matching, Pairing
<1>2. /\ n \in Nat /\ DOMAIN phoneNo = 1 .. n
      /\ first \in Leaders(phoneNo) /\ first \in 1 .. n
      /\ other \in first + 1 .. n + 1 /\ same \in Nat
  BY <1>1, PairFacts, RedoAssumption
<1>3. other \in 1 .. n /\ first < other
  BY <1>1, <1>2
<1>4. same = Cardinality(Between(phoneNo, first, other))
  BY <1>1 DEF LoopInv, GroupOpen
<1>5. /\ same + 1 < RedoCount => /\ SlotOf(phoneNo, other) = same + 1
                                 /\ LeaderOf(phoneNo, other) = first
      /\ same + 1 = RedoCount => \A m \in 1 .. n :
             LeaderOf(phoneNo, m) = first => m < other
  BY <1>1, <1>2, <1>3, <1>4, GroupGrows
<1>6. Shared(phoneNo, first)
  <2>1. CASE same = 0
    <3>1. LeaderOf(phoneNo, other) = first
      BY <1>5, <2>1, RedoAssumption
    <3> QED
      BY <1>2, <1>3, <3>1 DEF Shared
  <2>2. CASE same # 0
    BY <1>1, <1>2, <2>2 DEF LoopInv, GroupOpen
  <2> QED
    BY <2>1, <2>2
<1> QED
  BY <1>1, <1>3, <1>5, <1>6

\* The record and its leader get the child of the group.
LEMMA BothGiven ==
    ASSUME LoopInv, Matching, same + 1 < RedoCount, UNCHANGED batchVars,
           NEW k, k = IdleChild(free, GroupsBefore(phoneNo, first)),
           GiveBoth(k, same + 1), same' = same + 1, NextOther
    PROVE  Given(PairSet)'
<1> DEFINE n == Len(phoneNo)
           goal == ProcessNo(phoneNo, free)
<1>1. /\ loop = "pair" /\ other \in 1 .. n /\ first < other
      /\ SameNumber(phoneNo, first, other) /\ Shared(phoneNo, first)
      /\ other <= n
      /\ SlotOf(phoneNo, other) = same + 1 /\ LeaderOf(phoneNo, other) = first
  BY MatchFacts
<1>2. /\ LoopTypes /\ loop # "read" /\ n \in Nat /\ DOMAIN phoneNo = 1 .. n
      /\ free \in SUBSET Proc /\ n <= Cardinality(free)
      /\ first \in Leaders(phoneNo) /\ first \in 1 .. n /\ same \in Nat
      /\ other \in first + 1 .. n + 1
      /\ PairSet \in SUBSET (1 .. n) /\ Given(PairSet)
  BY <1>1, PairFacts, RedoAssumption
<1>3. goal[first] = [proc |-> k, slot |-> 0]
  <2>1. LeaderOf(phoneNo, first) = first /\ SlotOf(phoneNo, first) = 0
    BY <1>2, LeaderFirst DEF Leaders
  <2>2. k = IdleChild(free, Turn(phoneNo, first))
    BY <1>1, <1>2, GroupChild
  <2> QED
    BY <1>2, <2>1, <2>2, Goals
<1>4. goal[other] = [proc |-> k, slot |-> same + 1]
  <2>1. k = IdleChild(free, Turn(phoneNo, first))
    BY <1>1, <1>2, GroupChild
  <2> QED
    BY <1>1, <1>2, <2>1, Goals
<1> DEFINE N == InGroups(phoneNo, first) \cup Members(phoneNo, first, other + 1)
<1>5. Members(phoneNo, first, other + 1) =
          Members(phoneNo, first, other) \cup {other}
  BY <1>1, <1>2, MembersAre
<1>6. N = PairSet \cup {first, other}
  <2>1. CASE same = 0
    <3>1. Cardinality(Between(phoneNo, first, other)) = 0
      BY <1>1, <2>1 DEF LoopInv, GroupOpen
    <3>2. other \in 1 .. n + 1
      BY <1>2
    <3>3. Between(phoneNo, first, other) = {}
      BY <1>1, <1>2, <3>1, <3>2, BetweenGrows
    <3>4. ASSUME NEW m \in Members(phoneNo, first, other) PROVE m = first
      <4>1. m \in 1 .. n /\ LeaderOf(phoneNo, m) = first /\ m < other
        BY <1>2 DEF Members
      <4>2. m # first => m > first /\ SameNumber(phoneNo, first, m)
        BY <1>2, <4>1, MembersAre
      <4>3. m # first => m \in Between(phoneNo, first, other)
        BY <1>2, <4>1, <4>2 DEF Between
      <4> QED
        BY <3>3, <4>3
    <3>5. first \in Members(phoneNo, first, other)
      BY <1>1, <1>2, MembersAre
    <3> QED
      BY <1>5, <2>1, <3>4, <3>5 DEF PairSet
  <2>2. CASE same # 0
    <3>1. first \in Members(phoneNo, first, other)
      BY <1>1, <1>2, MembersAre
    <3> QED
      BY <1>5, <2>2, <3>1 DEF PairSet
  <2> QED
    BY <2>1, <2>2
<1>7. processNo' = [m \in 1 .. n |-> IF m \in N THEN goal[m] ELSE None]
  <2>1. processNo = [m \in 1 .. n |-> IF m \in PairSet THEN goal[m] ELSE None]
    BY <1>2 DEF Given
  <2>2. processNo' = [processNo EXCEPT ![first] = goal[first],
                                       ![other] = goal[other]]
    BY <1>3, <1>4 DEF GiveBoth
  <2> HIDE DEF goal, N, n
  <2> QED
    BY <1>1, <1>2, <1>6, <2>1, <2>2
<1>8. PairSet' = N
  <2>1. same' # 0 /\ first' = first /\ other' = other + 1
    BY <1>2 DEF NextOther
  <2> QED
    BY <2>1 DEF PairSet, batchVars
<1> QED
  BY <1>2, <1>7, <1>8 DEF Given, batchVars

\* The loop over j goes on after it has given a child to both records.
LEMMA GroupStays ==
    ASSUME LoopInv, Matching, same + 1 < RedoCount, UNCHANGED batchVars,
           NEW k, k = IdleChild(free, GroupsBefore(phoneNo, first)),
           GiveBoth(k, same + 1), same' = same + 1, NextOther,
           blankPosition' = k, pos' = k,
           blankFlag' = Closed(blankFlag, same + 1, k)
    PROVE  LoopInv'
<1> DEFINE n == Len(phoneNo)
<1>1. /\ loop = "pair" /\ other \in 1 .. n /\ first < other /\ other <= n
      /\ SameNumber(phoneNo, first, other) /\ Shared(phoneNo, first)
  BY MatchFacts
<1>2. /\ LoopTypes /\ loop # "read" /\ n \in Nat /\ DOMAIN phoneNo = 1 .. n
      /\ first \in Leaders(phoneNo) /\ first \in 1 .. n /\ same \in Nat
      /\ other \in 1 .. n + 1
  BY <1>1, PairFacts, RedoAssumption
<1>3. loop' = "pair" /\ first' = first /\ other' = other + 1
  BY <1>1 DEF NextOther
<1>4. LoopTypes'
  <2>1. other + 1 \in first + 1 .. n + 1
    BY <1>1, <1>2
  <2> QED
    BY <1>1, <1>2, <1>3, <2>1, TypesStay
<1>5. same + 1 = Cardinality(Between(phoneNo, first, other + 1))
  <2>1. same = Cardinality(Between(phoneNo, first, other))
    BY <1>1 DEF LoopInv, GroupOpen
  <2> QED
    BY <1>1, <1>2, <2>1, BetweenGrows
<1>6. GroupOpen'
  <2>1. same' < RedoCount /\ same' # 0
    BY <1>2
  <2> QED
    BY <1>1, <1>2, <1>3, <1>5, <2>1 DEF GroupOpen, batchVars
<1>7. Given(PairSet)'
  BY BothGiven
<1>8. blankFlag' = IdleFrom(free', GroupsBefore(phoneNo', first') +
                       IF same' > 0 /\ other' > Len(phoneNo') THEN 1 ELSE 0)
  <2>1. same + 1 \in Nat
    BY <1>2
  <2>2. Closed(blankFlag, same + 1, k) =
            IdleFrom(free, GroupsBefore(phoneNo, first) +
                IF same + 1 > 0 /\ other + 1 > n THEN 1 ELSE 0)
    BY <1>1, <2>1, Closes
  <2> QED
    BY <1>3, <2>2 DEF batchVars
<1> QED
  BY <1>3, <1>4, <1>6, <1>7, <1>8 DEF LoopInv, PairSet

\* The first match finds a child for both records.
LEMMA InvOpenGroup ==
    ASSUME LoopInv, OpenGroup
    PROVE  LoopInv'
<1> DEFINE k == IdleChild(free, GroupsBefore(phoneNo, first))
<1>1. Matching /\ same = 0 /\ UNCHANGED batchVars /\ NextOther
  BY DEF OpenGroup
<1>2. Lowest(Looked) = k
  BY <1>1, MatchFacts, GroupChild
<1>3. /\ GiveBoth(k, same + 1) /\ same' = same + 1
      /\ blankPosition' = k /\ pos' = k
      /\ blankFlag' = Closed(blankFlag, same + 1, k)
  BY <1>1, <1>2 DEF OpenGroup
<1>4. same + 1 < RedoCount
  BY <1>1, RedoAssumption
<1> HIDE DEF k
<1>5. k = IdleChild(free, GroupsBefore(phoneNo, first))
  BY DEF k
<1> QED
  BY <1>1, <1>3, <1>4, <1>5, GroupStays

\* The next ones join it.
LEMMA InvJoinGroup ==
    ASSUME LoopInv, JoinGroup
    PROVE  LoopInv'
<1>1. /\ Matching /\ same \in 1 .. RedoCount - 2
      /\ UNCHANGED <<batchVars, blankPosition>> /\ NextOther
      /\ GiveBoth(blankPosition, same + 1) /\ same' = same + 1
      /\ blankPosition' = blankPosition /\ pos' = blankPosition
      /\ blankFlag' = Closed(blankFlag, same + 1, blankPosition)
  BY DEF JoinGroup
<1>2. blankPosition = IdleChild(free, GroupsBefore(phoneNo, first))
  <2>1. GroupOpen
    BY <1>1, MatchFacts DEF LoopInv
  <2> QED
    BY <1>1, <2>1, RedoAssumption DEF GroupOpen
<1>3. same + 1 < RedoCount
  BY <1>1, RedoAssumption
<1> QED
  BY <1>1, <1>2, <1>3, GroupStays

\* The one after the last slot ends the group.
LEMMA InvFillGroup ==
    ASSUME LoopInv, FillGroup
    PROVE  LoopInv'
<1> DEFINE n == Len(phoneNo)
           G == GroupsBefore(phoneNo, first)
<1>1. /\ Matching /\ same = RedoCount - 1 /\ LeaveGroup
      /\ UNCHANGED <<batchVars, processNo>>
      /\ blankFlag' = blankFlag \ {Lowest(Looked)}
  BY DEF FillGroup
<1>2. /\ loop = "pair" /\ other \in 1 .. n /\ first < other /\ other <= n
      /\ Shared(phoneNo, first) /\ same # 0
      /\ \A m \in 1 .. n : LeaderOf(phoneNo, m) = first => m < other
  <2>1. same + 1 = RedoCount /\ same # 0
    BY <1>1, RedoAssumption
  <2> QED
    BY <1>1, <2>1, MatchFacts
<1>3. n \in Nat /\ DOMAIN phoneNo = 1 .. n /\ free \in SUBSET Proc
  BY <1>2, PairFacts
<1>4. Members(phoneNo, first, other) =
          {m \in 1 .. n : LeaderOf(phoneNo, m) = first}
  BY <1>2, <1>3 DEF Members
<1>5. blankFlag' = IdleFrom(free, G + 1)
  <2>1. G \in 0 .. Cardinality(free) - 1 /\ blankFlag = IdleFrom(free, G)
        /\ Lowest(Looked) = IdleChild(free, G)
    BY <1>2, GroupChild
  <2>2. IdleFrom(free, G) \ {IdleChild(free, G)} = IdleFrom(free, G + 1)
    BY <1>3, <2>1, NextIdle
  <2> QED
    BY <1>1, <2>1, <2>2
<1> QED
  BY <1>1, <1>2, <1>4, <1>5, GroupLeft

\* The second pass, spelled out.
LEMMA SingleFacts ==
    ASSUME LoopInv, loop = "single", first <= Len(phoneNo)
    PROVE  LET n == Len(phoneNo)
               M == InGroups(phoneNo, n + 1) \cup 1 .. first - 1 IN
           /\ LoopTypes /\ loop # "read" /\ n \in Nat
           /\ DOMAIN phoneNo = 1 .. n /\ first \in 1 .. n
           /\ free \in SUBSET Proc /\ n <= Cardinality(free)
           /\ Given(M) /\ M \in SUBSET (1 .. n)
           /\ TurnsBefore(phoneNo, first) \in Nat
           /\ processNo[first] = None <=>
                  first \in Leaders(phoneNo) /\ ~Shared(phoneNo, first)
<1> DEFINE n == Len(phoneNo)
           M == InGroups(phoneNo, n + 1) \cup 1 .. first - 1
<1>1. /\ LoopTypes /\ loop # "read" /\ n \in Nat /\ DOMAIN phoneNo = 1 .. n
      /\ first \in 1 .. n
      /\ free \in SUBSET Proc /\ n <= Cardinality(free)
  BY Batches DEF LoopInv
<1>2. Given(M)
  BY DEF LoopInv
<1>3. M \in SUBSET (1 .. n)
  <2>1. InGroups(phoneNo, n + 1) \subseteq 1 .. n
    BY <1>1 DEF InGroups
  <2>2. 1 .. first - 1 \subseteq 1 .. n
    BY <1>1
  <2> QED
    BY <2>1, <2>2
<1>4. TurnsBefore(phoneNo, first) \in Nat
  BY <1>1, CountsTyped
<1>5. first \in M <=> Shared(phoneNo, LeaderOf(phoneNo, first))
  <2>1. first \notin 1 .. first - 1
    BY <1>1
  <2>2. LeaderOf(phoneNo, first) < n + 1
    <3>1. LeaderOf(phoneNo, first) \in 1 .. first
      BY <1>1, LeaderFirst
    <3> QED
      BY <1>1, <3>1
  <2> QED
    BY <1>1, <2>1, <2>2 DEF InGroups
<1>6. ~Shared(phoneNo, LeaderOf(phoneNo, first)) <=>
          first \in Leaders(phoneNo) /\ ~Shared(phoneNo, first)
  BY <1>1, LeaderFirst
<1>7. processNo[first] = None <=> first \notin M
  BY <1>1, <1>2, <1>3, GivenIs
<1> QED
  BY <1>1, <1>2, <1>3, <1>4, <1>5, <1>6, <1>7

\* The next idle child is at hand for a single record.
LEMMA SingleChild ==
    ASSUME LoopInv, Single
    PROVE  LET t == TurnsBefore(phoneNo, first) IN
           /\ t \in 0 .. Cardinality(free) - 1
           /\ blankFlag = IdleFrom(free, t) /\ blankFlag # {}
           /\ Lowest(blankFlag) = IdleChild(free, t)
           /\ blankFlag \ {Lowest(blankFlag)} = IdleFrom(free, t + 1)
           /\ ProcessNo(phoneNo, free)[first] =
                  [proc |-> IdleChild(free, t), slot |-> 0]
<1> DEFINE n == Len(phoneNo)
           t == TurnsBefore(phoneNo, first)
<1>1. loop = "single" /\ first <= n /\ processNo[first] = None
  BY DEF Single
<1>2. /\ n \in Nat /\ DOMAIN phoneNo = 1 .. n /\ first \in 1 .. n
      /\ free \in SUBSET Proc /\ n <= Cardinality(free)
      /\ first \in Leaders(phoneNo) /\ ~Shared(phoneNo, first)
  BY <1>1, SingleFacts
<1>3. LeaderOf(phoneNo, first) = first /\ SlotOf(phoneNo, first) = 0
      /\ Turn(phoneNo, first) = t
  BY <1>2, LeaderFirst, TurnsAre DEF Leaders
<1>4. /\ t \in 0 .. Cardinality(free) - 1
      /\ ProcessNo(phoneNo, free)[first] =
             [proc |-> IdleChild(free, t), slot |-> 0]
  <2>1. /\ ProcessNo(phoneNo, free)[first] =
               [proc |-> IdleChild(free,
                             Turn(phoneNo, LeaderOf(phoneNo, first))),
                slot |-> SlotOf(phoneNo, first)]
        /\ Turn(phoneNo, LeaderOf(phoneNo, first)) \in
               0 .. Cardinality(free) - 1
    BY <1>2, Goals
  <2> QED
    BY <1>3, <2>1
<1>5. blankFlag = IdleFrom(free, t)
  BY <1>1 DEF LoopInv
<1>6. /\ IdleChild(free, t) \in IdleFrom(free, t)
      /\ Lowest(IdleFrom(free, t)) = IdleChild(free, t)
      /\ IdleFrom(free, t) \ {IdleChild(free, t)} = IdleFrom(free, t + 1)
  BY <1>2, <1>4, NextIdle
<1> QED
  BY <1>4, <1>5, <1>6

\* A record of a group, in the second pass.
LEMMA InvSkipGiven ==
    ASSUME LoopInv, SkipGiven
    PROVE  LoopInv'
<1> DEFINE n == Len(phoneNo)
           M == InGroups(phoneNo, n + 1) \cup 1 .. first - 1
<1>1. /\ loop = "single" /\ loop' = "single" /\ first <= n
      /\ first' = first + 1 /\ processNo[first] # None
      /\ UNCHANGED <<batchVars, processNo, blankFlag>>
  BY DEF SkipGiven
<1>2. /\ LoopTypes /\ loop # "read" /\ n \in Nat /\ DOMAIN phoneNo = 1 .. n
      /\ first \in 1 .. n /\ TurnsBefore(phoneNo, first) \in Nat
      /\ Given(M) /\ M \in SUBSET (1 .. n)
      /\ ~(first \in Leaders(phoneNo) /\ ~Shared(phoneNo, first))
  BY <1>1, SingleFacts
<1>3. LoopTypes'
  BY <1>1, <1>2, TypesStay
<1>4. M = InGroups(phoneNo, n + 1) \cup 1 .. (first + 1) - 1
  <2>1. first \in M
    BY <1>1, <1>2, GivenIs
  <2>2. \A m : m \in 1 .. (first + 1) - 1 <=> m \in 1 .. first - 1 \/ m = first
    BY <1>2
  <2> QED
    BY <2>1, <2>2
<1>5. TurnsBefore(phoneNo, first + 1) = TurnsBefore(phoneNo, first)
  <2>1. TurnsBefore(phoneNo, first + 1) = TurnsBefore(phoneNo, first) + 0
    BY <1>2, Counts
  <2> QED
    BY <1>2, <2>1
<1>6. Given(InGroups(phoneNo, Len(phoneNo) + 1) \cup 1 .. first - 1)'
  BY <1>1, <1>2, <1>4 DEF Given, batchVars
<1>7. blankFlag' = IdleFrom(free', TurnsBefore(phoneNo', first'))
  BY <1>1, <1>5 DEF LoopInv, batchVars
<1> QED
  BY <1>1, <1>3, <1>6, <1>7 DEF LoopInv

\* A record that is left gets the next idle child.
LEMMA InvGiveSingle ==
    ASSUME LoopInv, GiveSingle
    PROVE  LoopInv'
<1> DEFINE n == Len(phoneNo)
           M == InGroups(phoneNo, n + 1) \cup 1 .. first - 1
           N == InGroups(phoneNo, n + 1) \cup 1 .. (first + 1) - 1
           t == TurnsBefore(phoneNo, first)
           goal == ProcessNo(phoneNo, free)
<1>1. /\ Single /\ loop = "single" /\ loop' = "single" /\ first <= n
      /\ first' = first + 1 /\ UNCHANGED batchVars
      /\ processNo[first] = None
      /\ processNo' = [processNo EXCEPT
                          ![first] = [proc |-> Lowest(blankFlag), slot |-> 0]]
      /\ blankFlag' = blankFlag \ {Lowest(blankFlag)}
  BY DEF GiveSingle, Single
<1>2. /\ LoopTypes /\ loop # "read" /\ n \in Nat /\ DOMAIN phoneNo = 1 .. n
      /\ first \in 1 .. n /\ t \in Nat
      /\ Given(M) /\ M \in SUBSET (1 .. n)
      /\ first \in Leaders(phoneNo) /\ ~Shared(phoneNo, first)
  BY <1>1, SingleFacts
<1>3. LoopTypes'
  BY <1>1, <1>2, TypesStay
<1>4. N = M \cup {first}
  <2>1. \A m : m \in 1 .. (first + 1) - 1 <=> m \in 1 .. first - 1 \/ m = first
    BY <1>2
  <2> QED
    BY <2>1
<1>5. goal[first] = [proc |-> Lowest(blankFlag), slot |-> 0]
      /\ blankFlag' = IdleFrom(free, t + 1)
  BY <1>1, SingleChild
<1>6. processNo' = [m \in 1 .. n |-> IF m \in N THEN goal[m] ELSE None]
  <2>1. processNo = [m \in 1 .. n |-> IF m \in M THEN goal[m] ELSE None]
    BY <1>2 DEF Given
  <2>2. processNo' = [processNo EXCEPT ![first] = goal[first]]
    BY <1>1, <1>5
  <2> HIDE DEF goal, N, M, n
  <2> QED
    BY <1>2, <1>4, <2>1, <2>2
<1>7. Given(InGroups(phoneNo, Len(phoneNo) + 1) \cup 1 .. first - 1)'
  BY <1>1, <1>2, <1>6 DEF Given, batchVars
<1>8. blankFlag' = IdleFrom(free', TurnsBefore(phoneNo', first'))
  <2>1. TurnsBefore(phoneNo, first + 1) = t + 1
    BY <1>2, Counts
  <2> QED
    BY <1>1, <1>5, <2>1 DEF batchVars
<1> QED
  BY <1>1, <1>3, <1>7, <1>8 DEF LoopInv

\* Both passes have ended.
LEMMA InvEndSingles ==
    ASSUME LoopInv, EndSingles
    PROVE  LoopInv'
<1> DEFINE n == Len(phoneNo)
<1>1. /\ loop = "single" /\ loop' = "assigned" /\ first > n
      /\ UNCHANGED <<batchVars, first, processNo>>
  BY DEF EndSingles
<1>2. /\ LoopTypes /\ loop # "read" /\ n \in Nat /\ DOMAIN phoneNo = 1 .. n
      /\ first = n + 1
  BY <1>1, Batches DEF LoopInv
<1>3. LoopTypes'
  <2>1. first' \in 1 .. n + 1
    BY <1>1, <1>2
  <2> QED
    BY <1>1, <1>2, <2>1, TypesStay
<1>4. processNo = ProcessNo(phoneNo, free)
  <2>1. \A m \in 1 .. n : m \in InGroups(phoneNo, n + 1) \cup 1 .. first - 1
    BY <1>2
  <2>2. processNo = [m \in DOMAIN phoneNo |->
            IF m \in InGroups(phoneNo, n + 1) \cup 1 .. first - 1
            THEN ProcessNo(phoneNo, free)[m] ELSE None]
    BY <1>1 DEF LoopInv, Given
  <2>3. processNo = [m \in DOMAIN phoneNo |-> ProcessNo(phoneNo, free)[m]]
    BY <1>2, <2>1, <2>2
  <2>4. ProcessNo(phoneNo, free) =
            [m \in DOMAIN phoneNo |-> ProcessNo(phoneNo, free)[m]]
    BY DEF ProcessNo
  <2> QED
    BY <2>3, <2>4
<1> QED
  BY <1>1, <1>3, <1>4 DEF LoopInv, batchVars

\* The next batch begins as the first one did.
LEMMA InvInit ==
    ASSUME phoneNo = <<>>, processNo = <<>>, free = {}, loop = "read", first = 1
    PROVE  LoopInv
<1>1. phoneNo \in Seq(Phones \cup {NoPhone}) /\ Len(phoneNo) = 0
      /\ DOMAIN phoneNo = {}
  OBVIOUS
<1>2. BatchSize \in Nat
  BY RedoAssumption DEF BatchSize
<1>3. LoopTypes
  BY <1>1, <1>2 DEF LoopTypes
<1>4. Given({})
  BY <1>1 DEF Given
<1> QED
  BY <1>3, <1>4 DEF LoopInv

\* The next batch begins with nothing given.
LEMMA InvNextBatch ==
    ASSUME NextBatch
    PROVE  LoopInv'
<1>1. /\ phoneNo' = <<>> /\ processNo' = <<>> /\ free' = {}
      /\ loop' = "read" /\ first' = 1
  BY DEF NextBatch
<1>2. phoneNo' \in Seq(Phones \cup {NoPhone}) /\ Len(phoneNo') = 0
      /\ DOMAIN phoneNo' = {}
  BY <1>1
<1>3. BatchSize \in Nat
  BY RedoAssumption DEF BatchSize
<1>4. LoopTypes'
  BY <1>1, <1>2, <1>3 DEF LoopTypes
<1>5. Given({})'
  BY <1>1, <1>2 DEF Given
<1> QED
  BY <1>1, <1>4, <1>5 DEF LoopInv

\* What the loops have done at each turn, for every batch and every set of
\* idle children.
THEOREM LoopInvHolds == LoopSpec => []LoopInv
<1>1. LoopInit => LoopInv
  BY InvInit DEF LoopInit
<1>2. LoopInv /\ [LoopNext]_loopVars => LoopInv'
  <2> SUFFICES ASSUME LoopInv, [LoopNext]_loopVars PROVE LoopInv'
    OBVIOUS
  <2>1. ASSUME NEW p \in Phones \cup {NoPhone}, ReadRecord(p) PROVE LoopInv'
    BY <2>1, InvRead
  <2>2. CASE FindIdle
    BY <2>2, InvFind
  <2>3. CASE SkipGrouped \/ StartPairs \/ EndGroups
    BY <2>3, InvSkipGrouped, InvStartPairs, InvEndGroups
  <2>4. CASE PassRecord \/ LeavePairs \/ EndPairs
    BY <2>4, InvPassRecord, InvLeavePairs, InvEndPairs
  <2>5. CASE OpenGroup \/ JoinGroup \/ FillGroup
    BY <2>5, InvOpenGroup, InvJoinGroup, InvFillGroup
  <2>6. CASE SkipGiven \/ GiveSingle \/ EndSingles
    BY <2>6, InvSkipGiven, InvGiveSingle, InvEndSingles
  <2>7. CASE NextBatch
    BY <2>7, InvNextBatch
  <2>8. CASE UNCHANGED loopVars
    BY <2>8 DEF loopVars, batchVars, groupVars, LoopInv, LoopTypes, Given,
                GroupOpen
  <2> QED
    BY <2>1, <2>2, <2>3, <2>4, <2>5, <2>6, <2>7, <2>8 DEF LoopNext
<1> QED
  BY <1>1, <1>2, PTL DEF LoopSpec

\* A child is at hand whenever the loops look for one, so that they end, and
\* what they have computed in the end is the distribution by groups, in which
\* no two records have one slot.
THEOREM LoopsMakeGroupsHolds == LoopSpec => []LoopsMakeGroups
<1>1. ASSUME LoopInv PROVE LoopsMakeGroups
  <2>1. Matching => Looked # {}
    BY <1>1, MatchFacts, GroupChild
  <2>2. Single => blankFlag # {}
    BY <1>1, SingleChild
  <2>3. ASSUME loop = "assigned"
        PROVE  /\ processNo = ProcessNo(phoneNo, free)
               /\ \A i, j \in DOMAIN phoneNo :
                      i # j => processNo[i] # processNo[j]
    <3>1. /\ Len(phoneNo) \in Nat /\ DOMAIN phoneNo = 1 .. Len(phoneNo)
          /\ free \in SUBSET Proc /\ Len(phoneNo) <= Cardinality(free)
      BY <1>1, <2>3, Batches DEF LoopInv
    <3>2. processNo = ProcessNo(phoneNo, free)
      BY <1>1, <2>3 DEF LoopInv
    <3>3. \A i, j \in 1 .. Len(phoneNo) :
              processNo[i].proc = processNo[j].proc =>
                  (i # j => processNo[i].slot # processNo[j].slot)
      BY <3>1, <3>2, Targets
    <3> QED
      BY <3>1, <3>2, <3>3
  <2> QED
    BY <2>1, <2>2, <2>3 DEF LoopsMakeGroups
<1> QED
  BY <1>1, LoopInvHolds, PTL

=============================================================================
