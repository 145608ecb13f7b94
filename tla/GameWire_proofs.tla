--------------------------- MODULE GameWire_proofs ---------------------------
(***************************************************************************)
(* What is proved of the connections to the game server (GameWire) and of  *)
(* what they rest on: sequence numbers (SequenceNumbers) and the readers   *)
(* of binary structures (Streams).                                         *)
(***************************************************************************)
EXTENDS GameWire, TLAPS, WellFoundedInduction, SequenceTheorems, FiniteSetTheorems

-----------------------------------------------------------------------------
(* Sequence numbers and their parts correspond, whatever the offsets are.   *)

\* What division is of a sum of a multiple and a remainder.
LEMMA Division ==
    ASSUME NEW d \in Nat, d > 0, NEW q \in Int, NEW r \in 0..(d - 1)
    PROVE  (q * d + r) \div d = q /\ (q * d + r) % d = r
  OBVIOUS

LEMMA Decomposition ==
    ASSUME NEW d \in Nat, d > 0, NEW n \in Int
    PROVE  /\ n \div d \in Int /\ n % d \in 0..(d - 1)
           /\ n = (n \div d) * d + (n % d)
  OBVIOUS

\* Products compare like their factors.
LEMMA Monotonic ==
    ASSUME NEW d \in Nat, d > 0, NEW a \in Int, NEW b \in Int, a <= b
    PROVE  a * d <= b * d
  OBVIOUS

\* What the offsets are: the ranges of structs.py do not overlap.
LEMMA Offsets ==
    /\ Pages \in Nat /\ Locals \in Nat /\ 0 < Locals /\ Locals < Pages
    /\ Server \in Int /\ Prefixes * Pages \in Int
    /\ Globals * Pages \in Int /\ Safe * Pages \in Int /\ VeeTsah * Pages \in Int
    /\ Server + Globals * Pages + Pages = Prefixes * Pages
    /\ (Safe + 1) * Pages <= Server
    /\ VeeTsah * Pages + Pages + Pages <= Server
    /\ (Safe + 1) * Pages = Safe * Pages + Pages
    /\ Pages <= Globals * Pages
  <1> USE NumberingAssumption DEF NumberingAssumption
  <1>1. (Prefixes - Globals - 1) * Pages = Prefixes * Pages - Globals * Pages - Pages
    BY SMT
  <1>2. (Safe + 1) * Pages <= (Prefixes - Globals - 1) * Pages
    BY Monotonic, SMT
  <1>3. (VeeTsah + 2) * Pages <= (Prefixes - Globals - 1) * Pages
    BY Monotonic, SMT
  <1>4. (VeeTsah + 2) * Pages = VeeTsah * Pages + Pages + Pages
    BY SMT
  <1>5. 1 * Pages <= Globals * Pages
    BY Monotonic, SMT
  <1>6. (Safe + 1) * Pages = Safe * Pages + Pages
    BY SMT
  <1>7. /\ Prefixes * Pages \in Int /\ Globals * Pages \in Int /\ Server \in Int
        /\ Safe * Pages \in Int /\ VeeTsah * Pages \in Int
    BY SMT DEF Server
  <1> QED
    BY <1>1, <1>2, <1>3, <1>4, <1>5, <1>6, <1>7 DEF Server

\* A prefix and a page that make_sequence_number accepts are what
\* split_sequence_number returns for the result, and its assertions hold: the
\* number is neither local, nor the server's, nor invalid.
THEOREM MakeThenSplit ==
    ASSUME NEW age \in Int, NEW page \in Int, Makes(age, page)
    PROVE  /\ Splits(make_sequence_number(age, page))
           /\ split_sequence_number(make_sequence_number(age, page)) = <<age, page>>
           /\ IsGlobal(make_sequence_number(age, page)) <=> age < 0
  <1> USE NumberingAssumption DEF NumberingAssumption
  <1> DEFINE n == make_sequence_number(age, page)
  <1>1. page \in 0..(Pages - 1) /\ Pages \in Nat /\ Pages > 0
    BY DEF Makes
  <1>2. CASE age < 0
    <2>1. n = -age * Pages + page + Server + 1
      BY <1>2 DEF make_sequence_number
    <2>2. -age \in 1..Globals /\ -age * Pages \in Int
      BY <1>1, <1>2, SMT DEF Makes
    <2>3. 1 * Pages <= -age * Pages /\ -age * Pages <= Globals * Pages
      <3>1. ASSUME NEW k \in 1..Globals
            PROVE  1 * Pages <= k * Pages /\ k * Pages <= Globals * Pages
        BY <1>1, Monotonic
      <3> QED
        BY <2>2, <3>1
    <2>4. IsGlobal(n)
      BY <1>1, <2>1, <2>2, <2>3, Offsets DEF IsGlobal
    <2>5. n <= Prefixes * Pages - 2
      <3>1. CASE -age = Globals
        <4>1. page <= Pages - 3
          BY <1>1, <3>1 DEF Makes
        <4> QED
          BY <4>1, <1>1, <2>1, <2>2, <2>3, Offsets
      <3>2. CASE -age # Globals
        <4>1. ASSUME NEW k \in 1..(Globals - 1)
              PROVE  k * Pages <= (Globals - 1) * Pages
          BY <1>1, Monotonic
        <4>2. -age * Pages <= (Globals - 1) * Pages
          BY <2>2, <3>2, <4>1
        <4>3. (Globals - 1) * Pages = Globals * Pages - Pages /\ Globals * Pages \in Int
          BY <1>1, SMT
        <4> QED
          BY <4>2, <4>3, <1>1, <2>1, <2>2, Offsets
      <3> QED
        BY <3>1, <3>2
    <2>6. Splits(n)
      <3>1. Server >= 0
        BY Offsets DEF Server
      <3> QED
        BY <3>1, <1>1, <2>1, <2>2, <2>3, <2>4, <2>5, Offsets
        DEF Splits, can_split_sequence_number, Numbers, IsGlobal
    <2>7. n - Server - 1 = (-age) * Pages + page
      BY <2>1, <2>2, <1>1, Offsets
    <2>8. (n - Server - 1) \div Pages = -age /\ (n - Server - 1) % Pages = page
      BY <2>2, <2>7, <1>1, Division
    <2>9. -(-age) = age
      OBVIOUS
    <2> QED
      BY <1>2, <2>4, <2>6, <2>8, <2>9 DEF split_sequence_number
  <1>3. CASE age >= 0
    <2>1. n = age * Pages + page + Locals
      BY <1>3 DEF make_sequence_number
    <2>2. age \in Nat /\ age * Pages \in Int /\ 0 <= age * Pages
      BY <1>1, <1>3, SMT DEF Makes
    <2>5. /\ n >= Locals /\ n < Server
          /\ \/ n < (Safe + 1) * Pages
             \/ n \in (VeeTsah * Pages + Locals)..(VeeTsah * Pages + Locals + Pages - 1)
      <3>1. age < Safe \/ age = VeeTsah
        BY DEF Makes
      <3>2. CASE age < Safe
        <4>1. age * Pages <= (Safe - 1) * Pages
          BY <1>1, <2>2, <3>2, Monotonic
        <4>2. (Safe - 1) * Pages = Safe * Pages - Pages /\ Safe * Pages \in Int
          BY <1>1, SMT
        <4> QED
          BY <4>1, <4>2, <1>1, <2>1, <2>2, Offsets
      <3>3. CASE age = VeeTsah
        BY <3>3, <1>1, <2>1, <2>2, Offsets
      <3> QED
        BY <3>1, <3>2, <3>3
    <2>6. ~IsGlobal(n) /\ Splits(n)
      BY <1>1, <2>1, <2>2, <2>5, Offsets
      DEF Splits, can_split_sequence_number, Numbers, IsGlobal
    <2>7. n - Locals = age * Pages + page
      BY <2>1, <2>2, <1>1, Offsets
    <2>8. (n - Locals) \div Pages = age /\ (n - Locals) % Pages = page
      BY <2>2, <2>7, <1>1, Division
    <2> QED
      BY <1>3, <2>6, <2>8 DEF split_sequence_number
  <1> QED
    BY <1>2, <1>3

\* The quotient of what lies between two multiples.
LEMMA Quotient ==
    ASSUME NEW d \in Nat, d > 0, NEW n \in Int, NEW a \in Int, NEW b \in Int,
           a * d <= n, n < b * d
    PROVE  n \div d \in a..(b - 1)
  <1>1. n \div d \in Int /\ n % d \in 0..(d - 1) /\ n = (n \div d) * d + (n % d)
    BY Decomposition
  <1>2. ASSUME n \div d <= a - 1 PROVE FALSE
    <2>1. (n \div d) * d <= (a - 1) * d
      BY <1>1, <1>2, Monotonic
    <2>2. (a - 1) * d = a * d - d /\ a * d \in Int /\ (n \div d) * d \in Int
      BY <1>1
    <2> QED
      BY <2>1, <2>2, <1>1
  <1>3. ASSUME b <= n \div d PROVE FALSE
    <2>1. b * d <= (n \div d) * d /\ b * d \in Int /\ (n \div d) * d \in Int
      BY <1>1, <1>3, Monotonic
    <2> QED
      BY <2>1, <1>1
  <1> QED
    BY <1>1, <1>2, <1>3

\* A number that split_sequence_number takes apart is what make_sequence_number
\* makes of the parts, unless the prefix is the first unsafe one: the numbers of
\* its first pages are below 0x80000000, where split_sequence_number ends, and
\* make_sequence_number refuses it.
THEOREM SplitThenMake ==
    ASSUME NEW n \in Int, Splits(n), split_sequence_number(n)[1] # Safe
    PROVE  LET parts == split_sequence_number(n)
           IN  /\ Makes(parts[1], parts[2])
               /\ make_sequence_number(parts[1], parts[2]) = n
  <1> USE NumberingAssumption DEF NumberingAssumption
  <1>1. CASE IsGlobal(n)
    <2> DEFINE q == (n - Server - 1) \div Pages
               r == (n - Server - 1) % Pages
    <2>1. split_sequence_number(n) = <<-q, r>>
      BY <1>1 DEF split_sequence_number
    <2>2. q \in Int /\ r \in 0..(Pages - 1) /\ n - Server - 1 = q * Pages + r
      BY Decomposition, Offsets
    <2>3. /\ 1 * Pages <= n - Server - 1
          /\ n - Server - 1 <= Globals * Pages + Pages - 3
      BY <1>1, Offsets DEF Splits, can_split_sequence_number, IsGlobal
    <2>4. n - Server - 1 < (Globals + 1) * Pages
      BY <2>3, Offsets
    <2>5. q \in 1..Globals
      BY <2>3, <2>4, Quotient, Offsets
    <2>6. q = Globals => r <= Pages - 3
      BY <2>2, <2>3, Offsets
    <2>7. Makes(-q, r)
      BY <2>2, <2>5, <2>6 DEF Makes
    <2>8. make_sequence_number(-q, r) = n
      <3>1. -q < 0 /\ -(-q) = q /\ q * Pages \in Int
        BY <2>5
      <3>2. make_sequence_number(-q, r) = -(-q) * Pages + r + Server + 1
        BY <3>1 DEF make_sequence_number
      <3> QED
        BY <3>1, <3>2, <2>2, Offsets
    <2> QED
      BY <2>1, <2>7, <2>8
  <1>2. CASE ~IsGlobal(n)
    <2> DEFINE q == (n - Locals) \div Pages
               r == (n - Locals) % Pages
    <2>1. split_sequence_number(n) = <<q, r>>
      BY <1>2 DEF split_sequence_number
    <2>2. q \in Int /\ r \in 0..(Pages - 1) /\ n - Locals = q * Pages + r
      BY Decomposition, Offsets
    <2>3. q >= 0 /\ (q < Safe \/ q = VeeTsah)
      <3>1. CASE n < (Safe + 1) * Pages
        <4>1. 0 * Pages <= n - Locals /\ n - Locals < (Safe + 1) * Pages
          BY <3>1, Offsets DEF Splits, can_split_sequence_number
        <4>2. q \in 0..Safe
          BY <4>1, Quotient, Offsets
        <4> QED
          BY <4>2, <2>1
      <3>2. CASE n \in (VeeTsah * Pages + Locals)..(VeeTsah * Pages + Locals + Pages - 1)
        <4>1. (VeeTsah + 1) * Pages = VeeTsah * Pages + Pages /\ VeeTsah * Pages \in Int
          OBVIOUS
        <4>2. VeeTsah * Pages <= n - Locals /\ n - Locals < (VeeTsah + 1) * Pages
          BY <3>2, <4>1, Offsets
        <4>3. q \in VeeTsah..VeeTsah
          BY <4>2, Quotient, Offsets
        <4> QED
          BY <4>3
      <3> QED
        BY <1>2, <3>1, <3>2 DEF Splits
    <2>4. Makes(q, r)
      BY <2>2, <2>3 DEF Makes
    <2>5. make_sequence_number(q, r) = n
      <3>1. make_sequence_number(q, r) = q * Pages + r + Locals /\ q * Pages \in Int
        BY <2>2, <2>3 DEF make_sequence_number
      <3> QED
        BY <3>1, <2>2, Offsets
    <2> QED
      BY <2>1, <2>4, <2>5
  <1> QED
    BY <1>1, <1>2

\* The location that the game server gives the AgeSDLHook is in the age of the
\* spawn point that it derives the prefix from, and deriving it does not fail,
\* unless the prefix is the first unsafe one.
THEOREM HookKeepsAge ==
    ASSUME NEW n \in Int, FindsPrefix(n), AgePrefix(n) # Safe
    PROVE  /\ ~HookFails(n)
           /\ split_sequence_number(HookNumber(n)) = <<AgePrefix(n), Pages - 2>>
  <1>1. n < Server /\ Server < Prefixes * Pages - 2 /\ n >= Locals /\ n < (Safe + 1) * Pages
    BY Offsets DEF FindsPrefix
  <1>2. Splits(n) /\ ~IsGlobal(n)
    BY <1>1, Offsets DEF Splits, can_split_sequence_number, Numbers, IsGlobal
  <1>3. Makes(AgePrefix(n), split_sequence_number(n)[2])
    BY <1>2, SplitThenMake DEF AgePrefix
  <1>4. AgePrefix(n) \in Int /\ AgePrefix(n) >= 0
    <2>1. AgePrefix(n) = (n - Locals) \div Pages
      BY <1>2 DEF AgePrefix, split_sequence_number
    <2>2. 0 * Pages <= n - Locals /\ n - Locals < (Safe + 1) * Pages
      BY <1>1, Offsets
    <2> QED
      BY <2>1, <2>2, Quotient, Offsets, NumberingAssumption DEF NumberingAssumption
  <1>5. AgePrefix(n) # Prefixes - Globals - 2
    BY <1>3, NumberingAssumption DEF Makes, NumberingAssumption
  <1>6. Makes(AgePrefix(n), Pages - 2)
    BY <1>3, <1>4, <1>5, NumberingAssumption DEF Makes, NumberingAssumption
  <1> QED
    BY <1>4, <1>6, MakeThenSplit, Offsets DEF HookFails, HookNumber

-----------------------------------------------------------------------------
(* Induction, for sets of numbers.                                         *)

LEMMA Least ==
    ASSUME NEW S \in SUBSET Nat, S # {}
    PROVE  \E n \in S : \A k \in S : n <= k
  <1> DEFINE R == OpToRel(<, Nat)
  <1>1. PICK x \in S : \A y \in S : ~ (<<y, x>> \in R)
    <2>1. IsWellFoundedOn(R, Nat)
      BY NatLessThanWellFounded
    <2> HIDE DEF R
    <2> QED
      BY <2>1, WFMin
  <1>2. \A y \in Nat : y < x => <<y, x>> \in R
    BY SMT DEF OpToRel
  <1> HIDE DEF R
  <1>3. ASSUME NEW y \in S PROVE x <= y
    <2>1. x \in Nat /\ y \in Nat /\ ~(y < x)
      BY <1>1, <1>2
    <2> QED
      BY <2>1
  <1> QED
    BY <1>3

LEMMA Induction ==
    ASSUME NEW S, 0 \in S, \A n \in Nat : n \in S => n + 1 \in S
    PROVE  Nat \subseteq S
  <1>1. SUFFICES ASSUME Nat \ S # {} PROVE FALSE
    OBVIOUS
  <1>2. PICK n \in Nat \ S : \A k \in Nat \ S : n <= k
    BY <1>1, Least
  <1>3. n # 0
    OBVIOUS
  <1>4. n - 1 \in Nat /\ ~ (n <= n - 1) /\ (n - 1) + 1 = n
    BY <1>3
  <1>5. n - 1 \in S
    BY <1>2, <1>4
  <1> QED
    BY <1>4, <1>5

-----------------------------------------------------------------------------
(* Sequences of whatever.                                                  *)

IsSeq(w) == \E S : w \in Seq(S)

LEMMA Empty == IsSeq(<<>>) /\ Len(<<>>) = 0
  <1>1. <<>> \in Seq({})
    OBVIOUS
  <1> QED
    BY <1>1 DEF IsSeq

LEMMA Single ==
    ASSUME NEW x
    PROVE  IsSeq(<<x>>) /\ Len(<<x>>) = 1 /\ <<x>>[1] = x
  <1>1. <<x>> \in Seq({x})
    OBVIOUS
  <1> QED
    BY <1>1 DEF IsSeq

LEMMA SeqFacts ==
    ASSUME NEW w, IsSeq(w)
    PROVE  Len(w) \in Nat /\ DOMAIN w = 1..Len(w) /\ w = [k \in 1..Len(w) |-> w[k]]
  <1> PICK S : w \in Seq(S)
    BY DEF IsSeq
  <1> QED
    OBVIOUS

LEMMA FunctionIsSeq ==
    ASSUME NEW n \in Nat, NEW w, w = [k \in 1..n |-> w[k]]
    PROVE  IsSeq(w) /\ Len(w) = n
  <1>1. w \in Seq({w[k] : k \in 1..n})
    OBVIOUS
  <1>2. IsSeq(w)
    BY <1>1, Zenon DEF IsSeq
  <1>3. DOMAIN w = 1..n /\ DOMAIN w = 1..Len(w) /\ Len(w) \in Nat
    BY <1>2, SeqFacts
  <1> QED
    BY <1>2, <1>3

LEMMA Concat ==
    ASSUME NEW u, NEW v, IsSeq(u), IsSeq(v)
    PROVE  /\ IsSeq(u \o v) /\ Len(u \o v) = Len(u) + Len(v)
           /\ \A k \in 1..Len(u) : (u \o v)[k] = u[k]
           /\ \A k \in 1..Len(v) : (u \o v)[Len(u) + k] = v[k]
           /\ \A k \in 1..Len(u \o v) :
                k \in 1..Len(u) \/ \E l \in 1..Len(v) : k = Len(u) + l
  <1> PICK S : u \in Seq(S)
    BY DEF IsSeq
  <1> PICK T : v \in Seq(T)
    BY DEF IsSeq
  <1>1. u \in Seq(S \cup T) /\ v \in Seq(S \cup T)
    OBVIOUS
  <1>2. /\ u \o v \in Seq(S \cup T) /\ Len(u \o v) = Len(u) + Len(v)
        /\ \A i \in 1..Len(u) + Len(v) :
             (u \o v)[i] = IF i <= Len(u) THEN u[i] ELSE v[i - Len(u)]
    BY <1>1, ConcatProperties
  <1>3. Len(u) \in Nat /\ Len(v) \in Nat
    OBVIOUS
  <1>4. ASSUME NEW k \in 1..Len(v)
        PROVE  (u \o v)[Len(u) + k] = v[k]
    <2>1. Len(u) + k \in 1..Len(u) + Len(v) /\ ~(Len(u) + k <= Len(u)) /\ Len(u) + k - Len(u) = k
      BY <1>3
    <2> QED
      BY <2>1, <1>2
  <1>5. ASSUME NEW k \in 1..Len(u)
        PROVE  (u \o v)[k] = u[k]
    BY <1>2, <1>3
  <1>6. ASSUME NEW k \in 1..Len(u \o v), k \notin 1..Len(u)
        PROVE  \E l \in 1..Len(v) : k = Len(u) + l
    <2>1. k - Len(u) \in 1..Len(v) /\ k = Len(u) + (k - Len(u))
      BY <1>2, <1>3, <1>6
    <2> QED
      BY <2>1
  <1> QED
    BY <1>2, <1>4, <1>5, <1>6 DEF IsSeq

LEMMA Appended ==
    ASSUME NEW w, NEW x, IsSeq(w)
    PROVE  /\ IsSeq(Append(w, x)) /\ Len(Append(w, x)) = Len(w) + 1
           /\ \A k \in 1..Len(w) : Append(w, x)[k] = w[k]
           /\ Append(w, x)[Len(w) + 1] = x
  <1> PICK S : w \in Seq(S)
    BY DEF IsSeq
  <1>1. w \in Seq(S \cup {x})
    OBVIOUS
  <1>2. Append(w, x) \in Seq(S \cup {x})
    BY <1>1
  <1> QED
    BY <1>1, <1>2, AppendProperties DEF IsSeq

-----------------------------------------------------------------------------
Step(read, items, done, k) ==
    IF done.error # "none" THEN done
    ELSE LET r == read[<<items[k], done.next>>]
         IN  IF r.error # "none" THEN r
             ELSE Got(Append(done.value, r), done.wire \o r.wire, r.next)

First(read, items, i) ==
    CHOOSE f : f = [k \in Nat |-> IF k = 0 THEN Got(<<>>, <<>>, i)
                                  ELSE Step(read, items, f[k - 1], k)]

LEMMA FirstIs ==
    ASSUME NEW read, NEW items, NEW i
    PROVE  ReadAll(read, items, i) = First(read, items, i)[Len(items)]
  BY DEF ReadAll, First, Then, Step

LEMMA FirstDef ==
    ASSUME NEW read, NEW items, NEW i
    PROVE  /\ First(read, items, i)[0] = Got(<<>>, <<>>, i)
           /\ \A k \in Nat : First(read, items, i)[k + 1] =
                            Step(read, items, First(read, items, i)[k], k + 1)
  <1> DEFINE f == First(read, items, i)
  <1>1. f = [k \in Nat |-> IF k = 0 THEN Got(<<>>, <<>>, i) ELSE Step(read, items, f[k - 1], k)]
    BY DEF First
  <1> HIDE DEF f
  <1>2. ASSUME NEW k \in Nat PROVE f[k + 1] = Step(read, items, f[k], k + 1)
    <2>1. k + 1 \in Nat /\ k + 1 # 0 /\ k + 1 - 1 = k
      OBVIOUS
    <2> QED
      BY <1>1, <2>1
  <1>3. f[0] = Got(<<>>, <<>>, i)
    BY <1>1
  <1> QED
    BY <1>2, <1>3 DEF f

Places(s) == 1..(Len(s) + 1)

Level(s, f, n) ==
    [at \in Items \X (1..(Len(s) + 1)) |->
       IF n = 0 THEN Raises("RecursionError") ELSE ReadItem(f[n - 1], at[1], s, at[2])]

Levels(s) == CHOOSE f : f = [n \in Nat |-> Level(s, f, n)]

LEMMA LevelsAre ==
    ASSUME NEW s
    PROVE  Readers(s) = Levels(s)
  BY DEF Readers, Levels, Level

LEMMA LevelsDef ==
    ASSUME NEW s
    PROVE  Levels(s) = [n \in Nat |-> Level(s, Levels(s), n)]
  BY DEF Levels

LEMMA ReadersDef ==
    ASSUME NEW s, NEW item \in Items, NEW i \in Places(s)
    PROVE  /\ Readers(s)[0][<<item, i>>] = Raises("RecursionError")
           /\ \A n \in Nat : Readers(s)[n + 1][<<item, i>>] =
                             ReadItem(Readers(s)[n], item, s, i)
  <1>1. ASSUME NEW n \in Nat
        PROVE  Readers(s)[n + 1][<<item, i>>] = ReadItem(Readers(s)[n], item, s, i)
    <2>1. n + 1 \in Nat /\ n + 1 # 0 /\ n + 1 - 1 = n
      OBVIOUS
    <2> DEFINE f == Readers(s)
               read == f[n]
    <2>2. f[n + 1] = Level(s, f, n + 1)
      BY <2>1, LevelsDef, LevelsAre
    <2> HIDE DEF f
    <2>3. Level(s, f, n + 1)[<<item, i>>] = ReadItem(f[(n + 1) - 1], item, s, i)
      BY <2>1 DEF Level, Places
    <2>4. f[(n + 1) - 1] = read
      BY <2>1
    <2> QED
      BY <2>2, <2>3, <2>4 DEF f
  <1>2. Readers(s)[0] = Level(s, Readers(s), 0)
    BY LevelsDef, LevelsAre
  <1>3. Level(s, Readers(s), 0)[<<item, i>>] = Raises("RecursionError")
    BY DEF Level, Places
  <1> QED
    BY <1>1, <1>2, <1>3

-----------------------------------------------------------------------------
(* What a reader may return.                                               *)

Writes(w, never) == IsSeq(w) /\ \A k \in 1..Len(w) : w[k][1] \notin never

\* An error, or what was read, how it is written and where it ends.
Result(s, i, r, errors, never) ==
    \/ \E e \in errors : r = Raises(e)
    \/ /\ r = Got(r.value, r.wire, r.next) /\ r.next \in i..(Len(s) + 1)
       /\ Writes(r.wire, never)

LEMMA RaisesFacts ==
    ASSUME NEW e
    PROVE  Raises(e).error = e
  BY DEF Raises

LEMMA GotFacts ==
    ASSUME NEW v, NEW w, NEW n
    PROVE  LET r == Got(v, w, n)
           IN  r.error = "none" /\ r.value = v /\ r.wire = w /\ r.next = n
  BY DEF Got

LEMMA ResultError ==
    ASSUME NEW s, NEW i, NEW r, NEW errors, NEW never, Result(s, i, r, errors, never),
           "none" \notin errors
    PROVE  /\ r.error # "none" => r.error \in errors /\ r = Raises(r.error)
           /\ r.error = "none" => /\ r = Got(r.value, r.wire, r.next) /\ r.next \in i..(Len(s) + 1)
                              /\ Writes(r.wire, never)
  <1>1. CASE \E e \in errors : r = Raises(e)
    <2> PICK e \in errors : r = Raises(e)
      BY <1>1
    <2>1. r.error = e
      BY RaisesFacts
    <2>2. e # "none"
      OBVIOUS
    <2> QED
      BY <2>1, <2>2
  <1>2. CASE ~\E e \in errors : r = Raises(e)
    <2>1. /\ r = Got(r.value, r.wire, r.next) /\ r.next \in i..(Len(s) + 1)
          /\ Writes(r.wire, never)
      BY <1>2 DEF Result
    <2>2. r.error = "none"
      BY <2>1, GotFacts
    <2> QED
      BY <2>1, <2>2
  <1> QED
    BY <1>1, <1>2

LEMMA WrittenTwice ==
    ASSUME NEW u, NEW v, NEW never, Writes(u, never), Writes(v, never)
    PROVE  Writes(u \o v, never)
  <1> USE DEF Writes
  <1>1. IsSeq(u \o v)
    BY Concat
  <1>2. ASSUME NEW k \in 1..Len(u \o v)
        PROVE  (u \o v)[k][1] \notin never
    <2>1. CASE k \in 1..Len(u)
      BY <2>1, Concat
    <2>2. CASE k \notin 1..Len(u)
      BY <2>2, Concat
    <2> QED
      BY <2>1, <2>2
  <1> QED
    BY <1>1, <1>2

\* The first n items were read.
PartsRead(s, read, items, i, r, n) ==
    /\ IsSeq(r.value) /\ Len(r.value) = n
    /\ \A k \in 1..n :
         /\ r.value[k].error = "none"
         /\ \E p \in i..(Len(s) + 1) : r.value[k] = read[<<items[k], p>>]
    /\ (\A k \in 1..n : Writes(r.value[k].wire, Failures)) => Writes(r.wire, Failures)

AllResult(s, read, items, i, r, n, errors, never) ==
    Result(s, i, r, errors, never) /\ (r.error = "none" => PartsRead(s, read, items, i, r, n))

\* How Step goes on.
LEMMA StepResult ==
    ASSUME NEW s, Len(s) \in Nat, NEW read, NEW items,
           NEW i \in Places(s), NEW errors, NEW never, "none" \notin errors,
           NEW n \in Nat, NEW done, AllResult(s, read, items, i, done, n, errors, never),
           \A p \in i..(Len(s) + 1) :
             Result(s, p, read[<<items[n + 1], p>>], errors, never)
    PROVE  AllResult(s, read, items, i, Step(read, items, done, n + 1), n + 1, errors, never)
  <1> DEFINE g == Step(read, items, done, n + 1)
             r == read[<<items[n + 1], done.next>>]
  <1> SUFFICES AllResult(s, read, items, i, g, n + 1, errors, never)
    OBVIOUS
  <1>1. CASE done.error # "none"
    <2>1. g = done
      BY <1>1 DEF Step
    <2> HIDE DEF g
    <2> QED
      BY <2>1, <1>1 DEF AllResult
  <1>2. CASE done.error = "none"
    <2>1. /\ done.next \in i..(Len(s) + 1) /\ Writes(done.wire, never)
          /\ PartsRead(s, read, items, i, done, n)
      BY <1>2, ResultError DEF AllResult
    <2>2. Result(s, done.next, r, errors, never)
      BY <2>1
    <2>3. g = IF r.error # "none" THEN r
              ELSE Got(Append(done.value, r), done.wire \o r.wire, r.next)
      BY <1>2 DEF Step
    <2> HIDE DEF g
    <2>4. CASE r.error # "none"
      <3> HIDE DEF r
      <3>1. g = r
        BY <2>3, <2>4
      <3>2. r.error \in errors /\ r = Raises(r.error)
        BY <2>2, <2>4, ResultError
      <3> QED
        BY <3>1, <3>2, <2>4 DEF Result, AllResult
    <2>5. CASE r.error = "none"
      <3> DEFINE v == Append(done.value, r)
                 w == done.wire \o r.wire
      <3>1. g = Got(v, w, r.next)
        BY <2>3, <2>5
      <3>2. \E p \in i..(Len(s) + 1) : r = read[<<items[n + 1], p>>]
        BY <2>1
      <3> HIDE DEF r
      <3> HIDE DEF v, w
      <3>3. g.error = "none" /\ g.value = v /\ g.wire = w /\ g.next = r.next
        BY <3>1, GotFacts
      <3>4. r.next \in done.next..(Len(s) + 1) /\ Writes(r.wire, never)
        BY <2>2, <2>5, ResultError
      <3>5. Writes(g.wire, never)
        BY <3>3, <3>4, <2>1, WrittenTwice DEF w
      <3>6. g.next \in i..(Len(s) + 1)
        <4>1. i \in Int
          BY DEF Places
        <4> QED
          BY <4>1, <3>3, <3>4, <2>1
      <3>7. Result(s, i, g, errors, never)
        BY <3>1, <3>3, <3>5, <3>6 DEF Result
      <3>8. IsSeq(done.value) /\ Len(done.value) = n
        BY <2>1 DEF PartsRead
      <3>9. IsSeq(g.value) /\ Len(g.value) = n + 1
        BY <3>3, <3>8, Appended DEF v
      <3>10. ASSUME NEW k \in 1..(n + 1)
             PROVE  /\ g.value[k].error = "none"
                    /\ \E p \in i..(Len(s) + 1) : g.value[k] = read[<<items[k], p>>]
        <4>1. CASE k = n + 1
          <5>1. g.value[k] = r
            BY <4>1, <3>3, <3>8, Appended DEF v
          <5> QED
            BY <5>1, <4>1, <3>2, <2>5
        <4>2. CASE k # n + 1
          <5>1. k \in 1..n
            BY <4>2
          <5>2. g.value[k] = done.value[k]
            BY <5>1, <3>3, <3>8, Appended DEF v
          <5> QED
            BY <5>1, <5>2, <2>1 DEF PartsRead
        <4> QED
          BY <4>1, <4>2
      <3>11. ASSUME \A k \in 1..(n + 1) : Writes(g.value[k].wire, Failures)
             PROVE  Writes(g.wire, Failures)
        <4>1. \A k \in 1..n : g.value[k] = done.value[k] /\ k \in 1..(n + 1)
          BY <3>3, <3>8, Appended DEF v
        <4>2. \A k \in 1..n : Writes(done.value[k].wire, Failures)
          BY <4>1, <3>11
        <4>3. Writes(done.wire, Failures)
          BY <4>2, <2>1 DEF PartsRead
        <4>4. g.value[n + 1] = r /\ n + 1 \in 1..(n + 1)
          BY <3>3, <3>8, Appended DEF v
        <4>5. Writes(r.wire, Failures)
          BY <4>4, <3>11
        <4> QED
          BY <4>3, <4>5, <3>3, WrittenTwice DEF w
      <3>12. PartsRead(s, read, items, i, g, n + 1)
        BY <3>9, <3>10, <3>11 DEF PartsRead
      <3> QED
        BY <3>7, <3>12 DEF AllResult
    <2> QED
      BY <2>4, <2>5 DEF g
  <1> QED
    BY <1>1, <1>2

LEMMA ReadAllResult ==
    ASSUME NEW s, Len(s) \in Nat, NEW read, NEW items, Len(items) \in Nat,
           NEW i \in Places(s), NEW errors, NEW never, "none" \notin errors,
           \A k \in 1..Len(items) : \A p \in i..(Len(s) + 1) :
             Result(s, p, read[<<items[k], p>>], errors, never)
    PROVE  AllResult(s, read, items, i, ReadAll(read, items, i), Len(items), errors, never)
  <1> DEFINE f == First(read, items, i)
             length == Len(items)
             Good(n) == AllResult(s, read, items, i, f[n], n, errors, never)
             S == {n \in Nat : n <= length => Good(n)}
  <1>0. length \in Nat
    OBVIOUS
  <1>1. Good(0)
    <2>1. f[0] = Got(<<>>, <<>>, i)
      BY FirstDef
    <2> DEFINE g == f[0]
    <2> HIDE DEF f
    <2>2. g.error = "none" /\ g.value = <<>> /\ g.wire = <<>> /\ g.next = i
      BY <2>1, GotFacts
    <2>3. g = Got(g.value, g.wire, g.next)
      BY <2>1, <2>2
    <2> HIDE DEF g
    <2>4. i \in i..(Len(s) + 1)
      BY DEF Places
    <2>5. Result(s, i, g, errors, never)
      BY <2>3, <2>4, <2>2, Empty DEF Result, Writes
    <2>6. PartsRead(s, read, items, i, g, 0)
      BY <2>2, Empty DEF PartsRead, Writes
    <2> QED
      BY <2>5, <2>6 DEF g, AllResult
  <1>2. ASSUME NEW n \in Nat, n + 1 <= length, Good(n) PROVE Good(n + 1)
    <2>1. f[n + 1] = Step(read, items, f[n], n + 1)
      BY FirstDef
    <2> HIDE DEF f
    <2>2. n + 1 \in 1..length
      BY <1>0, <1>2
    <2>3. \A p \in i..(Len(s) + 1) : Result(s, p, read[<<items[n + 1], p>>], errors, never)
      BY <2>2
    <2> QED
      BY <2>1, <2>3, <1>2, StepResult
  <1>3. Nat \subseteq S
    <2> HIDE DEF Good, length
    <2>1. 0 \in S
      BY <1>1
    <2>2. ASSUME NEW n \in Nat, n \in S PROVE n + 1 \in S
      <3>1. n + 1 \in Nat /\ (n + 1 <= length => n <= length)
        BY <1>0
      <3> QED
        BY <2>2, <3>1, <1>2
    <2> HIDE DEF S
    <2> QED
      BY <2>1, <2>2, Induction
  <1>4. ReadAll(read, items, i) = f[length]
    BY FirstIs
  <1>5. Good(length)
    <2> HIDE DEF Good, length
    <2> QED
      BY <1>0, <1>3
  <1> QED
    BY <1>4, <1>5

-----------------------------------------------------------------------------
(* What readers of single tokens return.                                   *)

LEMMA ResultMore ==
    ASSUME NEW s, NEW i \in Int, NEW p \in Int, i <= p, NEW r, NEW errors, NEW never,
           NEW more, NEW others, errors \subseteq more, others \subseteq never,
           Result(s, p, r, errors, never), Len(s) \in Nat
    PROVE  Result(s, i, r, more, others)
  <1>1. CASE \E e \in errors : r = Raises(e)
    BY <1>1 DEF Result
  <1>2. CASE ~\E e \in errors : r = Raises(e)
    <2>1. /\ r = Got(r.value, r.wire, r.next) /\ r.next \in p..(Len(s) + 1)
          /\ Writes(r.wire, never)
      BY <1>2 DEF Result
    <2>2. r.next \in i..(Len(s) + 1)
      BY <2>1
    <2>3. Writes(r.wire, others)
      BY <2>1 DEF Writes
    <2> QED
      BY <2>1, <2>2, <2>3 DEF Result
  <1> QED
    BY <1>1, <1>2

LEMMA RaisesResult ==
    ASSUME NEW s, NEW i, NEW errors, NEW never, NEW e \in errors
    PROVE  Result(s, i, Raises(e), errors, never)
  BY DEF Result

LEMMA GotResult ==
    ASSUME NEW s, NEW i, NEW errors, NEW never, NEW v, NEW w, NEW next,
           next \in i..(Len(s) + 1), Writes(w, never)
    PROVE  Result(s, i, Got(v, w, next), errors, never)
  <1> DEFINE r == Got(v, w, next)
  <1>1. r.value = v /\ r.wire = w /\ r.next = next
    BY GotFacts
  <1> HIDE DEF r
  <1>2. r = Got(v, w, next)
    BY DEF r
  <1>3. Result(s, i, r, errors, never)
    BY <1>1, <1>2 DEF Result
  <1> QED
    BY <1>3 DEF r

LEMMA SingleWritten ==
    ASSUME NEW never, NEW f, f \notin never, NEW v
    PROVE  Writes(<< <<f, v>> >>, never)
  <1> DEFINE x == <<f, v>>
  <1>1. x[1] = f
    OBVIOUS
  <1> HIDE DEF x
  <1>2. IsSeq(<<x>>) /\ Len(<<x>>) = 1 /\ <<x>>[1] = x
    BY Single
  <1>3. Writes(<<x>>, never)
    BY <1>1, <1>2 DEF Writes
  <1> QED
    BY <1>3 DEF x

Basic == {"EOFError", "ValueError", "Misread"}

LEMMA StreamFacts ==
    ASSUME NEW s, IsStream(s)
    PROVE  /\ IsSeq(s) /\ Len(s) \in Nat /\ DOMAIN s = 1..Len(s)
           /\ \A k \in 1..Len(s) : IsToken(s[k])
  <1>1. IsSeq(s)
    BY DEF IsStream, IsSeq
  <1> QED
    BY <1>1, SeqFacts DEF IsStream

LEMMA TakeCases ==
    ASSUME NEW s, Len(s) \in Nat, NEW i \in Places(s), NEW code
    PROVE  \/ i = Len(s) + 1 /\ Take(code, s, i) = Raises("EOFError")
           \/ i \in 1..Len(s) /\ s[i][1] # code /\ Take(code, s, i) = Raises("Misread")
           \/ /\ i \in 1..Len(s) /\ s[i][1] = code
              /\ Take(code, s, i) = Got(s[i][2], << <<code, s[i][2]>> >>, i + 1)
  <1>1. CASE i > Len(s)
    BY <1>1 DEF Take, Places
  <1>2. CASE ~(i > Len(s))
    <2>1. i \in 1..Len(s)
      BY <1>2 DEF Places
    <2> QED
      BY <2>1, <1>2 DEF Take
  <1> QED
    BY <1>1, <1>2

LEMMA TakeResult ==
    ASSUME NEW s, Len(s) \in Nat, NEW i \in Places(s), NEW code, code \notin Failures
    PROVE  LET r == Take(code, s, i)
           IN  /\ Result(s, i, r, Basic, Failures)
               /\ r.error = "none" =>
                    /\ i \in 1..Len(s) /\ s[i][1] = code /\ r.value = s[i][2]
                    /\ r.next = i + 1 /\ r.wire = << <<code, s[i][2]>> >>
  <1> DEFINE r == Take(code, s, i)
             w == << <<code, s[i][2]>> >>
  <1>1. CASE i \in 1..Len(s) /\ s[i][1] = code /\ r = Got(s[i][2], w, i + 1)
    <2>1. Writes(w, Failures)
      BY SingleWritten
    <2> HIDE DEF w, r
    <2>2. r.value = s[i][2] /\ r.wire = w /\ r.next = i + 1
      BY <1>1, GotFacts
    <2>3. i + 1 \in i..(Len(s) + 1)
      BY <1>1
    <2> QED
      BY <2>1, <2>2, <2>3, <1>1, GotResult DEF w, r
  <1>2. CASE r = Raises("EOFError")
    <2>1. r.error = "EOFError"
      BY <1>2, RaisesFacts
    <2> HIDE DEF r
    <2>2. Result(s, i, r, Basic, Failures)
      BY <1>2, RaisesResult DEF Basic
    <2> QED
      BY <2>1, <2>2 DEF r
  <1>3. CASE r = Raises("Misread")
    <2>1. r.error = "Misread"
      BY <1>3, RaisesFacts
    <2> HIDE DEF r
    <2>2. Result(s, i, r, Basic, Failures)
      BY <1>3, RaisesResult DEF Basic
    <2> QED
      BY <2>1, <2>2 DEF r
  <1> QED
    BY <1>1, <1>2, <1>3, TakeCases

LEMMA NoneIsNoError == "none" \notin Basic
  BY DEF Basic

LEMMA OnlyResult ==
    ASSUME NEW s, NEW i, NEW r, NEW S, NEW never, Result(s, i, r, Basic, never)
    PROVE  /\ Result(s, i, Only(r, S), Basic, never)
           /\ Result(s, i, Without(r, S), Basic, never)
  <1>1. Only(r, S) = r \/ Only(r, S) = Raises("ValueError")
    BY DEF Only, Then
  <1>2. Without(r, S) = r \/ Without(r, S) = Raises("ValueError")
    BY DEF Without, Then
  <1>3. Result(s, i, Raises("ValueError"), Basic, never)
    BY RaisesResult DEF Basic
  <1> QED
    BY <1>1, <1>2, <1>3

LEMMA ReadBoolResult ==
    ASSUME NEW s, Len(s) \in Nat, NEW i \in Places(s)
    PROVE  LET r == ReadBool(s, i)
           IN  /\ Result(s, i, r, Basic, Failures)
               /\ r.error = "none" =>
                    /\ i \in 1..Len(s) /\ s[i][1] = "u8" /\ r.value = (s[i][2] # 0)
                    /\ r.value \in BOOLEAN
                    /\ r.next = i + 1 /\ r.wire = WriteBool(r.value)
  <1> DEFINE v == Take("u8", s, i)
             r == ReadBool(s, i)
             yes == v.value # 0
  <1>0. "u8" \notin Failures
    BY DEF Failures
  <1>1. r = IF v.error # "none" THEN v ELSE Got(yes, WriteBool(yes), v.next)
    BY DEF ReadBool, Then
  <1>2. /\ Result(s, i, v, Basic, Failures)
        /\ v.error = "none" =>
              i \in 1..Len(s) /\ s[i][1] = "u8" /\ v.value = s[i][2] /\ v.next = i + 1
    BY <1>0, TakeResult
  <1>3. CASE v.error # "none"
    BY <1>1, <1>2, <1>3
  <1>4. CASE v.error = "none"
    <2>1. r = Got(yes, WriteBool(yes), v.next)
      BY <1>1, <1>4
    <2>2. Writes(WriteBool(yes), Failures)
      BY <1>0, SingleWritten DEF WriteBool
    <2>3. yes \in BOOLEAN
      OBVIOUS
    <2>4. v.next \in i..(Len(s) + 1) /\ yes = (s[i][2] # 0)
      BY <1>2, <1>4
    <2> HIDE DEF r, yes, v
    <2>5. r.value = yes /\ r.wire = WriteBool(yes) /\ r.next = v.next
      BY <2>1, GotFacts
    <2>6. Result(s, i, r, Basic, Failures)
      BY <2>1, <2>2, <2>4, GotResult
    <2> QED
      BY <2>3, <2>4, <2>5, <2>6, <1>2, <1>4 DEF r
  <1> QED
    BY <1>3, <1>4

LEMMA FailureOf ==
    ASSUME NEW s, NEW i, NEW r, Result(s, i, r, Basic, Failures), r.error # "none", NEW never
    PROVE  Result(s, i, r, Basic, never)
  <1>1. r.error \in Basic /\ r = Raises(r.error)
    BY ResultError, NoneIsNoError
  <1> QED
    BY <1>1 DEF Result

\* A reader goes on with what another one has read.
LEMMA ThenResult ==
    ASSUME NEW s, NEW i, NEW t, Result(s, i, t, Basic, Failures), NEW never,
           NEW next, NEW r, r = IF t.error # "none" THEN t ELSE next,
           t.error = "none" => Result(s, i, next, Basic, never)
    PROVE  Result(s, i, r, Basic, never)
  <1>1. CASE t.error # "none"
    BY <1>1, FailureOf
  <1>2. CASE t.error = "none"
    BY <1>2
  <1> QED
    BY <1>1, <1>2

LEMMA TakeMoves ==
    ASSUME NEW s, Len(s) \in Nat, NEW i \in Places(s), NEW code, code \notin Failures,
           NEW v, v = Take(code, s, i)
    PROVE  Result(s, i, v, Basic, Failures) /\ (v.error = "none" => v.next \in i..(Len(s) + 1))
  <1>1. Result(s, i, v, Basic, Failures)
    BY TakeResult
  <1>2. ASSUME v.error = "none" PROVE v.next \in i..(Len(s) + 1)
    <2>1. i \in 1..Len(s) /\ v.next = i + 1
      BY <1>2, TakeResult
    <2> QED
      BY <2>1
  <1> QED
    BY <1>1, <1>2

LEMMA SafeResult ==
    ASSUME NEW s, Len(s) \in Nat, NEW i \in Places(s)
    PROVE  Result(s, i, read_safe_string(s, i), Basic, Failures)
  <1> DEFINE v == Take("safe", s, i)
             string == Unflipped(v.value.string)
             next == IF ~v.value.marked THEN Raises("ValueError")
                     ELSE Got(string, WriteSafe(string), v.next)
  <1>1. "safe" \notin Failures
    BY DEF Failures
  <1>2. Result(s, i, v, Basic, Failures) /\ (v.error = "none" => v.next \in i..(Len(s) + 1))
    BY <1>1, TakeMoves
  <1>3. read_safe_string(s, i) = IF v.error # "none" THEN v ELSE next
    BY DEF read_safe_string, Then
  <1> HIDE DEF v, string
  <1>4. Writes(WriteSafe(string), Failures)
    BY <1>1, SingleWritten DEF WriteSafe
  <1>5. v.error = "none" => Result(s, i, Got(string, WriteSafe(string), v.next), Basic, Failures)
    BY <1>2, <1>4, GotResult
  <1>6. Result(s, i, Raises("ValueError"), Basic, Failures)
    BY RaisesResult DEF Basic
  <1>7. v.error = "none" => Result(s, i, next, Basic, Failures)
    BY <1>5, <1>6
  <1> QED
    BY <1>2, <1>3, <1>7, ThenResult

LEMMA BitsResult ==
    ASSUME NEW s, Len(s) \in Nat, NEW i \in Places(s)
    PROVE  Result(s, i, read_bit_vector(s, i), Basic, Failures)
  <1> DEFINE v == Take("bits", s, i)
             words == Significant(v.value)
             next == Got(words, << <<"bits", words>> >>, v.next)
  <1>1. "bits" \notin Failures
    BY DEF Failures
  <1>2. Result(s, i, v, Basic, Failures) /\ (v.error = "none" => v.next \in i..(Len(s) + 1))
    BY <1>1, TakeMoves
  <1>3. read_bit_vector(s, i) = IF v.error # "none" THEN v ELSE next
    BY DEF read_bit_vector, Then
  <1> HIDE DEF v, words
  <1>4. Writes(<< <<"bits", words>> >>, Failures)
    BY <1>1, SingleWritten
  <1>5. v.error = "none" => Result(s, i, next, Basic, Failures)
    BY <1>2, <1>4, GotResult
  <1> QED
    BY <1>2, <1>3, <1>5, ThenResult

LEMMA TimeWritten ==
    ASSUME NEW time
    PROVE  /\ Writes(WriteTime(time), {})
           /\ time[1] < Eternity => Writes(WriteTime(time), Failures)
  <1>1. "time" \notin Failures /\ "time" \notin {} /\ "struct.error" \notin {}
    BY DEF Failures
  <1>2. Writes(<< <<"time", time>> >>, Failures)
    BY <1>1, SingleWritten
  <1>3. Writes(<< <<"time", time>> >>, {})
    BY <1>1, SingleWritten
  <1>4. Writes(<< <<"struct.error", 0>> >>, {})
    BY <1>1, SingleWritten
  <1> QED
    BY <1>2, <1>3, <1>4 DEF WriteTime, Failure

LEMMA TimeResult ==
    ASSUME NEW s, Len(s) \in Nat, NEW i \in Places(s)
    PROVE  Result(s, i, read_unified_time(s, i), Basic, {})
  <1> DEFINE v == Take("time", s, i)
             time == Normalised(v.value)
             next == Got(time, WriteTime(time), v.next)
  <1>1. "time" \notin Failures
    BY DEF Failures
  <1>2. Result(s, i, v, Basic, Failures) /\ (v.error = "none" => v.next \in i..(Len(s) + 1))
    BY <1>1, TakeMoves
  <1>3. read_unified_time(s, i) = IF v.error # "none" THEN v ELSE next
    BY DEF read_unified_time, Then
  <1> HIDE DEF v, time
  <1>4. Writes(WriteTime(time), {})
    BY TimeWritten
  <1>5. v.error = "none" => Result(s, i, next, Basic, {})
    BY <1>2, <1>4, GotResult
  <1> QED
    BY <1>2, <1>3, <1>5, ThenResult

LEMMA DeliveryWritten ==
    ASSUME NEW time
    PROVE  /\ Writes(WriteDelivery(time), {})
           /\ time[1] < Eternity => Writes(WriteDelivery(time), Failures)
  <1>1. "u8" \notin Failures /\ "u8" \notin {}
    BY DEF Failures
  <1>2. Writes(<< <<"u8", 0>> >>, {}) /\ Writes(<< <<"u8", 0>> >>, Failures)
    BY <1>1, SingleWritten
  <1>3. Writes(<< <<"u8", 1>> >>, {}) /\ Writes(<< <<"u8", 1>> >>, Failures)
    BY <1>1, SingleWritten
  <1>4. Writes(<< <<"u8", 1>> >> \o WriteTime(time), {})
    BY <1>3, TimeWritten, WrittenTwice
  <1>5. time[1] < Eternity => Writes(<< <<"u8", 1>> >> \o WriteTime(time), Failures)
    BY <1>3, TimeWritten, WrittenTwice
  <1> QED
    BY <1>2, <1>4, <1>5 DEF WriteDelivery

LEMMA BoolNext ==
    ASSUME NEW s, Len(s) \in Nat, NEW i \in Places(s), ReadBool(s, i).error = "none"
    PROVE  ReadBool(s, i).next \in Places(s) /\ i < ReadBool(s, i).next
  <1>1. i \in 1..Len(s) /\ ReadBool(s, i).next = i + 1
    BY ReadBoolResult
  <1> QED
    BY <1>1 DEF Places

LEMMA TakeNext ==
    ASSUME NEW s, Len(s) \in Nat, NEW i \in Places(s), NEW code, code \notin Failures,
           Take(code, s, i).error = "none"
    PROVE  Take(code, s, i).next \in Places(s) /\ i < Take(code, s, i).next
  <1>1. i \in 1..Len(s) /\ Take(code, s, i).next = i + 1
    BY TakeResult
  <1> QED
    BY <1>1 DEF Places

LEMMA DeliveryResult ==
    ASSUME NEW s, Len(s) \in Nat, NEW i \in Places(s)
    PROVE  Result(s, i, ReadDelivery(s, i), Basic, {})
  <1> DEFINE there == ReadBool(s, i)
             v == read_unified_time(s, there.next)
             absent == Got(Start, WriteDelivery(Start), there.next)
             present == Got(v.value, WriteDelivery(v.value), v.next)
             next == IF ~there.value THEN absent ELSE IF v.error # "none" THEN v ELSE present
  <1>1. Result(s, i, there, Basic, Failures)
    BY ReadBoolResult
  <1>2. ReadDelivery(s, i) = IF there.error # "none" THEN there ELSE next
    BY DEF ReadDelivery, Then
  <1>3. ASSUME there.error = "none" PROVE Result(s, i, next, Basic, {})
    <2>1. there.next \in Places(s) /\ i < there.next
      BY <1>3, BoolNext
    <2>2. Result(s, there.next, v, Basic, {})
      BY <2>1, TimeResult
    <2>3. there.next \in i..(Len(s) + 1) /\ i \in Int /\ there.next \in Int /\ i <= there.next
      BY <2>1 DEF Places
    <2>4. Result(s, i, v, Basic, {})
      BY <2>2, <2>3, ResultMore
    <2> HIDE DEF there, v
    <2>5. Result(s, i, absent, Basic, {})
      BY <2>3, DeliveryWritten, GotResult
    <2>6. v.error = "none" => v.next \in i..(Len(s) + 1)
      BY <2>4, ResultError, NoneIsNoError
    <2>7. v.error = "none" => Result(s, i, present, Basic, {})
      BY <2>6, DeliveryWritten, GotResult
    <2> QED
      BY <2>4, <2>5, <2>7
  <1> HIDE DEF there, next
  <1> QED
    BY <1>1, <1>2, <1>3, ThenResult

LEMMA StreamWritten ==
    ASSUME NEW stream
    PROVE  Writes(WriteStream(stream), Failures) /\ Len(WriteStream(stream)) = 3
  <1> DEFINE a == <<"u32", stream.length>>
             b == <<"u8", stream.type>>
             c == <<"data", stream.data>>
             w == <<a, b, c>>
  <1>1. a[1] = "u32" /\ b[1] = "u8" /\ c[1] = "data"
    OBVIOUS
  <1>2. a[1] \notin Failures /\ b[1] \notin Failures /\ c[1] \notin Failures
    BY <1>1 DEF Failures
  <1> HIDE DEF a, b, c
  <1>3. w \in Seq({a, b, c}) /\ Len(w) = 3 /\ w[1] = a /\ w[2] = b /\ w[3] = c
    OBVIOUS
  <1>4. \A k \in 1..Len(w) : k = 1 \/ k = 2 \/ k = 3
    BY <1>3
  <1>5. Writes(w, Failures)
    BY <1>2, <1>3, <1>4 DEF Writes, IsSeq
  <1> QED
    BY <1>3, <1>5 DEF a, b, c, WriteStream

LEMMA StreamResult ==
    ASSUME NEW s, Len(s) \in Nat, NEW i \in Places(s)
    PROVE  Result(s, i, ReadStream(s, i), Basic, Failures)
  <1> DEFINE length == Take("u32", s, i)
             type == Only(Take("u8", s, length.next), {0, 2, 3})
             data == Take("data", s, type.next)
             stream == [length |-> length.value, type |-> type.value, data |-> data.value]
             got == Got(stream, WriteStream(stream), data.next)
             third == IF data.error # "none" THEN data ELSE got
             second == IF type.error # "none" THEN type ELSE third
  <1>1. ReadStream(s, i) = IF length.error # "none" THEN length ELSE second
    BY DEF ReadStream, Then
  <1>2. "u32" \notin Failures /\ "u8" \notin Failures /\ "data" \notin Failures
    BY DEF Failures
  <1>3. Result(s, i, length, Basic, Failures)
    BY <1>2, TakeResult
  <1>4. ASSUME length.error = "none" PROVE Result(s, i, second, Basic, Failures)
    <2>1. length.next \in Places(s) /\ i < length.next
      BY <1>2, <1>4, TakeNext
    <2> HIDE DEF length
    <2>2. Result(s, length.next, type, Basic, Failures)
      BY <2>1, <1>2, TakeResult, OnlyResult
    <2>3. Result(s, i, type, Basic, Failures)
      BY <2>1, <2>2, ResultMore DEF Places
    <2>4. ASSUME type.error = "none" PROVE Result(s, i, third, Basic, Failures)
      <3>1. type.next \in Places(s) /\ i <= type.next
        BY <2>1, <2>2, <2>4, ResultError, NoneIsNoError DEF Places
      <3> HIDE DEF type
      <3>2. Result(s, type.next, data, Basic, Failures)
        BY <3>1, <1>2, TakeResult
      <3>3. Result(s, i, data, Basic, Failures)
        BY <3>1, <3>2, ResultMore DEF Places
      <3> HIDE DEF data
      <3>4. ASSUME data.error = "none" PROVE Result(s, i, got, Basic, Failures)
        <4>1. data.next \in i..(Len(s) + 1)
          BY <3>3, <3>4, ResultError, NoneIsNoError
        <4> HIDE DEF stream
        <4> QED
          BY <4>1, StreamWritten, GotResult
      <3> HIDE DEF got
      <3> QED
        BY <3>3, <3>4, ThenResult
    <2> HIDE DEF type, third
    <2> QED
      BY <2>3, <2>4, ThenResult
  <1> HIDE DEF length, second
  <1> QED
    BY <1>1, <1>3, <1>4, ThenResult

LEMMA FlagsResult ==
    ASSUME NEW s, Len(s) \in Nat, NEW i \in Places(s), NEW item, item.code \notin Failures
    PROVE  LET r == ReadFlags(item, s, i)
           IN  /\ Result(s, i, r, Basic, Failures)
               /\ r.error = "none" => r.next \in Places(s) /\ i < r.next
                                      /\ r.wire = << <<item.code, r.value>> >>
  <1> DEFINE v == Take(item.code, s, i)
             flags == IF item.others = "kept" THEN v.value ELSE v.value \cap FlagsOf(item.fields)
             wrong == /\ item.others = "error" \/ (item.others = "unsupported" /\ ~Replaced)
                      /\ ~(v.value \subseteq FlagsOf(item.fields))
             w == << <<item.code, flags>> >>
             got == Got(flags, w, v.next)
             next == IF wrong THEN Raises("ValueError") ELSE got
             r == ReadFlags(item, s, i)
  <1>1. r = IF v.error # "none" THEN v ELSE next
    BY DEF ReadFlags, Then
  <1>2. Result(s, i, v, Basic, Failures)
    BY TakeResult
  <1>3. ASSUME v.error = "none"
        PROVE  v.next \in Places(s) /\ i < v.next
    BY <1>3, TakeNext
  <1>4. Writes(w, Failures)
    BY SingleWritten
  <1> HIDE DEF wrong, v, w
  <1>5. ASSUME v.error = "none" PROVE Result(s, i, got, Basic, Failures)
    BY <1>3, <1>4, <1>5, GotResult DEF Places
  <1>6. Result(s, i, Raises("ValueError"), Basic, Failures)
    BY RaisesResult DEF Basic
  <1>7. v.error = "none" => Result(s, i, next, Basic, Failures)
    BY <1>5, <1>6
  <1> HIDE DEF r, flags
  <1>8. Result(s, i, r, Basic, Failures)
    BY <1>1, <1>2, <1>7, ThenResult
  <1>9. ASSUME r.error = "none" PROVE r.next \in Places(s) /\ i < r.next /\ r.wire = << <<item.code, r.value>> >>
    <2>1. v.error = "none" /\ r = next
      BY <1>1, <1>9
    <2>2. r = got
      BY <2>1, <1>9, RaisesFacts
    <2>3. r.next = v.next /\ r.wire = w /\ r.value = flags
      BY <2>2, GotFacts
    <2> QED
      BY <2>1, <2>3, <1>3 DEF w
  <1> QED
    BY <1>8, <1>9 DEF r

LEMMA RestResult ==
    ASSUME NEW s, IsStream(s), NEW i \in Places(s)
    PROVE  Result(s, i, Got(SubSeq(s, i, Len(s)), SubSeq(s, i, Len(s)), Len(s) + 1),
                  Basic, Failures)
  <1> DEFINE w == SubSeq(s, i, Len(s))
  <1>1. /\ IsSeq(s) /\ Len(s) \in Nat /\ DOMAIN s = 1..Len(s)
        /\ \A k \in 1..Len(s) : s[k][1] \notin Failures
    BY StreamFacts DEF IsToken
  <1>2. i \in 1..(Len(s) + 1) /\ Len(s) + 1 \in i..(Len(s) + 1)
    BY <1>1 DEF Places
  <1>3. PICK S : s \in Seq(S)
    BY <1>1 DEF IsSeq
  <1>4. /\ w \in Seq(S) /\ Len(w) = Len(s) - i + 1
        /\ \A k \in 1..(Len(s) - i + 1) : w[k] = s[i + k - 1]
    BY <1>1, <1>2, <1>3, SubSeqProperties
  <1>5. ASSUME NEW k \in 1..Len(w) PROVE w[k][1] \notin Failures
    <2>1. i + k - 1 \in 1..Len(s) /\ w[k] = s[i + k - 1]
      BY <1>1, <1>2, <1>4
    <2> QED
      BY <2>1, <1>1
  <1> HIDE DEF w
  <1>6. Writes(w, Failures)
    BY <1>4, <1>5 DEF Writes, IsSeq
  <1>7. Result(s, i, Got(w, w, Len(s) + 1), Basic, Failures)
    BY <1>2, <1>6, GotResult
  <1> QED
    BY <1>7 DEF w

-----------------------------------------------------------------------------
(* What readers of everything else return.                                 *)

LEMMA ThenAnyResult ==
    ASSUME NEW s, NEW i, NEW t, NEW errors, NEW more, NEW never, NEW others,
           "none" \notin errors, errors \subseteq more, Result(s, i, t, errors, others),
           NEW next, NEW r, r = IF t.error # "none" THEN t ELSE next,
           t.error = "none" => Result(s, i, next, more, never)
    PROVE  Result(s, i, r, more, never)
  <1>1. CASE t.error # "none"
    <2>1. t.error \in errors /\ t = Raises(t.error)
      BY <1>1, ResultError
    <2> QED
      BY <1>1, <2>1 DEF Result
  <1>2. CASE t.error = "none"
    BY <1>2
  <1> QED
    BY <1>1, <1>2

LEMMA LayoutResult ==
    ASSUME NEW s, Len(s) \in Nat, NEW read, NEW layout, IsSeq(layout),
           NEW i \in Places(s), NEW errors, NEW never, "none" \notin errors,
           \A item \in Fields(layout) : \A p \in i..(Len(s) + 1) :
             Result(s, p, read[<<item, p>>], errors, never)
    PROVE  Result(s, i, ReadLayout(read, layout, i), errors, never)
  <1> DEFINE items == ItemsOf(layout)
             all == ReadAll(read, items, i)
             value == ByName(layout, Values(all.value))
             next == Got(value, all.wire, all.next)
  <1>1. DOMAIN layout = 1..Len(layout) /\ Len(layout) \in Nat
    BY SeqFacts
  <1>2. items = [k \in 1..Len(layout) |-> layout[k][2]]
    BY <1>1 DEF ItemsOf
  <1>3. IsSeq(items) /\ Len(items) = Len(layout)
    BY <1>1, <1>2, FunctionIsSeq
  <1>4. \A k \in 1..Len(items) : items[k] \in Fields(layout)
    BY <1>1, <1>2, <1>3 DEF Fields
  <1>5. ReadLayout(read, layout, i) = IF all.error # "none" THEN all ELSE next
    BY DEF ReadLayout, Then
  <1> HIDE DEF items
  <1>6. AllResult(s, read, items, i, all, Len(items), errors, never)
    BY <1>1, <1>3, <1>4, ReadAllResult
  <1>7. Result(s, i, all, errors, never)
    BY <1>6 DEF AllResult
  <1> HIDE DEF all, value
  <1>8. all.error = "none" => Result(s, i, next, errors, never)
    BY <1>7, ResultError, GotResult
  <1> HIDE DEF next
  <1> QED
    BY <1>5, <1>7, <1>8, ThenAnyResult

LEMMA ManyResult ==
    ASSUME NEW s, IsStream(s), NEW read, NEW item, item.code \in Integers_,
           NEW i \in Places(s), NEW errors, NEW never, "none" \notin errors,
           Basic \subseteq errors, never \subseteq Failures,
           \A p \in i..(Len(s) + 1) : Result(s, p, read[<<item.item, p>>], errors, never)
    PROVE  Result(s, i, ReadMany(read, item, s, i), errors, never)
  <1> DEFINE count == Take(item.code, s, i)
             items == [k \in 1..count.value |-> item.item]
             all == ReadAll(read, items, count.next)
             value == Values(all.value)
             head == << <<item.code, Len(all.value)>> >>
             w == head \o all.wire
             got == Got(value, w, all.next)
             next == IF all.error # "none" THEN all ELSE got
  <1>1. ReadMany(read, item, s, i) = IF count.error # "none" THEN count ELSE next
    BY DEF ReadMany, Then
  <1>2. item.code \notin Failures
    BY DEF Integers_, Failures
  <1>3. Len(s) \in Nat /\ \A k \in 1..Len(s) : IsToken(s[k])
    BY StreamFacts
  <1>4. Result(s, i, count, Basic, Failures)
    BY <1>2, <1>3, TakeResult
  <1>5. ASSUME count.error = "none" PROVE Result(s, i, next, errors, never)
    <2>1. count.next \in Places(s) /\ i < count.next
      BY <1>2, <1>3, <1>5, TakeNext
    <2>2. count.value \in Int
      BY <1>2, <1>3, <1>5, TakeResult DEF IsToken
    <2>3. /\ Len(items) \in Nat
          /\ \A k \in 1..Len(items) : items[k] = item.item
      <3> DEFINE n == IF count.value < 0 THEN 0 ELSE count.value
      <3>1. n \in Nat /\ 1..count.value = 1..n
        BY <2>2
      <3>2. items = [k \in 1..n |-> item.item]
        BY <3>1
      <3> HIDE DEF n, items
      <3>3. IsSeq(items) /\ Len(items) = n
        BY <3>1, <3>2, FunctionIsSeq
      <3> QED
        BY <3>1, <3>2, <3>3
    <2> HIDE DEF count, items
    <2>4. \A p \in count.next..(Len(s) + 1) : p \in i..(Len(s) + 1)
      BY <2>1, <1>3 DEF Places
    <2>5. AllResult(s, read, items, count.next, all, Len(items), errors, never)
      BY <1>3, <2>1, <2>3, <2>4, ReadAllResult
    <2>6. Result(s, count.next, all, errors, never)
      BY <2>5 DEF AllResult
    <2>7. Result(s, i, all, errors, never)
      BY <2>1, <2>6, <1>3, ResultMore DEF Places
    <2>8. ASSUME all.error = "none" PROVE Result(s, i, got, errors, never)
      <3> HIDE DEF all
      <3>1. all.next \in i..(Len(s) + 1) /\ Writes(all.wire, never)
        BY <2>7, <2>8, ResultError
      <3>2. Writes(head, never)
        BY <1>2, SingleWritten
      <3> HIDE DEF head
      <3>3. Writes(w, never)
        BY <3>1, <3>2, WrittenTwice
      <3> HIDE DEF value, w
      <3> QED
        BY <3>1, <3>3, GotResult
    <2> HIDE DEF all, got
    <2> QED
      BY <2>7, <2>8, ThenAnyResult
  <1> HIDE DEF count, next
  <1> QED
    BY <1>1, <1>4, <1>5, ThenAnyResult, NoneIsNoError

LEMMA ChoiceResult ==
    ASSUME NEW s, Len(s) \in Nat, NEW read, NEW item, IsSeq(item.yes), IsSeq(item.no),
           NEW i \in Places(s), NEW errors, NEW never, "none" \notin errors,
           Basic \subseteq errors, never \subseteq Failures,
           \A part \in Fields(item.yes) \cup Fields(item.no) : \A p \in i..(Len(s) + 1) :
             Result(s, p, read[<<part, p>>], errors, never)
    PROVE  Result(s, i, ReadChoice(read, item, s, i), errors, never)
  <1> DEFINE there == ReadBool(s, i)
             layout == IF there.value THEN item.yes ELSE item.no
             v == ReadLayout(read, layout, there.next)
             value == [there |-> there.value, value |-> v.value]
             w == there.wire \o v.wire
             got == Got(value, w, v.next)
             next == IF v.error # "none" THEN v ELSE got
  <1>1. ReadChoice(read, item, s, i) = IF there.error # "none" THEN there ELSE next
    BY DEF ReadChoice, Then
  <1>2. Result(s, i, there, Basic, Failures)
    BY ReadBoolResult
  <1>3. ASSUME there.error = "none" PROVE Result(s, i, next, errors, never)
    <2>1. there.next \in Places(s) /\ i < there.next
      BY <1>3, BoolNext
    <2>2. IsSeq(layout) /\ Fields(layout) \subseteq Fields(item.yes) \cup Fields(item.no)
      OBVIOUS
    <2>3. Writes(there.wire, never)
      BY <1>2, <1>3, ResultError, NoneIsNoError DEF Writes
    <2> HIDE DEF there, layout
    <2>4. \A p \in there.next..(Len(s) + 1) : p \in i..(Len(s) + 1)
      BY <2>1 DEF Places
    <2>5. Result(s, there.next, v, errors, never)
      BY <2>1, <2>2, <2>4, LayoutResult
    <2>6. Result(s, i, v, errors, never)
      <3>1. i \in Int /\ there.next \in Int /\ i <= there.next
        BY <2>1 DEF Places
      <3> HIDE DEF v
      <3> QED
        BY <3>1, <2>5, ResultMore
    <2>7. ASSUME v.error = "none" PROVE Result(s, i, got, errors, never)
      <3> HIDE DEF v
      <3>1. v.next \in i..(Len(s) + 1) /\ Writes(v.wire, never)
        BY <2>6, <2>7, ResultError
      <3>2. Writes(w, never)
        BY <3>1, <2>3, WrittenTwice
      <3> HIDE DEF value, w
      <3> QED
        BY <3>1, <3>2, GotResult
    <2> HIDE DEF v, got
    <2> QED
      BY <2>6, <2>7, ThenAnyResult
  <1> HIDE DEF there, next
  <1> QED
    BY <1>1, <1>2, <1>3, ThenAnyResult, NoneIsNoError

\* The fields that flags select are fields, or nothing is there.
LEMMA PresentFacts ==
    ASSUME NEW fields, IsSeq(fields), NEW flags
    PROVE  /\ IsSeq(Present(fields, flags)) /\ Len(Present(fields, flags)) = Len(fields)
           /\ \A k \in 1..Len(fields) :
                /\ Present(fields, flags)[k][1] = fields[k][2]
                /\ Present(fields, flags)[k][2] \in {fields[k][3], Nothing}
                /\ fields[k][1] = Always \/ fields[k][1] \in flags =>
                     Present(fields, flags)[k][2] = fields[k][3]
  <1> DEFINE there(k) == fields[k][1] = Always \/ fields[k][1] \in flags
             w == Present(fields, flags)
  <1>1. DOMAIN fields = 1..Len(fields) /\ Len(fields) \in Nat
    BY SeqFacts
  <1>2. w = [k \in 1..Len(fields) |->
               <<fields[k][2], IF there(k) THEN fields[k][3] ELSE Nothing>>]
    BY <1>1 DEF Present
  <1> HIDE DEF w
  <1>3. IsSeq(w) /\ Len(w) = Len(fields)
    BY <1>1, <1>2, FunctionIsSeq
  <1>4. ASSUME NEW k \in 1..Len(fields)
        PROVE  /\ w[k][1] = fields[k][2] /\ w[k][2] \in {fields[k][3], Nothing}
               /\ there(k) => w[k][2] = fields[k][3]
    <2> HIDE DEF there
    <2>1. w[k] = <<fields[k][2], IF there(k) THEN fields[k][3] ELSE Nothing>>
      BY <1>2
    <2> QED
      BY <2>1
  <1> QED
    BY <1>3, <1>4 DEF w

LEMMA FlaggedParts ==
    ASSUME NEW item, item.kind = "flagged", IsSeq(item.fields)
    PROVE  /\ Nothing \in Parts(item)
           /\ \A k \in 1..Len(item.fields) : item.fields[k][3] \in Parts(item)
  <1> DEFINE fields == item.fields
             layout == [k \in DOMAIN fields |-> <<fields[k][2], fields[k][3]>>]
  <1>1. layout \in LayoutsOf(item)
    BY DEF LayoutsOf
  <1>2. DOMAIN fields = 1..Len(fields)
    BY SeqFacts
  <1>3. Nothing \in Parts(item)
    <2>1. Nothing \in (IF item.kind = "flagged" THEN {Nothing} ELSE {})
      OBVIOUS
    <2> QED
      BY <2>1 DEF Parts
  <1>4. ASSUME NEW k \in 1..Len(fields) PROVE fields[k][3] \in Parts(item)
    <2>1. layout[k][2] = fields[k][3] /\ k \in DOMAIN layout
      BY <1>2
    <2> HIDE DEF layout
    <2>2. fields[k][3] \in Fields(layout)
      BY <2>1 DEF Fields
    <2> QED
      BY <2>2, <1>1 DEF Parts
  <1> QED
    BY <1>3, <1>4

LEMMA FlaggedResult ==
    ASSUME NEW s, Len(s) \in Nat, NEW read, NEW item, item.kind = "flagged",
           IsSeq(item.fields), item.code \notin Failures,
           NEW i \in Places(s), NEW errors, NEW never, "none" \notin errors,
           Basic \subseteq errors, never \subseteq Failures,
           \A part \in Parts(item) : \A p \in i..(Len(s) + 1) :
             Result(s, p, read[<<part, p>>], errors, never)
    PROVE  Result(s, i, ReadFlagged(read, item, s, i), errors, never)
  <1> DEFINE flags == ReadFlags(item, s, i)
             layout == Present(item.fields, flags.value)
             v == ReadLayout(read, layout, flags.next)
             value == [flags |-> flags.value, fields |-> v.value]
             w == flags.wire \o v.wire
             got == Got(value, w, v.next)
             next == IF v.error # "none" THEN v ELSE got
  <1>1. ReadFlagged(read, item, s, i) = IF flags.error # "none" THEN flags ELSE next
    BY DEF ReadFlagged, Then
  <1>2. Result(s, i, flags, Basic, Failures)
    BY FlagsResult
  <1>3. ASSUME flags.error = "none" PROVE Result(s, i, next, errors, never)
    <2>1. flags.next \in Places(s) /\ i < flags.next
      BY <1>3, FlagsResult
    <2>2. Writes(flags.wire, never)
      BY <1>2, <1>3, ResultError, NoneIsNoError DEF Writes
    <2> HIDE DEF flags
    <2>3. IsSeq(layout)
      BY PresentFacts
    <2>4. Fields(layout) \subseteq Parts(item)
      <3>1. DOMAIN layout = 1..Len(item.fields)
        BY <2>3, PresentFacts, SeqFacts
      <3>2. \A k \in 1..Len(item.fields) : layout[k][2] \in Parts(item)
        BY PresentFacts, FlaggedParts
      <3> HIDE DEF layout
      <3> QED
        BY <3>1, <3>2 DEF Fields
    <2> HIDE DEF layout
    <2>5. \A p \in flags.next..(Len(s) + 1) : p \in i..(Len(s) + 1)
      BY <2>1 DEF Places
    <2>6. Result(s, flags.next, v, errors, never)
      BY <2>1, <2>3, <2>4, <2>5, LayoutResult
    <2>7. Result(s, i, v, errors, never)
      <3>1. i \in Int /\ flags.next \in Int /\ i <= flags.next
        BY <2>1 DEF Places
      <3> HIDE DEF v
      <3> QED
        BY <3>1, <2>6, ResultMore
    <2>8. ASSUME v.error = "none" PROVE Result(s, i, got, errors, never)
      <3> HIDE DEF v
      <3>1. v.next \in i..(Len(s) + 1) /\ Writes(v.wire, never)
        BY <2>7, <2>8, ResultError
      <3>2. Writes(w, never)
        BY <3>1, <2>2, WrittenTwice
      <3> HIDE DEF value, w
      <3> QED
        BY <3>1, <3>2, GotResult
    <2> HIDE DEF v, got
    <2> QED
      BY <2>7, <2>8, ThenAnyResult
  <1> HIDE DEF flags, next
  <1> QED
    BY <1>1, <1>2, <1>3, ThenAnyResult, NoneIsNoError

\* What readers return for the fields of every class, and the errors for a class.
MembersResult(s, i, read, item, errors, never) ==
    \A class \in DOMAIN Classes[item.family] :
      /\ IsSeq(Classes[item.family][class])
      /\ \A part \in Fields(Classes[item.family][class]) : \A p \in (i + 1)..(Len(s) + 1) :
           Result(s, p, read[<<part, p>>], errors, never)

ClassErrors(s, i, item, errors) ==
    i \in 1..Len(s) /\ s[i][1] = item.code =>
      /\ s[i][2] \notin DOMAIN Classes[item.family] => UnknownClass(item.family) \in errors
      /\ Unreadable(item.family, s[i][2]) => "AttributeError" \in errors

LEMMA CreatableResult ==
    ASSUME NEW s, IsStream(s), NEW read, NEW item, item.code \in {"event", "class"},
           item.family \in DOMAIN Classes,
           NEW i \in Places(s), NEW errors, NEW never, "none" \notin errors,
           Basic \subseteq errors, never \subseteq Failures,
           MembersResult(s, i, read, item, errors, never), ClassErrors(s, i, item, errors)
    PROVE  Result(s, i, ReadCreatable(read, item, s, i), errors, never)
  <1> DEFINE class == Take(item.code, s, i)
             layout == Classes[item.family][class.value]
             v == ReadLayout(read, layout, class.next)
             value == [class |-> class.value, fields |-> v.value]
             w == class.wire \o v.wire
             got == Got(value, w, v.next)
             null == Got(<<>>, class.wire, class.next)
             next == IF class.value = "null" /\ item.family = "Message"
                     THEN IF item.nullable THEN null ELSE Raises("ValueError")
                     ELSE IF class.value \notin DOMAIN Classes[item.family]
                     THEN Raises(UnknownClass(item.family))
                     ELSE IF Unreadable(item.family, class.value) THEN Raises("AttributeError")
                     ELSE IF v.error # "none" THEN v ELSE got
  <1>1. ReadCreatable(read, item, s, i) = IF class.error # "none" THEN class ELSE next
    BY DEF ReadCreatable, Then
  <1>2. item.code \notin Failures /\ Len(s) \in Nat
    BY StreamFacts DEF Failures
  <1>3. Result(s, i, class, Basic, Failures)
    BY <1>2, TakeResult
  <1>4. ASSUME class.error = "none" PROVE Result(s, i, next, errors, never)
    <2>1. /\ class.next \in Places(s) /\ class.next = i + 1 /\ i \in 1..Len(s)
          /\ s[i][1] = item.code /\ class.value = s[i][2]
      BY <1>2, <1>4, TakeNext, TakeResult
    <2>2. Writes(class.wire, never)
      BY <1>3, <1>4, ResultError, NoneIsNoError DEF Writes
    <2> HIDE DEF class
    <2>3. Result(s, i, null, errors, never)
      <3>1. class.next \in i..(Len(s) + 1)
        BY <2>1 DEF Places
      <3> QED
        BY <3>1, <2>2, GotResult
    <2>4. Result(s, i, Raises("ValueError"), errors, never)
      BY RaisesResult DEF Basic
    <2>5. ASSUME class.value \notin DOMAIN Classes[item.family]
          PROVE  Result(s, i, Raises(UnknownClass(item.family)), errors, never)
      BY <2>1, <2>5, RaisesResult DEF ClassErrors
    <2>6. ASSUME Unreadable(item.family, class.value)
          PROVE  Result(s, i, Raises("AttributeError"), errors, never)
      BY <2>1, <2>6, RaisesResult DEF ClassErrors
    <2>7. ASSUME class.value \in DOMAIN Classes[item.family]
          PROVE  Result(s, i, IF v.error # "none" THEN v ELSE got, errors, never)
      <3>1. /\ IsSeq(layout)
            /\ \A part \in Fields(layout) : \A p \in class.next..(Len(s) + 1) :
                 Result(s, p, read[<<part, p>>], errors, never)
        BY <2>1, <2>7 DEF MembersResult
      <3> HIDE DEF layout
      <3>2. Result(s, class.next, v, errors, never)
        BY <1>2, <2>1, <3>1, LayoutResult
      <3>3. Result(s, i, v, errors, never)
        <4>1. i \in Int /\ class.next \in Int /\ i <= class.next
          BY <2>1 DEF Places
        <4> HIDE DEF v
        <4> QED
          BY <1>2, <4>1, <3>2, ResultMore
      <3>4. ASSUME v.error = "none" PROVE Result(s, i, got, errors, never)
        <4> HIDE DEF v
        <4>1. v.next \in i..(Len(s) + 1) /\ Writes(v.wire, never)
          BY <3>3, <3>4, ResultError
        <4>2. Writes(w, never)
          BY <4>1, <2>2, WrittenTwice
        <4> HIDE DEF value, w
        <4> QED
          BY <4>1, <4>2, GotResult
      <3> HIDE DEF v, got
      <3> QED
        BY <3>3, <3>4
    <2> HIDE DEF null, v, got
    <2> QED
      BY <2>3, <2>4, <2>5, <2>6, <2>7
  <1> HIDE DEF class, next
  <1> QED
    BY <1>1, <1>3, <1>4, ThenAnyResult, NoneIsNoError

LEMMA VariableResult ==
    ASSUME NEW s, Len(s) \in Nat, NEW read, NEW i \in Places(s), NEW errors,
           "none" \notin errors, Basic \subseteq errors,
           \A p \in i..(Len(s) + 1) : Result(s, p, read[<<Key, p>>], errors, {})
    PROVE  Result(s, i, ReadVariable(read, s, i), errors, {})
  <1> DEFINE type == Only(Take("i32", s, i), 1..4)
             code == IF type.value = 1 THEN "f32" ELSE "i32"
             number == Take(code, s, type.next)
             key == read[<<Key, number.next>>]
             wrong == \/ type.value \in {2, 4} /\ number.value # 0
                      \/ type.value # 2 /\ key.value.there
             got == Got([type |-> type.value, number |-> number.value, key |-> key.value],
                        Failure("AttributeError"), key.next)
             fourth == IF wrong THEN Raises("ValueError") ELSE got
             third == IF key.error # "none" THEN key ELSE fourth
             second == IF number.error # "none" THEN number ELSE third
  <1>1. ReadVariable(read, s, i) = IF type.error # "none" THEN type ELSE second
    BY DEF ReadVariable, Then
  <1>2. "i32" \notin Failures /\ "f32" \notin Failures
    BY DEF Failures
  <1>3. Result(s, i, type, Basic, Failures)
    BY <1>2, TakeResult, OnlyResult
  <1>4. Writes(Failure("AttributeError"), {})
    <2>1. "AttributeError" \notin {}
      OBVIOUS
    <2> QED
      BY <2>1, SingleWritten DEF Failure
  <1>5. ASSUME type.error = "none" PROVE Result(s, i, second, errors, {})
    <2>1. type.next \in i..(Len(s) + 1) /\ i \in Int
      BY <1>3, <1>5, ResultError, NoneIsNoError DEF Places
    <2>2. type.next \in Places(s) /\ code \notin Failures
      BY <2>1, <1>2 DEF Places
    <2> HIDE DEF type, code
    <2>3. Result(s, type.next, number, Basic, Failures)
      BY <2>2, TakeResult
    <2>4. ASSUME number.error = "none" PROVE Result(s, i, third, errors, {})
      <3>1. number.next \in i..(Len(s) + 1)
        BY <2>1, <2>3, <2>4, ResultError, NoneIsNoError
      <3> HIDE DEF number
      <3>2. Result(s, number.next, key, errors, {})
        BY <3>1
      <3> HIDE DEF key
      <3>3. Result(s, i, key, errors, {})
        <4>1. number.next \in Int /\ i <= number.next
          BY <3>1, <2>1
        <4> QED
          BY <4>1, <2>1, <3>2, ResultMore
      <3>4. key.error = "none" => Result(s, i, got, errors, {})
        <4>1. key.error = "none" => key.next \in i..(Len(s) + 1)
          BY <3>3, ResultError
        <4> QED
          BY <4>1, <1>4, GotResult
      <3>5. Result(s, i, Raises("ValueError"), errors, {})
        BY RaisesResult DEF Basic
      <3> HIDE DEF wrong, got
      <3> QED
        BY <3>3, <3>4, <3>5
    <2>5. Result(s, i, number, Basic, Failures)
      <3>1. type.next \in Int /\ i <= type.next
        BY <2>1
      <3> HIDE DEF number
      <3> QED
        BY <2>1, <2>3, <3>1, ResultMore
    <2> HIDE DEF number, third
    <2> QED
      BY <2>4, <2>5, ThenAnyResult, NoneIsNoError
  <1> HIDE DEF type, second
  <1> QED
    BY <1>1, <1>3, <1>5, ThenAnyResult, NoneIsNoError

\* What the items that an item consists of are.
LEMMA PartsFacts ==
    ASSUME NEW item
    PROVE  /\ \A layout \in LayoutsOf(item) : Fields(layout) \subseteq Parts(item)
           /\ item.kind = "many" => item.item \in Parts(item)
           /\ item.kind = "variable" => Key \in Parts(item)
           /\ item.kind = "choice" => item.yes \in LayoutsOf(item) /\ item.no \in LayoutsOf(item)
           /\ item.kind = "group" => item.layout \in LayoutsOf(item)
           /\ item.kind = "creatable" =>
                \A class \in DOMAIN Classes[item.family] :
                  Classes[item.family][class] \in LayoutsOf(item)
  <1>1. \A layout \in LayoutsOf(item) : Fields(layout) \subseteq Parts(item)
    BY DEF Parts
  <1>2. ASSUME item.kind = "many" PROVE item.item \in Parts(item)
    <2>1. item.item \in (IF item.kind = "many" THEN {item.item} ELSE {})
      BY <1>2
    <2> QED
      BY <2>1 DEF Parts
  <1>3. ASSUME item.kind = "variable" PROVE Key \in Parts(item)
    <2>1. Key \in (IF item.kind = "variable" THEN {Key} ELSE {})
      BY <1>3
    <2> QED
      BY <2>1 DEF Parts
  <1>4. ASSUME item.kind = "choice"
        PROVE  item.yes \in LayoutsOf(item) /\ item.no \in LayoutsOf(item)
    BY <1>4 DEF LayoutsOf
  <1>5. ASSUME item.kind = "group" PROVE item.layout \in LayoutsOf(item)
    BY <1>5 DEF LayoutsOf
  <1>6. ASSUME item.kind = "creatable", NEW class \in DOMAIN Classes[item.family]
        PROVE  Classes[item.family][class] \in LayoutsOf(item)
    BY <1>6 DEF LayoutsOf
  <1> QED
    BY <1>1, <1>2, <1>3, <1>4, <1>5, <1>6

LEMMA ItemFacts ==
    ASSUME NEW item \in Items
    PROVE  /\ Parts(item) \subseteq Items
           /\ \A layout \in LayoutsOf(item) : IsSeq(layout)
           /\ item.kind \in LeafKinds \cup {"choice", "many", "group", "flagged", "creatable", "variable"}
           /\ item.kind \in {"number", "legal", "except", "many", "flagged"} =>
                item.code \notin Failures \cup {"event", "class"}
           /\ item.kind = "creatable" =>
                /\ item.family \in DOMAIN Classes /\ item.code \in {"event", "class"}
                /\ item.code = "event" <=> item.family = "NotifyEvent"
           /\ item.kind = "many" => item.code \in Integers_
           /\ item.kind = "flagged" => IsSeq(item.fields)
           /\ Rank[item] \in 1..MaxRank
           /\ \A part \in Parts(item) : IsObject(item) \/ Rank[part] < Rank[item]
  BY ItemsAssumption DEF ItemsAssumption, IsLayout, IsSeq

LEMMA ReadItemResult ==
    ASSUME NEW s, IsStream(s), NEW read, NEW item \in Items,
           NEW i \in Places(s), NEW errors, NEW never, "none" \notin errors,
           Basic \subseteq errors, never \subseteq Failures,
           item.kind \in {"time", "delivery", "variable"} => never = {},
           \A part \in Parts(item) : \A p \in (IF IsObject(item) THEN i + 1 ELSE i)..(Len(s) + 1) :
             Result(s, p, read[<<part, p>>], errors, never),
           item.kind = "creatable" => ClassErrors(s, i, item, errors)
    PROVE  Result(s, i, ReadItem(read, item, s, i), errors, never)
  <1> DEFINE r == ReadItem(read, item, s, i)
  <1>0. Len(s) \in Nat /\ i \in Int
    BY StreamFacts DEF Places
  <1>1. SUFFICES ASSUME Result(s, i, r, Basic, Failures) \/ item.kind \in {"time", "delivery"}
                          => Result(s, i, r, errors, never)
                 PROVE  Result(s, i, r, errors, never)
    <2>1. ASSUME Result(s, i, r, Basic, Failures) PROVE Result(s, i, r, errors, never)
      <3> HIDE DEF r
      <3>1. i <= i
        BY <1>0
      <3> QED
        BY <2>1, <3>1, <1>0, ResultMore
    <2>2. ASSUME item.kind \in {"time", "delivery"} PROVE Result(s, i, r, errors, never)
      <3>1. Result(s, i, r, Basic, {})
        <4>1. CASE item.kind = "time"
          <5>1. r = read_unified_time(s, i)
            BY <4>1 DEF ReadItem
          <5> QED
            BY <5>1, <1>0, TimeResult
        <4>2. CASE item.kind = "delivery"
          <5>1. r = ReadDelivery(s, i)
            BY <4>2 DEF ReadItem
          <5> QED
            BY <5>1, <1>0, DeliveryResult
        <4> QED
          BY <2>2, <4>1, <4>2
      <3> HIDE DEF r
      <3>2. i <= i /\ never = {}
        BY <1>0, <2>2
      <3> QED
        BY <3>1, <3>2, <1>0, ResultMore
    <2> QED
      BY <2>1, <2>2
  <1>2. item.kind \in {"number", "legal", "except"} => item.code \notin Failures
    BY ItemFacts
  <1>3. CASE item.kind = "number"
    <2>1. r = Take(item.code, s, i)
      BY <1>3 DEF ReadItem
    <2> QED
      BY <1>0, <1>1, <1>2, <1>3, <2>1, TakeResult
  <1>4. CASE item.kind = "legal"
    <2>1. r = Only(Take(item.code, s, i), item.legal)
      BY <1>4 DEF ReadItem
    <2> QED
      BY <1>0, <1>1, <1>2, <1>4, <2>1, TakeResult, OnlyResult
  <1>5. CASE item.kind = "except"
    <2>1. r = Without(Take(item.code, s, i), {item.illegal})
      BY <1>5 DEF ReadItem
    <2> QED
      BY <1>0, <1>1, <1>2, <1>5, <2>1, TakeResult, OnlyResult
  <1>6. CASE item.kind = "bool"
    <2>1. r = ReadBool(s, i)
      BY <1>6 DEF ReadItem
    <2> QED
      BY <1>0, <1>1, <2>1, ReadBoolResult
  <1>7. CASE item.kind = "true"
    <2>1. r = Without(ReadBool(s, i), {FALSE})
      BY <1>7 DEF ReadItem
    <2> QED
      BY <1>0, <1>1, <2>1, ReadBoolResult, OnlyResult
  <1>8. CASE item.kind = "safe"
    <2>1. r = read_safe_string(s, i)
      BY <1>8 DEF ReadItem
    <2> QED
      BY <1>0, <1>1, <2>1, SafeResult
  <1>9. CASE item.kind = "bits"
    <2>1. r = read_bit_vector(s, i)
      BY <1>9 DEF ReadItem
    <2> QED
      BY <1>0, <1>1, <2>1, BitsResult
  <1>10. CASE item.kind \in {"time", "delivery"}
    BY <1>1, <1>10
  <1>11. CASE item.kind = "stream"
    <2>1. r = ReadStream(s, i)
      BY <1>11 DEF ReadItem
    <2> QED
      BY <1>0, <1>1, <2>1, StreamResult
  <1>12. CASE item.kind = "rest"
    <2>1. r = Got(SubSeq(s, i, Len(s)), SubSeq(s, i, Len(s)), Len(s) + 1)
      BY <1>12 DEF ReadItem
    <2> QED
      BY <1>0, <1>1, <2>1, RestResult
  <1>13. ~IsObject(item) => \A part \in Parts(item) : \A p \in i..(Len(s) + 1) :
                              Result(s, p, read[<<part, p>>], errors, never)
    OBVIOUS
  <1>14. CASE item.kind = "choice"
    <2>1. r = ReadChoice(read, item, s, i)
      BY <1>14 DEF ReadItem
    <2>2. ~IsObject(item)
      BY <1>14 DEF IsObject
    <2>3. /\ IsSeq(item.yes) /\ IsSeq(item.no)
          /\ Fields(item.yes) \cup Fields(item.no) \subseteq Parts(item)
      BY <1>14, ItemFacts, PartsFacts
    <2>4. Result(s, i, ReadChoice(read, item, s, i), errors, never)
      BY <1>0, <1>13, <2>2, <2>3, ChoiceResult
    <2> QED
      BY <2>1, <2>4
  <1>15. CASE item.kind = "many"
    <2>1. r = ReadMany(read, item, s, i)
      BY <1>15 DEF ReadItem
    <2>2. ~IsObject(item)
      BY <1>15 DEF IsObject
    <2>3. item.code \in Integers_ /\ item.item \in Parts(item)
      BY <1>15, ItemFacts, PartsFacts
    <2>4. Result(s, i, ReadMany(read, item, s, i), errors, never)
      BY <1>13, <2>2, <2>3, ManyResult
    <2> QED
      BY <2>1, <2>4
  <1>16. CASE item.kind = "group"
    <2>1. r = ReadLayout(read, item.layout, i)
      BY <1>16 DEF ReadItem
    <2>2. ~IsObject(item)
      BY <1>16 DEF IsObject
    <2>3. IsSeq(item.layout) /\ Fields(item.layout) \subseteq Parts(item)
      BY <1>16, ItemFacts, PartsFacts
    <2>4. Result(s, i, ReadLayout(read, item.layout, i), errors, never)
      BY <1>0, <1>13, <2>2, <2>3, LayoutResult
    <2> QED
      BY <2>1, <2>4
  <1>17. CASE item.kind = "flagged"
    <2>1. r = ReadFlagged(read, item, s, i)
      BY <1>17 DEF ReadItem
    <2>2. ~IsObject(item)
      BY <1>17 DEF IsObject
    <2>3. IsSeq(item.fields) /\ item.code \notin Failures
      BY <1>17, ItemFacts
    <2>4. Result(s, i, ReadFlagged(read, item, s, i), errors, never)
      BY <1>0, <1>13, <1>17, <2>2, <2>3, FlaggedResult
    <2> QED
      BY <2>1, <2>4
  <1>18. CASE item.kind = "creatable"
    <2>1. r = ReadCreatable(read, item, s, i)
      BY <1>18 DEF ReadItem
    <2>2. item.code \in {"event", "class"} /\ item.family \in DOMAIN Classes
      BY <1>18, ItemFacts
    <2>3. \A part \in Parts(item) : \A p \in (i + 1)..(Len(s) + 1) :
            Result(s, p, read[<<part, p>>], errors, never)
      <3>1. \A p \in (i + 1)..(Len(s) + 1) :
              p \in (IF IsObject(item) THEN i + 1 ELSE i)..(Len(s) + 1)
        BY <1>0
      <3> QED
        BY <3>1
    <2>4. \A class \in DOMAIN Classes[item.family] :
            /\ IsSeq(Classes[item.family][class])
            /\ Fields(Classes[item.family][class]) \subseteq Parts(item)
      BY <1>18, ItemFacts, PartsFacts
    <2>5. Result(s, i, ReadCreatable(read, item, s, i), errors, never)
      <3>1. MembersResult(s, i, read, item, errors, never)
        BY <2>3, <2>4 DEF MembersResult
      <3>2. ClassErrors(s, i, item, errors)
        BY <1>18
      <3> QED
        BY <2>2, <3>1, <3>2, CreatableResult
    <2> QED
      BY <2>1, <2>5
  <1>19. CASE item.kind = "variable"
    <2>1. r = ReadVariable(read, s, i)
      BY <1>19 DEF ReadItem
    <2>2. ~IsObject(item)
      BY <1>19 DEF IsObject
    <2>3. Key \in Parts(item) /\ never = {}
      BY <1>19, PartsFacts
    <2>4. Result(s, i, ReadVariable(read, s, i), errors, never)
      BY <1>0, <1>13, <2>2, <2>3, VariableResult
    <2> QED
      BY <2>1, <2>4
  <1> HIDE DEF r
  <1>20. item.kind \in LeafKinds \cup {"choice", "many", "group", "flagged", "creatable", "variable"}
    BY ItemFacts
  <1> QED
    BY <1>3, <1>4, <1>5, <1>6, <1>7, <1>8, <1>9, <1>10, <1>11, <1>12, <1>14, <1>15,
       <1>16, <1>17, <1>18, <1>19, <1>20 DEF LeafKinds

-----------------------------------------------------------------------------
(* How deep readers call each other.                                       *)

ClassPlaces(s, i) == {k \in i..Len(s) : s[k][1] = "class"}

LEMMA ClassPlacesFacts ==
    ASSUME NEW s, IsStream(s), NEW i \in Places(s)
    PROVE  /\ Cardinality(ClassPlaces(s, i)) \in Nat
           /\ \A p \in i..(Len(s) + 1) :
                Cardinality(ClassPlaces(s, p)) <= Cardinality(ClassPlaces(s, i))
           /\ i \in 1..Len(s) /\ s[i][1] = "class" =>
                \A p \in (i + 1)..(Len(s) + 1) :
                  Cardinality(ClassPlaces(s, p)) + 1 <= Cardinality(ClassPlaces(s, i))
  <1>0. Len(s) \in Nat /\ i \in Nat
    BY StreamFacts DEF Places
  <1>1. IsFiniteSet(ClassPlaces(s, i))
    <2>1. IsFiniteSet(i..Len(s))
      BY <1>0, FS_Interval
    <2> QED
      BY <2>1, FS_Subset DEF ClassPlaces
  <1>2. Cardinality(ClassPlaces(s, i)) \in Nat
    BY <1>1, FS_CardinalityType
  <1>3. ASSUME NEW p \in i..(Len(s) + 1)
        PROVE  ClassPlaces(s, p) \subseteq ClassPlaces(s, i)
    BY <1>0 DEF ClassPlaces
  <1>4. ASSUME NEW p \in i..(Len(s) + 1)
        PROVE  Cardinality(ClassPlaces(s, p)) <= Cardinality(ClassPlaces(s, i))
    BY <1>1, <1>3, FS_Subset
  <1>5. ASSUME i \in 1..Len(s), s[i][1] = "class", NEW p \in (i + 1)..(Len(s) + 1)
        PROVE  Cardinality(ClassPlaces(s, p)) + 1 <= Cardinality(ClassPlaces(s, i))
    <2>1. i \in ClassPlaces(s, i) /\ i \notin ClassPlaces(s, p) /\ p \in i..(Len(s) + 1)
      BY <1>0, <1>5 DEF ClassPlaces
    <2>2. ClassPlaces(s, p) \subseteq ClassPlaces(s, i) \ {i}
      BY <1>3, <2>1
    <2>3. /\ IsFiniteSet(ClassPlaces(s, i) \ {i})
          /\ Cardinality(ClassPlaces(s, i) \ {i}) = Cardinality(ClassPlaces(s, i)) - 1
      BY <1>1, <2>1, FS_RemoveElement
    <2>4. Cardinality(ClassPlaces(s, p)) <= Cardinality(ClassPlaces(s, i) \ {i})
      BY <2>2, <2>3, FS_Subset
    <2>5. Cardinality(ClassPlaces(s, p)) \in Nat
      BY <2>2, <2>3, FS_Subset, FS_CardinalityType
    <2> QED
      BY <1>2, <2>3, <2>4, <2>5
  <1> QED
    BY <1>2, <1>4, <1>5

\* The exceptions of readers: those for classes if there is such a class.
EngineErrors(s) ==
    Basic \cup {"UnknownClassIndexError"}
      \cup (IF \E k \in 1..Len(s) : s[k][1] = "event" /\ s[k][2] = "OfferLinkingBookEvent"
            THEN {"AttributeError"} ELSE {})
      \cup (IF \E k \in 1..Len(s) : s[k][1] = "event" /\ s[k][2] \notin DOMAIN Classes.NotifyEvent
            THEN {"NotImplementedError"} ELSE {})

TooDeep(s, n, item, i) == n < Rank[item] + MaxRank * Cardinality(ClassPlaces(s, i))

ErrorsAt(s, n, item, i) ==
    EngineErrors(s) \cup (IF TooDeep(s, n, item, i) THEN {"RecursionError"} ELSE {})

LEMMA EngineErrorsFacts ==
    ASSUME NEW s, NEW n, NEW item, NEW i
    PROVE  "none" \notin ErrorsAt(s, n, item, i) /\ Basic \subseteq ErrorsAt(s, n, item, i)
  BY DEF ErrorsAt, EngineErrors, Basic

LEMMA LessDeep ==
    ASSUME NEW n \in Nat, NEW q \in 1..7, NEW r \in 1..7, NEW a \in Nat, NEW b \in Nat,
           n < q + 7 * a, a + 1 <= b \/ (a <= b /\ q < r)
    PROVE  n + 1 < r + 7 * b
  OBVIOUS

\* What is in an item isn't nested too deeply if the item isn't.
LEMMA PartsLessDeep ==
    ASSUME NEW s, IsStream(s), NEW item \in Items, NEW i \in Places(s), NEW n \in Nat,
           IsObject(item) => i \in 1..Len(s) /\ s[i][1] = "class",
           NEW part \in Parts(item), NEW p \in (IF IsObject(item) THEN i + 1 ELSE i)..(Len(s) + 1),
           TooDeep(s, n, part, p)
    PROVE  TooDeep(s, n + 1, item, i)
  <1> DEFINE a == Cardinality(ClassPlaces(s, p))
             b == Cardinality(ClassPlaces(s, i))
  <1>0. Len(s) \in Nat /\ i \in Nat /\ p \in Places(s)
    BY StreamFacts DEF Places
  <1>1. part \in Items /\ Rank[part] \in 1..MaxRank /\ Rank[item] \in 1..MaxRank
    BY ItemFacts
  <1>2. a \in Nat /\ b \in Nat
    BY <1>0, ClassPlacesFacts
  <1>3. CASE IsObject(item)
    <2>1. a + 1 <= b
      BY <1>3, ClassPlacesFacts
    <2>2. n < Rank[part] + MaxRank * a
      BY DEF TooDeep
    <2> HIDE DEF a, b
    <2>3. n + 1 < Rank[item] + MaxRank * b
      BY <1>1, <1>2, <2>1, <2>2, LessDeep DEF MaxRank
    <2> QED
      BY <2>3 DEF TooDeep, b
  <1>4. CASE ~IsObject(item)
    <2>1. a <= b
      BY <1>0, <1>4, ClassPlacesFacts
    <2>2. n < Rank[part] + MaxRank * a
      BY DEF TooDeep
    <2>3. Rank[part] < Rank[item]
      BY <1>4, ItemFacts
    <2> HIDE DEF a, b
    <2>4. n + 1 < Rank[item] + MaxRank * b
      BY <1>1, <1>2, <2>1, <2>2, <2>3, LessDeep DEF MaxRank
    <2> QED
      BY <2>4 DEF TooDeep, b
  <1> QED
    BY <1>3, <1>4

\* No reader of an object goes on without a class.
LEMMA NoClassResult ==
    ASSUME NEW s, IsStream(s), NEW read, NEW item \in Items, IsObject(item), NEW i \in Places(s),
           ~(i \in 1..Len(s) /\ s[i][1] = "class")
    PROVE  Result(s, i, ReadItem(read, item, s, i), Basic, Failures)
  <1> DEFINE t == Take("class", s, i)
  <1>1. ReadItem(read, item, s, i) = ReadCreatable(read, item, s, i)
    BY DEF ReadItem, IsObject
  <1>2. Len(s) \in Nat /\ "class" \notin Failures
    BY StreamFacts DEF Failures
  <1>3. Result(s, i, t, Basic, Failures) /\ t.error # "none"
    BY <1>2, TakeResult
  <1>4. ReadCreatable(read, item, s, i) = t
    <2>1. item.code = "class"
      BY DEF IsObject
    <2>2. Take(item.code, s, i).error # "none"
      BY <2>1, <1>3
    <2>3. ReadCreatable(read, item, s, i) = Take(item.code, s, i)
      BY <2>2 DEF ReadCreatable, Then
    <2> QED
      BY <2>1, <2>3
  <1> QED
    BY <1>1, <1>3, <1>4

LEMMA EngineClassErrors ==
    ASSUME NEW s, NEW item \in Items, item.kind = "creatable", NEW i, NEW n
    PROVE  ClassErrors(s, i, item, ErrorsAt(s, n, item, i))
  <1>1. /\ item.code = "event" <=> item.family = "NotifyEvent"
    BY ItemFacts
  <1> SUFFICES ASSUME i \in 1..Len(s), s[i][1] = item.code
               PROVE  /\ s[i][2] \notin DOMAIN Classes[item.family] =>
                           UnknownClass(item.family) \in EngineErrors(s)
                      /\ Unreadable(item.family, s[i][2]) => "AttributeError" \in EngineErrors(s)
    BY DEF ClassErrors, ErrorsAt
  <1>2. CASE item.family = "NotifyEvent"
    <2>1. s[i][1] = "event"
      BY <1>1, <1>2
    <2>2. ASSUME s[i][2] \notin DOMAIN Classes[item.family]
          PROVE  UnknownClass(item.family) \in EngineErrors(s)
      <3>1. s[i][2] \notin DOMAIN Classes.NotifyEvent
        BY <1>2, <2>2
      <3>2. "NotImplementedError" \in EngineErrors(s)
        BY <2>1, <3>1 DEF EngineErrors
      <3> QED
        BY <1>2, <3>2 DEF UnknownClass
    <2>3. ASSUME Unreadable(item.family, s[i][2])
          PROVE  "AttributeError" \in EngineErrors(s)
      BY <2>1, <2>3 DEF EngineErrors, Unreadable
    <2> QED
      BY <2>2, <2>3
  <1>3. CASE item.family # "NotifyEvent"
    BY <1>3 DEF EngineErrors, UnknownClass, Unreadable
  <1> QED
    BY <1>2, <1>3

\* Whatever an item is in a stream: its reader raises an exception that the stream
\* gives it a reason for.
LEMMA EngineResult ==
    ASSUME NEW s, IsStream(s)
    PROVE  \A n \in Nat : \A item \in Items : \A i \in Places(s) :
             Result(s, i, Readers(s)[n][<<item, i>>], ErrorsAt(s, n, item, i), {})
  <1> DEFINE Good(n) == \A item \in Items : \A i \in Places(s) :
               Result(s, i, Readers(s)[n][<<item, i>>], ErrorsAt(s, n, item, i), {})
             S == {n \in Nat : Good(n)}
  <1>0. Len(s) \in Nat
    BY StreamFacts
  <1>1. Good(0)
    <2> SUFFICES ASSUME NEW item \in Items, NEW i \in Places(s)
                 PROVE  Result(s, i, Readers(s)[0][<<item, i>>], ErrorsAt(s, 0, item, i), {})
      OBVIOUS
    <2>1. Readers(s)[0][<<item, i>>] = Raises("RecursionError")
      BY ReadersDef
    <2>2. Rank[item] \in 1..MaxRank /\ Cardinality(ClassPlaces(s, i)) \in Nat
      BY ItemFacts, ClassPlacesFacts
    <2>3. TooDeep(s, 0, item, i)
      BY <2>2 DEF TooDeep, MaxRank
    <2>4. "RecursionError" \in ErrorsAt(s, 0, item, i)
      BY <2>3 DEF ErrorsAt
    <2> QED
      BY <2>1, <2>4, RaisesResult
  <1>2. ASSUME NEW n \in Nat, Good(n) PROVE Good(n + 1)
    <2> SUFFICES ASSUME NEW item \in Items, NEW i \in Places(s)
                 PROVE  Result(s, i, Readers(s)[n + 1][<<item, i>>],
                               ErrorsAt(s, n + 1, item, i), {})
      OBVIOUS
    <2> DEFINE read == Readers(s)[n]
               errors == ErrorsAt(s, n + 1, item, i)
    <2>1. Readers(s)[n + 1][<<item, i>>] = ReadItem(read, item, s, i)
      BY ReadersDef
    <2>2. \A part \in Items : \A p \in Places(s) :
            Result(s, p, read[<<part, p>>], ErrorsAt(s, n, part, p), {})
      BY <1>2
    <2> HIDE DEF Good, read
    <2>3. "none" \notin errors /\ Basic \subseteq errors /\ {} \subseteq Failures
          /\ Failures \subseteq Failures
      BY EngineErrorsFacts
    <2>4. item.kind = "creatable" => ClassErrors(s, i, item, errors)
      BY EngineClassErrors
    <2>5. i \in Int /\ i <= i
      BY DEF Places
    <2>6. CASE IsObject(item) /\ ~(i \in 1..Len(s) /\ s[i][1] = "class")
      <3>1. Result(s, i, ReadItem(read, item, s, i), Basic, Failures)
        BY <2>6, NoClassResult
      <3> HIDE DEF errors
      <3>2. Result(s, i, ReadItem(read, item, s, i), errors, {})
        BY <3>1, <2>3, <2>5, <1>0, ResultMore
      <3> QED
        BY <3>2, <2>1 DEF errors
    <2>7. CASE IsObject(item) => i \in 1..Len(s) /\ s[i][1] = "class"
      <3>1. ASSUME NEW part \in Parts(item),
                   NEW p \in (IF IsObject(item) THEN i + 1 ELSE i)..(Len(s) + 1)
            PROVE  Result(s, p, read[<<part, p>>], errors, {})
        <4>1. part \in Items /\ p \in Places(s) /\ p \in Int /\ p <= p
          <5>1. part \in Items
            BY ItemFacts
          <5>2. p \in Int /\ i <= p /\ p <= Len(s) + 1 /\ 1 <= i
            BY <1>0, <2>5 DEF Places
          <5> QED
            BY <5>1, <5>2, <1>0 DEF Places
        <4>2. Result(s, p, read[<<part, p>>], ErrorsAt(s, n, part, p), {})
          BY <4>1, <2>2
        <4>3. TooDeep(s, n, part, p) => TooDeep(s, n + 1, item, i)
          BY <2>7, PartsLessDeep
        <4>4. ErrorsAt(s, n, part, p) \subseteq errors /\ {} \subseteq {}
          BY <4>3 DEF ErrorsAt
        <4> HIDE DEF errors
        <4> QED
          BY <4>1, <4>2, <4>4, <1>0, ResultMore
      <3> HIDE DEF errors
      <3>2. Result(s, i, ReadItem(read, item, s, i), errors, {})
        BY <2>3, <2>4, <3>1, ReadItemResult
      <3> QED
        BY <3>2, <2>1 DEF errors
    <2> QED
      BY <2>6, <2>7
  <1>3. Nat \subseteq S
    <2> HIDE DEF Good
    <2>1. 0 \in S
      BY <1>1
    <2>2. ASSUME NEW n \in Nat, n \in S PROVE n + 1 \in S
      BY <2>2, <1>2
    <2> HIDE DEF S
    <2> QED
      BY <2>1, <2>2, Induction
  <1> QED
    BY <1>3

\* What is written of items of net messages can be, but for the times.
NeverOf(item) ==
    IF item = NetMessageHeader \/ item.kind \in {"time", "delivery"} THEN {} ELSE Failures

NetErrors(n, item) == Basic \cup (IF n < Rank[item] THEN {"RecursionError"} ELSE {})

LEMMA NetItemFacts ==
    ASSUME NEW item \in NetItems
    PROVE  /\ item \in Items /\ item.kind \notin {"choice", "creatable", "variable"}
           /\ \A part \in Parts(item) :
                /\ part \in NetItems /\ part.kind \notin {"rest", "delivery", "stream"}
                /\ part.kind = "time" => item = NetMessageHeader
                /\ part # NetMessageHeader /\ Rank[part] < Rank[item]
                /\ Rank[part] \in Nat
           /\ Rank[item] \in 1..MaxRank /\ ~IsObject(item)
  <1>1. item \in Items /\ item.kind \notin {"choice", "creatable", "variable"}
    BY ItemsAssumption DEF ItemsAssumption, Items
  <1>2. ~IsObject(item)
    BY <1>1 DEF IsObject
  <1>3. ASSUME NEW part \in Parts(item)
        PROVE  /\ part \in NetItems /\ part.kind \notin {"rest", "delivery", "stream"}
               /\ part.kind = "time" => item = NetMessageHeader
               /\ part # NetMessageHeader
    BY ItemsAssumption DEF ItemsAssumption
  <1>4. \A part \in Parts(item) : Rank[part] < Rank[item] /\ Rank[part] \in 1..MaxRank
    BY <1>1, <1>2, ItemFacts
  <1>5. Rank[item] \in 1..MaxRank /\ 1..MaxRank \subseteq Nat
    BY <1>1, ItemFacts DEF MaxRank
  <1> QED
    BY <1>1, <1>2, <1>3, <1>4, <1>5

LEMMA NetResult ==
    ASSUME NEW s, IsStream(s)
    PROVE  \A n \in Nat : \A item \in NetItems : \A i \in Places(s) :
             Result(s, i, Readers(s)[n][<<item, i>>], NetErrors(n, item), NeverOf(item))
  <1> DEFINE Good(n) == \A item \in NetItems : \A i \in Places(s) :
               Result(s, i, Readers(s)[n][<<item, i>>], NetErrors(n, item), NeverOf(item))
             S == {n \in Nat : Good(n)}
  <1>0. Len(s) \in Nat
    BY StreamFacts
  <1>1. Good(0)
    <2> SUFFICES ASSUME NEW item \in NetItems, NEW i \in Places(s)
                 PROVE  Result(s, i, Readers(s)[0][<<item, i>>], NetErrors(0, item), NeverOf(item))
      OBVIOUS
    <2>1. Readers(s)[0][<<item, i>>] = Raises("RecursionError")
      BY ReadersDef, NetItemFacts
    <2>2. "RecursionError" \in NetErrors(0, item)
      BY NetItemFacts DEF NetErrors, MaxRank
    <2> QED
      BY <2>1, <2>2, RaisesResult
  <1>2. ASSUME NEW n \in Nat, Good(n) PROVE Good(n + 1)
    <2> SUFFICES ASSUME NEW item \in NetItems, NEW i \in Places(s)
                 PROVE  Result(s, i, Readers(s)[n + 1][<<item, i>>],
                               NetErrors(n + 1, item), NeverOf(item))
      OBVIOUS
    <2> DEFINE read == Readers(s)[n]
               errors == NetErrors(n + 1, item)
               never == NeverOf(item)
    <2>1. item \in Items /\ Readers(s)[n + 1][<<item, i>>] = ReadItem(read, item, s, i)
      BY ReadersDef, NetItemFacts
    <2>2. \A part \in NetItems : \A p \in Places(s) :
            Result(s, p, read[<<part, p>>], NetErrors(n, part), NeverOf(part))
      BY <1>2
    <2> HIDE DEF Good, read
    <2>3. "none" \notin errors /\ Basic \subseteq errors /\ never \subseteq Failures
      BY DEF NetErrors, NeverOf, Basic
    <2>4. /\ item.kind \notin {"choice", "creatable", "variable"}
          /\ item.kind \in {"time", "delivery", "variable"} => never = {}
      BY NetItemFacts DEF NeverOf
    <2>5. ASSUME NEW part \in Parts(item),
                 NEW p \in (IF IsObject(item) THEN i + 1 ELSE i)..(Len(s) + 1)
          PROVE  Result(s, p, read[<<part, p>>], errors, never)
      <3>1. p \in Places(s) /\ p \in Int /\ p <= p
        <4>1. p \in i..(Len(s) + 1)
          BY NetItemFacts
        <4> QED
          BY <4>1, <1>0 DEF Places
      <3>2. Result(s, p, read[<<part, p>>], NetErrors(n, part), NeverOf(part))
        BY <3>1, <2>2, NetItemFacts
      <3>3. NetErrors(n, part) \subseteq errors
        <4>1. Rank[part] < Rank[item] /\ Rank[part] \in Nat /\ Rank[item] \in Nat
          BY NetItemFacts DEF MaxRank
        <4>2. n < Rank[part] => n + 1 < Rank[item]
          BY <4>1
        <4> QED
          BY <4>2 DEF NetErrors
      <3>4. never \subseteq NeverOf(part)
        BY NetItemFacts DEF NeverOf
      <3> HIDE DEF errors, never
      <3> QED
        BY <3>1, <3>2, <3>3, <3>4, <1>0, ResultMore
    <2> HIDE DEF errors, never
    <2>6. Result(s, i, ReadItem(read, item, s, i), errors, never)
      BY <2>1, <2>3, <2>4, <2>5, ReadItemResult
    <2> QED
      BY <2>6, <2>1 DEF errors, never
  <1>3. Nat \subseteq S
    <2> HIDE DEF Good
    <2>1. 0 \in S
      BY <1>1
    <2>2. ASSUME NEW n \in Nat, n \in S PROVE n + 1 \in S
      BY <2>2, <1>2
    <2> HIDE DEF S
    <2> QED
      BY <2>1, <2>2, Induction
  <1> QED
    BY <1>3

\* Net messages aren't nested: their items can be read at the level that is asked.
LEMMA NetResultDeep ==
    ASSUME NEW s, IsStream(s), NEW n \in Nat, NEW item \in NetItems, Rank[item] <= n,
           NEW i \in Places(s)
    PROVE  Result(s, i, Readers(s)[n][<<item, i>>], Basic, NeverOf(item))
  <1>1. NetErrors(n, item) = Basic
    <2>1. Rank[item] \in Nat
      BY NetItemFacts DEF MaxRank
    <2>2. ~(n < Rank[item])
      BY <2>1
    <2> QED
      BY <2>2 DEF NetErrors
  <1> QED
    BY <1>1, NetResult

-----------------------------------------------------------------------------
(* What was read.                                                          *)

LEMMA TakeRead ==
    ASSUME NEW s, Len(s) \in Nat, NEW i \in Places(s), NEW code,
           Take(code, s, i).error = "none"
    PROVE  /\ i \in 1..Len(s) /\ s[i][1] = code /\ i + 1 \in Places(s)
           /\ Take(code, s, i).value = s[i][2] /\ Take(code, s, i).next = i + 1
           /\ Take(code, s, i).wire = << <<code, s[i][2]>> >>
  <1> DEFINE r == Take(code, s, i)
             w == << <<code, s[i][2]>> >>
  <1>1. r # Raises("EOFError") /\ r # Raises("Misread")
    BY RaisesFacts
  <1>2. i \in 1..Len(s) /\ s[i][1] = code /\ r = Got(s[i][2], w, i + 1)
    BY <1>1, TakeCases
  <1>3. i + 1 \in Places(s)
    BY <1>2 DEF Places
  <1> HIDE DEF r, w
  <1>4. r.value = s[i][2] /\ r.next = i + 1 /\ r.wire = w
    BY <1>2, GotFacts
  <1> QED
    BY <1>2, <1>3, <1>4 DEF r, w

LEMMA OnlyRead ==
    ASSUME NEW r, NEW S
    PROVE  /\ Only(r, S).error = "none" => r.error = "none" /\ r.value \in S /\ Only(r, S) = r
           /\ r.error = "none" /\ r.value \in S => Only(r, S) = r
           /\ Without(r, S).error = "none" => r.error = "none" /\ r.value \notin S /\ Without(r, S) = r
           /\ r.error = "none" /\ r.value \notin S => Without(r, S) = r
  <1>1. Raises("ValueError").error # "none"
    BY RaisesFacts
  <1> QED
    BY <1>1 DEF Only, Without, Then

LEMMA StreamRead ==
    ASSUME NEW s, Len(s) \in Nat, NEW i \in Places(s), NEW r, r = ReadStream(s, i),
           r.error = "none"
    PROVE  /\ i + 2 \in 1..Len(s) /\ i \in 1..Len(s) /\ i + 1 \in 1..Len(s)
           /\ s[i][1] = "u32" /\ s[i + 1][1] = "u8" /\ s[i + 2][1] = "data"
           /\ s[i + 1][2] \in {0, 2, 3}
           /\ r.value = [length |-> s[i][2], type |-> s[i + 1][2], data |-> s[i + 2][2]]
           /\ r.wire = WriteStream(r.value) /\ r.next = i + 3
  <1> DEFINE length == Take("u32", s, i)
             byte == Take("u8", s, length.next)
             type == Only(byte, {0, 2, 3})
             data == Take("data", s, type.next)
             stream == [length |-> length.value, type |-> type.value, data |-> data.value]
             got == Got(stream, WriteStream(stream), data.next)
             third == IF data.error # "none" THEN data ELSE got
             second == IF type.error # "none" THEN type ELSE third
  <1>1. r = IF length.error # "none" THEN length ELSE second
    BY DEF ReadStream, Then
  <1> HIDE DEF second
  <1> HIDE DEF length
  <1>2. length.error = "none" /\ r = second
    BY <1>1
  <1> HIDE DEF type, third
  <1>3. type.error = "none" /\ r = third
    BY <1>2 DEF second
  <1> HIDE DEF data, got
  <1>4. data.error = "none" /\ r = got
    BY <1>3 DEF third
  <1>5. /\ i \in 1..Len(s) /\ s[i][1] = "u32" /\ i + 1 \in Places(s)
        /\ length.value = s[i][2] /\ length.next = i + 1
    BY <1>2, TakeRead DEF length
  <1> HIDE DEF byte
  <1>6. byte.error = "none" /\ byte.value \in {0, 2, 3} /\ type = byte
    BY <1>3, OnlyRead DEF type
  <1>7. /\ i + 1 \in 1..Len(s) /\ s[i + 1][1] = "u8" /\ i + 1 + 1 \in Places(s)
        /\ type.value = s[i + 1][2] /\ type.next = i + 1 + 1 /\ s[i + 1][2] \in {0, 2, 3}
    <2>1. byte = Take("u8", s, i + 1)
      BY <1>5 DEF byte
    <2> QED
      BY <2>1, <1>5, <1>6, TakeRead
  <1>8. i + 1 + 1 = i + 2 /\ i + 2 + 1 = i + 3
    BY <1>5
  <1>9. /\ i + 2 \in 1..Len(s) /\ s[i + 2][1] = "data"
        /\ data.value = s[i + 2][2] /\ data.next = i + 3
    <2>1. data = Take("data", s, i + 2) /\ i + 2 \in Places(s)
      BY <1>7, <1>8 DEF data
    <2> QED
      BY <2>1, <1>4, <1>8, TakeRead
  <1>10. stream = [length |-> s[i][2], type |-> s[i + 1][2], data |-> s[i + 2][2]]
    BY <1>5, <1>7, <1>9
  <1> HIDE DEF stream
  <1>11. r.value = stream /\ r.wire = WriteStream(stream) /\ r.next = data.next
    BY <1>4, GotFacts DEF got
  <1> QED
    BY <1>5, <1>7, <1>9, <1>10, <1>11

LEMMA DeliveryRead ==
    ASSUME NEW s, NEW i, NEW r, r = ReadDelivery(s, i), r.error = "none"
    PROVE  r.wire = WriteDelivery(r.value)
  <1> DEFINE there == ReadBool(s, i)
             v == read_unified_time(s, there.next)
             absent == Got(Start, WriteDelivery(Start), there.next)
             present == Got(v.value, WriteDelivery(v.value), v.next)
             next == IF ~there.value THEN absent ELSE IF v.error # "none" THEN v ELSE present
  <1>1. ReadDelivery(s, i) = IF there.error # "none" THEN there ELSE next
    BY DEF ReadDelivery, Then
  <1> HIDE DEF there, v, absent, present
  <1>2. r = absent \/ r = present
    BY <1>1
  <1>3. CASE r = absent
    BY <1>3, GotFacts DEF absent
  <1>4. CASE r = present
    BY <1>4, GotFacts DEF present
  <1> QED
    BY <1>2, <1>3, <1>4

\* The parts of a layout were read at places of the stream.
ReadsOf(s, read, layout, i, results) ==
    /\ IsSeq(results) /\ Len(results) = Len(layout)
    /\ \A k \in 1..Len(layout) :
         /\ results[k].error = "none"
         /\ \E p \in i..(Len(s) + 1) : results[k] = read[<<layout[k][2], p>>]

LEMMA LayoutRead ==
    ASSUME NEW s, Len(s) \in Nat, NEW read, NEW layout, IsSeq(layout),
           NEW i \in Places(s), NEW errors, NEW never, "none" \notin errors,
           \A item \in Fields(layout) : \A p \in i..(Len(s) + 1) :
             Result(s, p, read[<<item, p>>], errors, never),
           NEW all, all = ReadAll(read, ItemsOf(layout), i), all.error = "none"
    PROVE  /\ ReadsOf(s, read, layout, i, all.value) /\ Result(s, i, all, errors, never)
           /\ (\A k \in 1..Len(layout) : Writes(all.value[k].wire, Failures)) =>
                Writes(all.wire, Failures)
  <1> DEFINE items == ItemsOf(layout)
  <1>1. DOMAIN layout = 1..Len(layout) /\ Len(layout) \in Nat
    BY SeqFacts
  <1>2. items = [k \in 1..Len(layout) |-> layout[k][2]]
    BY <1>1 DEF ItemsOf
  <1>3. IsSeq(items) /\ Len(items) = Len(layout)
    BY <1>1, <1>2, FunctionIsSeq
  <1>4. \A k \in 1..Len(items) : items[k] \in Fields(layout) /\ items[k] = layout[k][2]
    BY <1>1, <1>2, <1>3 DEF Fields
  <1> HIDE DEF items
  <1>5. all = ReadAll(read, items, i)
    BY DEF items
  <1>6. AllResult(s, read, items, i, all, Len(items), errors, never)
    BY <1>1, <1>3, <1>4, <1>5, ReadAllResult
  <1>7. PartsRead(s, read, items, i, all, Len(layout)) /\ Result(s, i, all, errors, never)
    BY <1>3, <1>6 DEF AllResult
  <1>8. /\ IsSeq(all.value) /\ Len(all.value) = Len(layout)
        /\ \A k \in 1..Len(layout) :
             /\ all.value[k].error = "none"
             /\ \E p \in i..(Len(s) + 1) : all.value[k] = read[<<items[k], p>>]
    BY <1>7 DEF PartsRead
  <1>9. ReadsOf(s, read, layout, i, all.value)
    BY <1>3, <1>4, <1>8 DEF ReadsOf
  <1> QED
    BY <1>7, <1>9 DEF PartsRead

\* The value of a field is that of the result for its name.
LEMMA FieldRead ==
    ASSUME NEW layout, IsSeq(layout), NEW results, IsSeq(results), Len(results) = Len(layout),
           NEW name
    PROVE  LET fields == ByName(layout, Values(results))
               k == Place(layout, name)
           IN  /\ name \in DOMAIN fields <=> \E l \in 1..Len(layout) : layout[l][1] = name
               /\ name \in DOMAIN fields =>
                    /\ k \in 1..Len(layout) /\ layout[k][1] = name
                    /\ fields[name] = results[k].value
                    /\ ByName(layout, Wires(results))[name] = results[k].wire
  <1> DEFINE names == {layout[k][1] : k \in DOMAIN layout}
             k == Place(layout, name)
  <1>1. DOMAIN layout = 1..Len(layout) /\ DOMAIN results = 1..Len(layout)
    BY SeqFacts
  <1>2. ASSUME name \in names PROVE k \in 1..Len(layout) /\ layout[k][1] = name
    <2>1. \E l \in DOMAIN layout : layout[l][1] = name
      BY <1>2
    <2> QED
      BY <2>1, <1>1 DEF Place
  <1>3. name \in names <=> \E l \in 1..Len(layout) : layout[l][1] = name
    BY <1>1
  <1>4. ASSUME name \in names
        PROVE  /\ ByName(layout, Values(results))[name] = Values(results)[k]
               /\ ByName(layout, Wires(results))[name] = Wires(results)[k]
    BY <1>4 DEF ByName
  <1>5. ASSUME k \in 1..Len(layout)
        PROVE  Values(results)[k] = results[k].value /\ Wires(results)[k] = results[k].wire
    <2> HIDE DEF k
    <2> QED
      BY <1>1, <1>5 DEF Values, Wires
  <1>6. DOMAIN ByName(layout, Values(results)) = names
    BY DEF ByName
  <1> HIDE DEF names, k
  <1> QED
    BY <1>2, <1>3, <1>4, <1>5, <1>6 DEF k

LEMMA LayoutDone ==
    ASSUME NEW read, NEW layout, NEW i, NEW r, r = ReadLayout(read, layout, i), r.error = "none"
    PROVE  LET all == ReadAll(read, ItemsOf(layout), i)
           IN  /\ all.error = "none" /\ r.value = ByName(layout, Values(all.value))
               /\ r.wire = all.wire /\ r.next = all.next
  <1> DEFINE all == ReadAll(read, ItemsOf(layout), i)
             value == ByName(layout, Values(all.value))
             next == Got(value, all.wire, all.next)
  <1>1. r = IF all.error # "none" THEN all ELSE next
    BY DEF ReadLayout, Then
  <1> HIDE DEF all, value
  <1>2. all.error = "none" /\ r = next
    BY <1>1
  <1>3. r.value = value /\ r.wire = all.wire /\ r.next = all.next
    BY <1>2, GotFacts
  <1> QED
    BY <1>2, <1>3 DEF all, value

IsFlagged(read, item, s, i, r) ==
    LET flags == ReadFlags(item, s, i)
        v == ReadLayout(read, Present(item.fields, flags.value), flags.next)
    IN  /\ flags.error = "none" /\ v.error = "none"
        /\ r.value = [flags |-> flags.value, fields |-> v.value]
        /\ r.wire = flags.wire \o v.wire /\ r.next = v.next

LEMMA FlaggedDone ==
    ASSUME NEW read, NEW item, NEW s, NEW i, NEW r, r = ReadFlagged(read, item, s, i),
           r.error = "none"
    PROVE  IsFlagged(read, item, s, i, r)
  <1> DEFINE flags == ReadFlags(item, s, i)
             layout == Present(item.fields, flags.value)
             v == ReadLayout(read, layout, flags.next)
             value == [flags |-> flags.value, fields |-> v.value]
             w == flags.wire \o v.wire
             got == Got(value, w, v.next)
             next == IF v.error # "none" THEN v ELSE got
  <1>1. r = IF flags.error # "none" THEN flags ELSE next
    BY DEF ReadFlagged, Then
  <1> HIDE DEF flags, v, got
  <1>2. flags.error = "none" /\ v.error = "none" /\ r = got
    BY <1>1
  <1> HIDE DEF value, w
  <1>3. r.value = value /\ r.wire = w /\ r.next = v.next
    BY <1>2, GotFacts DEF got
  <1> QED
    BY <1>2, <1>3 DEF IsFlagged, flags, v, value, w

IsChoice(read, item, s, i, r) ==
    LET there == ReadBool(s, i)
        v == ReadLayout(read, IF there.value THEN item.yes ELSE item.no, there.next)
    IN  /\ there.error = "none" /\ v.error = "none"
        /\ r.value = [there |-> there.value, value |-> v.value]
        /\ r.wire = there.wire \o v.wire /\ r.next = v.next

LEMMA ChoiceDone ==
    ASSUME NEW read, NEW item, NEW s, NEW i, NEW r, r = ReadChoice(read, item, s, i),
           r.error = "none"
    PROVE  IsChoice(read, item, s, i, r)
  <1> DEFINE there == ReadBool(s, i)
             layout == IF there.value THEN item.yes ELSE item.no
             v == ReadLayout(read, layout, there.next)
             value == [there |-> there.value, value |-> v.value]
             w == there.wire \o v.wire
             got == Got(value, w, v.next)
             next == IF v.error # "none" THEN v ELSE got
  <1>1. r = IF there.error # "none" THEN there ELSE next
    BY DEF ReadChoice, Then
  <1> HIDE DEF there, v, got
  <1>2. there.error = "none" /\ v.error = "none" /\ r = got
    BY <1>1
  <1> HIDE DEF value, w
  <1>3. r.value = value /\ r.wire = w /\ r.next = v.next
    BY <1>2, GotFacts DEF got
  <1> QED
    BY <1>2, <1>3 DEF IsChoice, there, v, value, w

IsMany(read, item, s, i, r) ==
    LET count == Take(item.code, s, i)
        all == ReadAll(read, [k \in 1..count.value |-> item.item], count.next)
    IN  /\ count.error = "none" /\ all.error = "none"
        /\ r.value = Values(all.value)
        /\ r.wire = << <<item.code, Len(all.value)>> >> \o all.wire /\ r.next = all.next

LEMMA ManyDone ==
    ASSUME NEW read, NEW item, NEW s, NEW i, NEW r, r = ReadMany(read, item, s, i),
           r.error = "none"
    PROVE  IsMany(read, item, s, i, r)
  <1> DEFINE count == Take(item.code, s, i)
             all == ReadAll(read, [k \in 1..count.value |-> item.item], count.next)
             value == Values(all.value)
             w == << <<item.code, Len(all.value)>> >> \o all.wire
             got == Got(value, w, all.next)
             next == IF all.error # "none" THEN all ELSE got
  <1>1. r = IF count.error # "none" THEN count ELSE next
    BY DEF ReadMany, Then
  <1> HIDE DEF count, all, got
  <1>2. count.error = "none" /\ all.error = "none" /\ r = got
    BY <1>1
  <1> HIDE DEF value, w
  <1>3. r.value = value /\ r.wire = w /\ r.next = all.next
    BY <1>2, GotFacts DEF got
  <1> QED
    BY <1>2, <1>3 DEF IsMany, count, all, value, w

-----------------------------------------------------------------------------
(* The AgeSDLHook.                                                         *)

\* The location that is made for a spawn point is in its age.
LEMMA HookOfSpawn ==
    ASSUME NEW n, FindsPrefix(n), ~HookFails(n)
    PROVE  /\ AgePrefix(n) >= 0 /\ Splits(HookNumber(n))
           /\ split_sequence_number(HookNumber(n)) = <<AgePrefix(n), Pages - 2>>
  <1>1. n \in Int
    BY Offsets DEF FindsPrefix
  <1>2. AgePrefix(n) # Safe
    BY NumberingAssumption DEF NumberingAssumption, HookFails, Makes
  <1>3. split_sequence_number(HookNumber(n)) = <<AgePrefix(n), Pages - 2>>
    BY <1>1, <1>2, HookKeepsAge
  <1>4. AgePrefix(n) \in Int /\ Makes(AgePrefix(n), Pages - 2) /\ Pages - 2 \in Int
    <2>1. AgePrefix(n) \in -Globals..(Prefixes - Globals - 2)
      BY DEF HookFails, Makes
    <2> QED
      BY <2>1, NumberingAssumption DEF HookFails, NumberingAssumption
  <1>5. Splits(HookNumber(n))
    BY <1>4, MakeThenSplit DEF HookNumber
  <1>6. AgePrefix(n) >= 0
    <2>1. ~IsGlobal(n) /\ n - Locals \in Nat /\ Pages \in Nat /\ Pages > 0
      BY <1>1, Offsets DEF FindsPrefix, IsGlobal
    <2>2. AgePrefix(n) = (n - Locals) \div Pages
      BY <2>1 DEF AgePrefix, split_sequence_number
    <2> QED
      BY <2>1, <2>2
  <1> QED
    BY <1>3, <1>5, <1>6

LEMMA InspectFinds ==
    ASSUME NEW m, NEW n \in Inspect(m).found
    PROVE  FindsPrefix(n) /\ ~HookFails(n)
  <1>1. \A r : \A k \in Found(r) : FindsPrefix(k)
    BY DEF Found
  <1>2. \A r, found : InspectionOf(r, found).found = {k \in found : ~HookFails(k)}
    BY DEF InspectionOf
  <1>3. \A r : InspectedAs(m, r).found = {k \in IF m.class = "NetMessageLoadClone" THEN Found(r)
                                             ELSE {} : ~HookFails(k)}
    BY <1>2 DEF InspectedAs
  <1>4. \/ \E r : Inspect(m).found = InspectedAs(m, r).found
        \/ Inspect(m).found = {}
    BY DEF Inspect
  <1> QED
    BY <1>1, <1>3, <1>4

\* The location that the server gives the AgeSDLHook is in the age whose spawn point
\* the client told.  (GameClientState.try_find_age_sequence_prefix)
THEOREM HookIsInAge == Spec => []HookInAge
  <1>1. Init => HookInAge
    BY DEF Init, HookInAge
  <1>2. HookInAge /\ [Next]_vars => HookInAge'
    <2> SUFFICES ASSUME HookInAge, [Next]_vars PROVE HookInAge'
      OBVIOUS
    <2>1. CASE UNCHANGED hook
      BY <2>1 DEF HookInAge
    <2>2. ASSUME NEW m, Handle(m) PROVE HookInAge'
      <3>1. CASE HandleGameMessage(m)
        <4>1. PICK inspected \in {Inspect(m)} :
                \/ inspected.found = {} /\ UNCHANGED hook
                \/ \E n \in inspected.found :
                     hook' = [spawn |-> n, prefix |-> AgePrefix(n), number |-> HookNumber(n)]
          BY <3>1 DEF HandleGameMessage
        <4>2. ASSUME NEW n \in inspected.found,
                     hook' = [spawn |-> n, prefix |-> AgePrefix(n), number |-> HookNumber(n)]
              PROVE  HookInAge'
          <5>1. FindsPrefix(n) /\ ~HookFails(n)
            BY <4>2, InspectFinds
          <5> DEFINE prefix == AgePrefix(n)
                     number == HookNumber(n)
          <5>2. /\ prefix >= 0 /\ Splits(number)
                /\ split_sequence_number(number) = <<AgePrefix(n), Pages - 2>>
            BY <5>1, HookOfSpawn
          <5> HIDE DEF prefix, number
          <5>3. hook'.spawn = n /\ hook'.prefix = prefix /\ hook'.number = number
            BY <4>2 DEF prefix, number
          <5> QED
            BY <5>2, <5>3 DEF HookInAge
        <4> QED
          BY <4>1, <4>2, <2>1
      <3>2. CASE UNCHANGED hook
        BY <3>2, <2>1
      <3> QED
        BY <2>2, <3>1, <3>2 DEF Handle
    <2>3. ASSUME NEW buffer, receive_propagate_buffer(buffer) PROVE HookInAge'
      BY <2>3, <2>1, <2>2 DEF receive_propagate_buffer
    <2>4. CASE Next
      BY <2>4, <2>1, <2>3 DEF Next, ConnectionType, read_connect_packet_header,
         read_connect_packet_data, NotSetup, setup_encryption, Next_message, ping_request,
         handle_unknown_message, Gone
    <2> QED
      BY <2>1, <2>4 DEF vars
  <1> QED
    BY <1>1, <1>2, PTL DEF Spec

-----------------------------------------------------------------------------
(* Propagate buffers.                                                      *)

LEMMA LayoutFacts ==
    ASSUME NEW class, NEW layout, layout = NetMessageLayout(class)
    PROVE  /\ IsSeq(layout) /\ Fields(layout) \subseteq NetItems
           /\ \A k \in 1..Len(layout) :
                /\ layout[k][2] \in NetItems
                /\ \A l \in 1..Len(layout) : layout[l][1] = layout[k][1] => l = k
                /\ layout[k][2].kind # "time" /\ layout[k][2] # NetMessageHeader
                /\ layout[k][2].kind = "stream" <=> layout[k][1] = "stream"
                /\ layout[k][2].kind = "delivery" <=> layout[k][1] = "delivery_time"
  <1>1. CASE class \in DOMAIN NetMessages
    <2>1. layout = NetMessages[class]
      BY <1>1 DEF NetMessageLayout, LayoutIn
    <2>2. layout \in Seq(STRING \X NetItems)
      BY <1>1, <2>1, ItemsAssumption DEF ItemsAssumption, IsLayout
    <2>3. IsSeq(layout)
      BY <2>2 DEF IsSeq
    <2>4. DOMAIN layout = 1..Len(layout)
      BY <2>2
    <2>5. \A k \in 1..Len(layout) : layout[k][2] \in NetItems
      BY <2>2
    <2>6. Fields(layout) \subseteq NetItems
      BY <2>4, <2>5 DEF Fields
    <2>7. ASSUME NEW k \in 1..Len(layout)
          PROVE  /\ \A l \in 1..Len(layout) : layout[l][1] = layout[k][1] => l = k
                 /\ layout[k][2].kind # "time" /\ layout[k][2] # NetMessageHeader
                 /\ layout[k][2].kind = "stream" <=> layout[k][1] = "stream"
                 /\ layout[k][2].kind = "delivery" <=> layout[k][1] = "delivery_time"
      BY <1>1, <2>1, <2>4, FieldsAssumption, ZenonT(60) DEF FieldsAssumption
    <2> QED
      BY <2>3, <2>5, <2>6, <2>7
  <1>2. CASE class \notin DOMAIN NetMessages
    <2> DEFINE field == <<"data", Rest>>
    <2>1. layout = <<field>>
      BY <1>2 DEF NetMessageLayout, LayoutIn, UnknownNetMessage
    <2>2. field[1] = "data" /\ field[2] = Rest
      OBVIOUS
    <2>3. UnknownNetMessage \in Seq(STRING \X NetItems) /\ UnknownNetMessage = <<field>>
      BY ItemsAssumption DEF ItemsAssumption, IsLayout, UnknownNetMessage
    <2> HIDE DEF field
    <2>4. Len(layout) = 1 /\ IsSeq(layout) /\ layout[1] = field /\ DOMAIN layout = 1..1
      BY <2>1, Single, SeqFacts
    <2>5. Rest \in NetItems
      <3>1. layout \in Seq(STRING \X NetItems) /\ 1 \in 1..Len(layout)
        BY <2>1, <2>3, <2>4
      <3>2. layout[1] \in STRING \X NetItems
        BY <3>1
      <3> QED
        BY <3>2, <2>2, <2>4
    <2>6. Rest.kind = "rest" /\ NetMessageHeader.kind = "flagged"
      BY DEF Rest, NetMessageHeader, Flagged
    <2>7. \A k \in 1..Len(layout) : k = 1
      BY <2>4
    <2>8. Fields(layout) \subseteq NetItems
      BY <2>2, <2>4, <2>5 DEF Fields
    <2> QED
      BY <2>2, <2>4, <2>5, <2>6, <2>7, <2>8
  <1> QED
    BY <1>1, <1>2

LEMMA ReaderDef ==
    ASSUME NEW s, NEW item \in Items, NEW i \in Places(s)
    PROVE  /\ Reader(s)[<<item, i>>] = ReadItem(Readers(s)[Nesting - 1], item, s, i)
           /\ Reader(s)[<<item, i>>] = Readers(s)[Nesting][<<item, i>>]
  <1>1. Nesting - 1 \in Nat /\ (Nesting - 1) + 1 = Nesting
    BY StreamsAssumption DEF StreamsAssumption, MaxRank
  <1>2. Readers(s)[(Nesting - 1) + 1][<<item, i>>] = ReadItem(Readers(s)[Nesting - 1], item, s, i)
    BY <1>1, ReadersDef
  <1> QED
    BY <1>1, <1>2 DEF Reader

\* What ReadBuffer reads.
HeaderOf(s) == Reader(s)[<<NetMessageHeader, 2>>]

LayoutOf(s) == NetMessageLayout(s[1][2])

AllOf(s) == ReadAll(Reader(s), ItemsOf(LayoutOf(s)), HeaderOf(s).next)

MessageOf(s) ==
    [class |-> s[1][2], header |-> HeaderOf(s).value,
     fields |-> ByName(LayoutOf(s), Values(AllOf(s).value)),
     wires |-> ByName(LayoutOf(s), Wires(AllOf(s).value)), wire |-> AllOf(s).wire]

LEMMA BufferDef ==
    ASSUME NEW buffer, NEW s, s = buffer.tokens, Len(s) \in Nat
    PROVE  /\ Take("class", s, 1).error # "none" => ReadBuffer(buffer) = Take("class", s, 1)
           /\ Take("class", s, 1).error = "none" =>
                /\ 1 \in 1..Len(s) /\ s[1][1] = "class" /\ 2 \in Places(s)
                /\ ReadBuffer(buffer) =
                     IF buffer.type # s[1][2] THEN Raises("ProtocolError")
                     ELSE IF HeaderOf(s).error # "none" THEN HeaderOf(s)
                     ELSE IF AllOf(s).error # "none" THEN AllOf(s)
                     ELSE IF AllOf(s).next <= Len(s) THEN Raises("ProtocolError")
                     ELSE Got(MessageOf(s), <<>>, AllOf(s).next)
  <1> DEFINE class == Take("class", s, 1)
             header == Reader(s)[<<NetMessageHeader, class.next>>]
             layout == NetMessageLayout(class.value)
             all == ReadAll(Reader(s), ItemsOf(layout), header.next)
             m == [class |-> class.value, header |-> header.value,
                   fields |-> ByName(layout, Values(all.value)),
                   wires |-> ByName(layout, Wires(all.value)), wire |-> all.wire]
             next == IF buffer.type # class.value THEN Raises("ProtocolError")
                     ELSE IF header.error # "none" THEN header
                     ELSE IF all.error # "none" THEN all
                     ELSE IF all.next <= Len(s) THEN Raises("ProtocolError")
                     ELSE Got(m, <<>>, all.next)
  <1>1. ReadBuffer(buffer) = IF class.error # "none" THEN class ELSE next
    BY DEF ReadBuffer, Then
  <1>2. ASSUME class.error = "none"
        PROVE  /\ 1 \in 1..Len(s) /\ s[1][1] = "class" /\ 2 \in Places(s)
               /\ class.value = s[1][2] /\ class.next = 2
    <2>1. 1 \in Places(s)
      BY DEF Places
    <2>2. 1 + 1 = 2
      OBVIOUS
    <2> QED
      BY <1>2, <2>1, <2>2, TakeRead
  <1>3. ASSUME class.error = "none"
        PROVE  next = IF buffer.type # s[1][2] THEN Raises("ProtocolError")
                      ELSE IF HeaderOf(s).error # "none" THEN HeaderOf(s)
                      ELSE IF AllOf(s).error # "none" THEN AllOf(s)
                      ELSE IF AllOf(s).next <= Len(s) THEN Raises("ProtocolError")
                      ELSE Got(MessageOf(s), <<>>, AllOf(s).next)
    <2>1. class.value = s[1][2] /\ class.next = 2
      BY <1>2, <1>3
    <2> HIDE DEF class
    <2>2. header = HeaderOf(s)
      BY <2>1 DEF HeaderOf
    <2>3. layout = LayoutOf(s)
      BY <2>1 DEF LayoutOf
    <2> HIDE DEF header, layout
    <2>4. all = AllOf(s)
      BY <2>2, <2>3 DEF AllOf
    <2> HIDE DEF all
    <2>5. m = MessageOf(s)
      BY <2>1, <2>2, <2>3, <2>4 DEF MessageOf
    <2> HIDE DEF m
    <2> QED
      BY <2>1, <2>2, <2>4, <2>5
  <1> HIDE DEF class, next
  <1> QED
    BY <1>1, <1>2, <1>3 DEF class

LEMMA NetReaderResult ==
    ASSUME NEW s, IsStream(s), NEW item \in NetItems, NEW p \in Places(s)
    PROVE  /\ Result(s, p, Reader(s)[<<item, p>>], Basic, NeverOf(item))
           /\ Result(s, p, Reader(s)[<<item, p>>], Basic, {})
  <1> DEFINE r == Reader(s)[<<item, p>>]
  <1>0. Len(s) \in Nat /\ p \in Int /\ p <= p
    BY StreamFacts DEF Places
  <1>1. Nesting \in Nat /\ Rank[item] <= Nesting /\ item \in Items
    BY StreamsAssumption, NetItemFacts DEF StreamsAssumption, MaxRank
  <1>2. Result(s, p, r, Basic, NeverOf(item))
    BY <1>1, NetResultDeep, ReaderDef
  <1> HIDE DEF r
  <1>3. Result(s, p, r, Basic, {})
    BY <1>0, <1>2, ResultMore
  <1> QED
    BY <1>2, <1>3 DEF r

LEMMA HeaderRead ==
    ASSUME NEW s, IsStream(s), 2 \in Places(s)
    PROVE  /\ Result(s, 2, HeaderOf(s), Basic, {})
           /\ HeaderOf(s).error = "none" => HeaderOf(s).next \in Places(s)
           /\ HeaderOf(s) = ReadFlagged(Readers(s)[Nesting - 1], NetMessageHeader, s, 2)
  <1>1. NetMessageHeader \in NetItems /\ NetMessageHeader \in Items
    BY ItemsAssumption DEF ItemsAssumption, Items
  <1>2. Result(s, 2, HeaderOf(s), Basic, {})
    BY <1>1, NetReaderResult DEF HeaderOf
  <1>3. HeaderOf(s).error = "none" => HeaderOf(s).next \in 2..(Len(s) + 1)
    BY <1>2, ResultError, NoneIsNoError
  <1>4. 2..(Len(s) + 1) \subseteq Places(s)
    BY StreamFacts DEF Places
  <1>5. HeaderOf(s) = ReadItem(Readers(s)[Nesting - 1], NetMessageHeader, s, 2)
    BY <1>1, ReaderDef DEF HeaderOf
  <1>6. NetMessageHeader.kind = "flagged"
    BY DEF NetMessageHeader, Flagged
  <1> DEFINE item == NetMessageHeader
  <1> HIDE DEF item
  <1>7. item.kind = "flagged" => ReadItem(Readers(s)[Nesting - 1], item, s, 2)
          = ReadFlagged(Readers(s)[Nesting - 1], item, s, 2)
    BY DEF ReadItem
  <1> QED
    BY <1>2, <1>3, <1>4, <1>5, <1>6, <1>7 DEF item

LEMMA AllRead ==
    ASSUME NEW s, IsStream(s), 2 \in Places(s), HeaderOf(s).error = "none"
    PROVE  /\ Result(s, HeaderOf(s).next, AllOf(s), Basic, {})
           /\ AllOf(s).error = "none" =>
                /\ ReadsOf(s, Reader(s), LayoutOf(s), HeaderOf(s).next, AllOf(s).value)
                /\ (\A k \in 1..Len(LayoutOf(s)) : Writes(AllOf(s).value[k].wire, Failures)) =>
                     Writes(AllOf(s).wire, Failures)
  <1> DEFINE i == HeaderOf(s).next
             layout == LayoutOf(s)
             read == Reader(s)
             items == ItemsOf(layout)
             all == AllOf(s)
  <1>1. i \in Places(s) /\ Len(s) \in Nat
    BY HeaderRead, StreamFacts
  <1>2. IsSeq(layout) /\ Fields(layout) \subseteq NetItems
    BY LayoutFacts DEF LayoutOf
  <1>3. all = ReadAll(read, items, i)
    BY DEF AllOf
  <1> HIDE DEF i, layout, read, all
  <1>4. ASSUME NEW item \in Fields(layout), NEW p \in i..(Len(s) + 1)
        PROVE  Result(s, p, read[<<item, p>>], Basic, {})
    <2>1. p \in Places(s) /\ item \in NetItems
      BY <1>1, <1>2 DEF Places
    <2> QED
      BY <2>1, NetReaderResult DEF read
  <1>5. all.error = "none" => ReadsOf(s, read, layout, i, all.value)
          /\ ((\A k \in 1..Len(layout) : Writes(all.value[k].wire, Failures)) =>
                Writes(all.wire, Failures))
    BY <1>1, <1>2, <1>3, <1>4, LayoutRead, NoneIsNoError
  <1>6. Result(s, i, all, Basic, {})
    <2>1. DOMAIN layout = 1..Len(layout) /\ Len(layout) \in Nat
      BY <1>2, SeqFacts
    <2>2. items = [k \in 1..Len(layout) |-> layout[k][2]]
      BY <2>1 DEF ItemsOf
    <2>3. IsSeq(items) /\ Len(items) = Len(layout)
      BY <2>1, <2>2, FunctionIsSeq
    <2>4. \A k \in 1..Len(items) : items[k] \in Fields(layout)
      BY <2>1, <2>2, <2>3 DEF Fields
    <2> HIDE DEF items
    <2>5. AllResult(s, read, items, i, ReadAll(read, items, i), Len(items), Basic, {})
      BY <1>1, <1>4, <2>1, <2>3, <2>4, ReadAllResult, NoneIsNoError
    <2> QED
      BY <2>5, <1>3 DEF AllResult
  <1> QED
    BY <1>5, <1>6 DEF i, layout, read, all

LEMMA BufferErrors ==
    ASSUME NEW buffer, IsStream(buffer.tokens)
    PROVE  LET r == ReadBuffer(buffer)
               s == buffer.tokens
           IN  /\ r.error \in Basic \cup {"none", "ProtocolError"}
               /\ r.error = "none" =>
                    /\ r.value = MessageOf(s) /\ 1 \in 1..Len(s) /\ s[1][1] = "class"
                    /\ 2 \in Places(s) /\ buffer.type = s[1][2]
                    /\ HeaderOf(s).error = "none" /\ AllOf(s).error = "none"
                    /\ Len(s) < AllOf(s).next
  <1> DEFINE s == buffer.tokens
             r == ReadBuffer(buffer)
             class == Take("class", s, 1)
  <1>1. Len(s) \in Nat /\ "class" \notin Failures /\ 1 \in Places(s)
    BY StreamFacts DEF Failures, Places
  <1>2. Result(s, 1, class, Basic, Failures)
    BY <1>1, TakeResult
  <1>3. class.error \in Basic \cup {"none"}
    BY <1>2, ResultError, NoneIsNoError
  <1>4. CASE class.error # "none"
    <2>1. r = class
      BY <1>1, <1>4, BufferDef
    <2> HIDE DEF r, class
    <2> QED
      BY <2>1, <1>3, <1>4 DEF r
  <1>5. CASE class.error = "none"
    <2>1. /\ 1 \in 1..Len(s) /\ s[1][1] = "class" /\ 2 \in Places(s)
          /\ r = IF buffer.type # s[1][2] THEN Raises("ProtocolError")
                 ELSE IF HeaderOf(s).error # "none" THEN HeaderOf(s)
                 ELSE IF AllOf(s).error # "none" THEN AllOf(s)
                 ELSE IF AllOf(s).next <= Len(s) THEN Raises("ProtocolError")
                 ELSE Got(MessageOf(s), <<>>, AllOf(s).next)
      BY <1>1, <1>5, BufferDef
    <2>2. Result(s, 2, HeaderOf(s), Basic, {})
      BY <2>1, HeaderRead
    <2>3. HeaderOf(s).error \in Basic \cup {"none"}
      BY <2>2, ResultError, NoneIsNoError
    <2>4. ASSUME HeaderOf(s).error = "none"
          PROVE  /\ AllOf(s).error \in Basic \cup {"none"}
                 /\ AllOf(s).error = "none" => AllOf(s).next \in Int
      <3>1. Result(s, HeaderOf(s).next, AllOf(s), Basic, {})
        BY <2>1, <2>4, AllRead
      <3>2. AllOf(s).error = "none" => AllOf(s).next \in HeaderOf(s).next..(Len(s) + 1)
        BY <3>1, ResultError, NoneIsNoError
      <3>3. AllOf(s).error \in Basic \cup {"none"}
        BY <3>1, ResultError, NoneIsNoError
      <3> QED
        BY <3>2, <3>3
    <2> DEFINE header == HeaderOf(s)
               all == AllOf(s)
               m == MessageOf(s)
    <2> HIDE DEF r, header, all, m, s
    <2>5. Raises("ProtocolError").error = "ProtocolError"
      BY RaisesFacts
    <2>6. Got(m, <<>>, all.next).error = "none" /\ Got(m, <<>>, all.next).value = m
      BY GotFacts
    <2>7. r.error \in Basic \cup {"none", "ProtocolError"}
      BY <2>1, <2>3, <2>4, <2>5, <2>6 DEF header, all, m
    <2>8. ASSUME r.error = "none"
          PROVE  /\ r.value = m /\ buffer.type = s[1][2]
                 /\ header.error = "none" /\ all.error = "none" /\ ~(all.next <= Len(s))
      BY <2>1, <2>5, <2>6, <2>8 DEF header, all, m
    <2>9. r.error = "none" => Len(s) < all.next
      BY <2>4, <2>8, <1>1 DEF header, all
    <2> QED
      BY <2>1, <2>7, <2>8, <2>9 DEF r, header, all, m, s
  <1> QED
    BY <1>4, <1>5

-----------------------------------------------------------------------------
(* Messages.                                                               *)

GoodStream(stream) ==
    /\ stream.type \in {0, 2, 3} /\ stream.data.packing \in Packings
    /\ IsStream(stream.data.content)

LEMMA TimeRead ==
    ASSUME NEW s, IsStream(s), NEW i \in Places(s), NEW r, r = read_unified_time(s, i),
           r.error = "none"
    PROVE  /\ i \in 1..Len(s) /\ s[i][1] = "time" /\ r.value = Normalised(s[i][2])
           /\ s[i][2] \in Nat \X Nat /\ r.value \in Nat \X (0..(Second - 1))
           /\ r.next = i + 1 /\ r.wire = WriteTime(r.value)
  <1> DEFINE v == Take("time", s, i)
             time == Normalised(v.value)
             next == Got(time, WriteTime(time), v.next)
  <1>1. r = IF v.error # "none" THEN v ELSE next
    BY DEF read_unified_time, Then
  <1> HIDE DEF v, next
  <1>2. v.error = "none" /\ r = next
    BY <1>1
  <1>3. Len(s) \in Nat /\ \A k \in 1..Len(s) : IsToken(s[k])
    BY StreamFacts
  <1>4. i \in 1..Len(s) /\ s[i][1] = "time" /\ v.value = s[i][2] /\ v.next = i + 1
    BY <1>2, <1>3, TakeRead DEF v
  <1>5. s[i][2] \in Nat \X Nat
    BY <1>3, <1>4 DEF IsToken
  <1>6. Normalised(s[i][2]) \in Nat \X (0..(Second - 1))
    <2> DEFINE a == s[i][2][1]
               b == s[i][2][2]
    <2>1. a \in Nat /\ b \in Nat
      BY <1>5
    <2> HIDE DEF a, b
    <2>2. a + b \div Second \in Nat /\ b % Second \in 0..(Second - 1)
      BY <2>1, StreamsAssumption DEF StreamsAssumption
    <2> QED
      BY <2>2 DEF Normalised, a, b
  <1>7. time = Normalised(s[i][2])
    BY <1>4
  <1> HIDE DEF time
  <1>8. r.value = time /\ r.next = v.next /\ r.wire = WriteTime(time)
    BY <1>2, GotFacts DEF next
  <1> QED
    BY <1>4, <1>5, <1>6, <1>7, <1>8

LEMMA DeliveryTime ==
    ASSUME NEW s, IsStream(s), NEW i \in Places(s), NEW r, r = ReadDelivery(s, i),
           r.error = "none"
    PROVE  r.wire = WriteDelivery(r.value) /\ r.value \in Nat \X (0..(Second - 1))
  <1> DEFINE there == ReadBool(s, i)
             v == read_unified_time(s, there.next)
             absent == Got(Start, WriteDelivery(Start), there.next)
             present == Got(v.value, WriteDelivery(v.value), v.next)
             next == IF ~there.value THEN absent ELSE IF v.error # "none" THEN v ELSE present
  <1>0. Len(s) \in Nat
    BY StreamFacts
  <1>1. ReadDelivery(s, i) = IF there.error # "none" THEN there ELSE next
    BY DEF ReadDelivery, Then
  <1>2. there.error = "none" => there.next \in Places(s)
    BY <1>0, BoolNext
  <1>3. there.error = "none" /\ v.error = "none" => v.value \in Nat \X (0..(Second - 1))
    <2> HIDE DEF there
    <2> QED
      BY <1>2, TimeRead
  <1>4. Start \in Nat \X (0..(Second - 1))
    BY StreamsAssumption DEF StreamsAssumption, Start
  <1> HIDE DEF there, v, absent, present
  <1>5. there.error = "none" /\ (r = absent \/ (v.error = "none" /\ r = present))
    BY <1>1
  <1>6. CASE r = absent
    BY <1>4, <1>6, GotFacts DEF absent
  <1>7. CASE v.error = "none" /\ r = present
    BY <1>3, <1>5, <1>7, GotFacts DEF present
  <1> QED
    BY <1>5, <1>6, <1>7

LEMMA HeaderWritten ==
    ASSUME NEW header, "time_sent" \in DOMAIN header.fields, Now[1] < Eternity
    PROVE  /\ Writes(WriteHeader(Stamped(header)), Failures)
           /\ Stamped(header).fields.time_sent = Now
  <1> DEFINE h == Stamped(header)
             If(flag, code, name) ==
               IF flag \in h.flags THEN << <<code, h.fields[name]>> >> ELSE <<>>
             a == << <<"flags32", h.flags>> >>
             b == If("has_version", "u16", "protocol_version")
             c == IF "has_time_sent" \in h.flags THEN WriteTime(h.fields.time_sent) ELSE <<>>
             d == If("has_context", "u32", "context")
             e == If("has_transaction_id", "u32", "trans_id")
             f == If("has_player_id", "u32", "ki_number")
             g == If("has_account_uuid", "uuid", "account_uuid")
  <1>1. h.fields.time_sent = Now
    BY DEF Stamped
  <1>2. WriteHeader(h) = a \o b \o c \o d \o e \o f \o g
    BY DEF WriteHeader
  <1> HIDE DEF h
  <1>3. Writes(<<>>, Failures)
    BY Empty DEF Writes
  <1>4. ASSUME NEW flag, NEW code, code \notin Failures, NEW name
        PROVE  Writes(If(flag, code, name), Failures)
    BY <1>3, <1>4, SingleWritten
  <1>5. /\ "flags32" \notin Failures /\ "u16" \notin Failures /\ "u32" \notin Failures
        /\ "uuid" \notin Failures
    BY DEF Failures
  <1>6. Writes(a, Failures)
    BY <1>5, SingleWritten
  <1>7. /\ Writes(b, Failures) /\ Writes(d, Failures) /\ Writes(e, Failures)
        /\ Writes(f, Failures) /\ Writes(g, Failures)
    <2> HIDE DEF If
    <2> QED
      BY <1>4, <1>5
  <1>8. Writes(c, Failures)
    BY <1>1, <1>3, TimeWritten
  <1> HIDE DEF a, b, c, d, e, f, g
  <1>9. Writes(a \o b \o c, Failures)
    BY <1>6, <1>7, <1>8, WrittenTwice
  <1>10. Writes(a \o b \o c \o d \o e, Failures)
    BY <1>7, <1>9, WrittenTwice
  <1>11. Writes(a \o b \o c \o d \o e \o f \o g, Failures)
    BY <1>7, <1>10, WrittenTwice
  <1> QED
    BY <1>1, <1>2, <1>11 DEF h

HeaderItems == NetMessageHeader.fields

LEMMA HeaderItemsFacts ==
    /\ IsSeq(HeaderItems) /\ Len(HeaderItems) = 6
    /\ HeaderItems[1] = <<"has_version", "protocol_version", U16>>
    /\ HeaderItems[2] = <<"has_time_sent", "time_sent", UnifiedTime>>
    /\ HeaderItems[3] = <<"has_context", "context", U32>>
    /\ HeaderItems[4] = <<"has_transaction_id", "trans_id", U32>>
    /\ HeaderItems[5] = <<"has_player_id", "ki_number", U32>>
    /\ HeaderItems[6] = <<"has_account_uuid", "account_uuid", Number("uuid")>>
  <1> DEFINE a == <<"has_version", "protocol_version", U16>>
             b == <<"has_time_sent", "time_sent", UnifiedTime>>
             c == <<"has_context", "context", U32>>
             d == <<"has_transaction_id", "trans_id", U32>>
             e == <<"has_player_id", "ki_number", U32>>
             f == <<"has_account_uuid", "account_uuid", Number("uuid")>>
  <1>1. HeaderItems = <<a, b, c, d, e, f>>
    BY DEF HeaderItems, NetMessageHeader, Flagged
  <1> HIDE DEF a, b, c, d, e, f
  <1>2. <<a, b, c, d, e, f>> \in Seq({a, b, c, d, e, f}) /\ Len(<<a, b, c, d, e, f>>) = 6
    OBVIOUS
  <1>3. /\ HeaderItems[1] = a /\ HeaderItems[2] = b /\ HeaderItems[3] = c
        /\ HeaderItems[4] = d /\ HeaderItems[5] = e /\ HeaderItems[6] = f
    BY <1>1
  <1> QED
    BY <1>1, <1>2, <1>3 DEF IsSeq, a, b, c, d, e, f

LEMMA HeaderParts ==
    ASSUME NEW s, IsStream(s), 2 \in Places(s), HeaderOf(s).error = "none"
    PROVE  LET flags == ReadFlags(NetMessageHeader, s, 2)
               layout == Present(HeaderItems, flags.value)
               v == ReadLayout(Readers(s)[Nesting - 1], layout, flags.next)
           IN  /\ flags.error = "none" /\ v.error = "none"
               /\ HeaderOf(s).value = [flags |-> flags.value, fields |-> v.value]
               /\ HeaderOf(s).next = v.next
               /\ "time_sent" \in DOMAIN v.value
  <1> DEFINE flags == ReadFlags(NetMessageHeader, s, 2)
             layout == Present(HeaderItems, flags.value)
             read == Readers(s)[Nesting - 1]
             v == ReadLayout(read, layout, flags.next)
             all == ReadAll(read, ItemsOf(layout), flags.next)
             header == HeaderOf(s)
  <1>1. header = ReadFlagged(read, NetMessageHeader, s, 2)
    BY HeaderRead
  <1>2. /\ flags.error = "none" /\ v.error = "none"
        /\ header.value = [flags |-> flags.value, fields |-> v.value]
        /\ header.next = v.next
    <2> HIDE DEF read
    <2>1. header.error = "none"
      OBVIOUS
    <2> HIDE DEF header
    <2>2. IsFlagged(read, NetMessageHeader, s, 2, header)
      BY <1>1, <2>1, FlaggedDone
    <2> QED
      BY <2>2 DEF IsFlagged, HeaderItems
  <1> DEFINE chosen == flags.value
  <1>3. IsSeq(layout) /\ Len(layout) = 6 /\ layout[2][1] = "time_sent"
    <2>1. HeaderItems[2][2] = "time_sent" /\ 2 \in 1..6 /\ IsSeq(HeaderItems) /\ Len(HeaderItems) = 6
      BY HeaderItemsFacts
    <2>2. layout = Present(HeaderItems, chosen)
      OBVIOUS
    <2> HIDE DEF layout, chosen
    <2> QED
      BY <2>1, <2>2, PresentFacts
  <1> HIDE DEF layout, flags
  <1>4. v.value = ByName(layout, Values(all.value))
    BY <1>2, LayoutDone
  <1>5. "time_sent" \in DOMAIN v.value
    <2>1. 2 \in DOMAIN layout
      BY <1>3, SeqFacts
    <2> QED
      BY <1>3, <1>4, <2>1 DEF ByName
  <1> QED
    BY <1>2, <1>5 DEF layout, flags, header

\* Which classes have a stream.
LEMMA HasStream ==
    ASSUME NEW class \in GameMessages \cup SDLStates \cup {"NetMessageTestAndSet"}
    PROVE  LET layout == NetMessageLayout(class)
           IN  \E k \in 1..Len(layout) : layout[k][1] = "stream"
  <1> DEFINE Has(layout) == IsSeq(layout) /\ \E k \in 1..Len(layout) : layout[k][1] = "stream"
             stream == <<"stream", [kind |-> "stream"]>>
             uoid == <<"uoid", Uoid>>
  <1>1. ASSUME NEW u, NEW v, IsSeq(u), Has(v) PROVE Has(u \o v)
    <2>1. PICK k \in 1..Len(v) : v[k][1] = "stream"
      BY <1>1
    <2>2. Len(u) \in Nat /\ Len(v) \in Nat
      BY <1>1, SeqFacts
    <2>3. Len(u) + k \in 1..Len(u \o v) /\ (u \o v)[Len(u) + k] = v[k] /\ IsSeq(u \o v)
      BY <1>1, <2>2, Concat
    <2> QED
      BY <2>1, <2>3
  <1>2. ASSUME NEW u, NEW v, Has(u), IsSeq(v) PROVE Has(u \o v)
    <2>1. PICK k \in 1..Len(u) : u[k][1] = "stream"
      BY <1>2
    <2>2. Len(u) \in Nat /\ Len(v) \in Nat
      BY <1>2, SeqFacts
    <2>3. k \in 1..Len(u \o v) /\ (u \o v)[k] = u[k] /\ IsSeq(u \o v)
      BY <1>2, <2>2, Concat
    <2> QED
      BY <2>1, <2>3
  <1>3. Has(StreamFields)
    <2>1. stream[1] = "stream"
      OBVIOUS
    <2> HIDE DEF stream
    <2>2. Has(<<stream>>)
      BY <2>1, Single
    <2> QED
      BY <2>2 DEF stream, StreamFields
  <1>4. IsSeq(<<uoid>>)
    BY Single
  <1> HIDE DEF Has, uoid
  <1>5. Has(NetMessageStreamedObject)
    BY <1>1, <1>3, <1>4 DEF NetMessageStreamedObject, NetMessageObject, uoid
  <1>6. /\ IsSeq(<< <<"delivery_time", [kind |-> "delivery"]>> >>)
        /\ IsSeq(<< <<"receivers", Many("u8", U32)>> >>)
        /\ IsSeq(<< <<"lock_request", Bool>> >>)
    BY Single
  <1>7. /\ IsSeq(<< <<"uoid", Uoid>>, <<"is_player", Bool>>, <<"is_loading", Bool>>,
                    <<"is_initial_state", Bool>> >>)
        /\ IsSeq(<< <<"is_initial_state", Bool>>, <<"persist_on_server", Bool>>,
                    <<"is_avatar_state", Bool>> >>)
    <2>1. \A a, b, c, d : <<a, b, c, d>> \in Seq({a, b, c, d})
      OBVIOUS
    <2>2. \A a, b, c : <<a, b, c>> \in Seq({a, b, c})
      OBVIOUS
    <2>3. \A a, b, c, d : IsSeq(<<a, b, c, d>>)
      BY <2>1 DEF IsSeq
    <2>4. \A a, b, c : IsSeq(<<a, b, c>>)
      BY <2>2 DEF IsSeq
    <2> QED
      BY <2>3, <2>4
  <1>8. Has(NetMessageGameMessage)
    BY <1>2, <1>3, <1>6 DEF NetMessageGameMessage, NetMessageStream
  <1>9. Has(NetMessageGameMessageDirected)
    BY <1>2, <1>8, <1>6 DEF NetMessageGameMessageDirected
  <1>10. Has(NetMessageLoadClone)
    BY <1>2, <1>8, <1>7 DEF NetMessageLoadClone
  <1>11. Has(NetMessageTestAndSet)
    BY <1>2, <1>5, <1>6 DEF NetMessageTestAndSet
  <1>12. Has(NetMessageSDLState)
    BY <1>2, <1>5, <1>7 DEF NetMessageSDLState
  <1>13. Has(NetMessageLayout(class))
    <2>1. /\ NetMessageLayout("NetMessageGameMessage") = NetMessageGameMessage
          /\ NetMessageLayout("NetMessageGameMessageDirected") = NetMessageGameMessageDirected
          /\ NetMessageLayout("NetMessageLoadClone") = NetMessageLoadClone
          /\ NetMessageLayout("NetMessageTestAndSet") = NetMessageTestAndSet
          /\ NetMessageLayout("NetMessageSDLState") = NetMessageSDLState
          /\ NetMessageLayout("NetMessageSDLStateBroadcast") = NetMessageSDLState
      BY DEF NetMessageLayout, LayoutIn, NetMessages
    <2> QED
      BY <1>8, <1>9, <1>10, <1>11, <1>12, <2>1 DEF GameMessages, SDLStates
  <1> QED
    BY <1>13 DEF Has

-----------------------------------------------------------------------------
\* What a reader has read for a field of a message.
FieldOf(s, name, k, p) ==
    LET r == Reader(s)[<<LayoutOf(s)[k][2], p>>]
    IN  /\ k \in 1..Len(LayoutOf(s)) /\ LayoutOf(s)[k][1] = name /\ p \in Places(s)
        /\ r.error = "none" /\ MessageOf(s).fields[name] = r.value
        /\ MessageOf(s).wires[name] = r.wire /\ AllOf(s).value[k] = r

WasRead(s) ==
    /\ IsStream(s) /\ 2 \in Places(s) /\ HeaderOf(s).error = "none" /\ AllOf(s).error = "none"

LEMMA FieldFacts ==
    ASSUME NEW s, WasRead(s)
    PROVE  /\ \A name \in DOMAIN MessageOf(s).fields : \E k, p : FieldOf(s, name, k, p)
           /\ \A k \in 1..Len(LayoutOf(s)) :
                /\ LayoutOf(s)[k][1] \in DOMAIN MessageOf(s).fields
                /\ \E p : FieldOf(s, LayoutOf(s)[k][1], k, p)
  <1> DEFINE layout == LayoutOf(s)
             results == AllOf(s).value
             i == HeaderOf(s).next
             fields == ByName(layout, Values(results))
             wires == ByName(layout, Wires(results))
  <1>1. /\ IsSeq(layout)
        /\ \A k \in 1..Len(layout) : \A l \in 1..Len(layout) :
             layout[l][1] = layout[k][1] => l = k
    BY LayoutFacts DEF LayoutOf
  <1>2. ReadsOf(s, Reader(s), layout, i, results) /\ i \in Places(s)
    BY AllRead, HeaderRead DEF WasRead
  <1>3. MessageOf(s).fields = fields /\ MessageOf(s).wires = wires
    BY DEF MessageOf
  <1>4. Len(s) \in Nat
    BY StreamFacts DEF WasRead
  <1> HIDE DEF layout, results, i, fields, wires
  <1>5. ASSUME NEW name
        PROVE  /\ name \in DOMAIN fields <=> \E l \in 1..Len(layout) : layout[l][1] = name
               /\ name \in DOMAIN fields =>
                    /\ Place(layout, name) \in 1..Len(layout)
                    /\ layout[Place(layout, name)][1] = name
                    /\ fields[name] = results[Place(layout, name)].value
                    /\ wires[name] = results[Place(layout, name)].wire
    BY <1>1, <1>2, FieldRead DEF ReadsOf, fields, wires
  <1>6. ASSUME NEW k \in 1..Len(layout), NEW name, layout[k][1] = name,
               fields[name] = results[k].value, wires[name] = results[k].wire
        PROVE  \E p : FieldOf(s, name, k, p)
    <2>1. PICK p \in i..(Len(s) + 1) : results[k] = Reader(s)[<<layout[k][2], p>>]
      BY <1>2 DEF ReadsOf
    <2>2. results[k].error = "none"
      BY <1>2 DEF ReadsOf
    <2>3. p \in Places(s)
      BY <1>2, <1>4 DEF Places
    <2> QED
      BY <1>3, <1>6, <2>1, <2>2, <2>3 DEF FieldOf, layout, results
  <1>7. ASSUME NEW name \in DOMAIN fields PROVE \E k, p : FieldOf(s, name, k, p)
    BY <1>5, <1>6
  <1>8. ASSUME NEW k \in 1..Len(layout)
        PROVE  layout[k][1] \in DOMAIN fields /\ \E p : FieldOf(s, layout[k][1], k, p)
    <2> DEFINE name == layout[k][1]
    <2>1. name \in DOMAIN fields
      BY <1>5
    <2>2. Place(layout, name) = k
      BY <1>1, <1>5, <2>1
    <2>3. fields[name] = results[k].value /\ wires[name] = results[k].wire
      BY <1>5, <2>1, <2>2
    <2> HIDE DEF name
    <2>4. \E p : FieldOf(s, name, k, p)
      BY <1>6, <2>3 DEF name
    <2> QED
      BY <2>1, <2>4 DEF name
  <1> QED
    BY <1>3, <1>7, <1>8 DEF layout

GoodData(s) ==
    \A k \in DOMAIN s : s[k][1] = "data" =>
      s[k][2].packing \in Packings /\ IsStream(s[k][2].content)

\* What the kind of an item is read with.
LEMMA ReadItemOf ==
    ASSUME NEW read, NEW item, NEW s, NEW p
    PROVE  /\ item.kind = "stream" => ReadItem(read, item, s, p) = ReadStream(s, p)
           /\ item.kind = "delivery" => ReadItem(read, item, s, p) = ReadDelivery(s, p)
           /\ item.kind = "flagged" => ReadItem(read, item, s, p) = ReadFlagged(read, item, s, p)
           /\ item.kind = "choice" => ReadItem(read, item, s, p) = ReadChoice(read, item, s, p)
           /\ item.kind = "group" => ReadItem(read, item, s, p) = ReadLayout(read, item.layout, p)
           /\ item.kind = "many" => ReadItem(read, item, s, p) = ReadMany(read, item, s, p)
           /\ item.kind = "number" => ReadItem(read, item, s, p) = Take(item.code, s, p)
  BY DEF ReadItem

LEMMA StreamField ==
    ASSUME NEW s, WasRead(s), GoodData(s), NEW k, NEW p, FieldOf(s, "stream", k, p)
    PROVE  GoodStream(MessageOf(s).fields.stream)
  <1> DEFINE item == LayoutOf(s)[k][2]
             r == Reader(s)[<<item, p>>]
             value == MessageOf(s).fields.stream
  <1>1. item \in NetItems /\ item.kind = "stream"
    BY LayoutFacts DEF LayoutOf, FieldOf
  <1>2. p \in Places(s) /\ r.error = "none" /\ value = r.value
    BY DEF FieldOf
  <1>3. Len(s) \in Nat /\ DOMAIN s = 1..Len(s)
    BY StreamFacts DEF WasRead
  <1> HIDE DEF item
  <1>4. r = ReadStream(s, p)
    BY <1>1, <1>2, ReaderDef, ReadItemOf DEF Items
  <1> HIDE DEF r, value
  <1>5. /\ p + 2 \in 1..Len(s) /\ s[p + 2][1] = "data" /\ s[p + 1][2] \in {0, 2, 3}
        /\ r.value = [length |-> s[p][2], type |-> s[p + 1][2], data |-> s[p + 2][2]]
    BY <1>2, <1>3, <1>4, StreamRead
  <1>6. s[p + 2][2].packing \in Packings /\ IsStream(s[p + 2][2].content)
    BY <1>3, <1>5 DEF GoodData
  <1>7. value.type = s[p + 1][2] /\ value.data = s[p + 2][2]
    BY <1>2, <1>5
  <1>8. GoodStream(value)
    BY <1>5, <1>6, <1>7 DEF GoodStream
  <1> QED
    BY <1>8 DEF value

LEMMA WireOfField ==
    ASSUME NEW s, WasRead(s), NEW k \in 1..Len(LayoutOf(s)),
           "delivery_time" \in DOMAIN MessageOf(s).fields =>
             MessageOf(s).fields.delivery_time[1] < Eternity
    PROVE  Writes(AllOf(s).value[k].wire, Failures)
  <1> DEFINE item == LayoutOf(s)[k][2]
             name == LayoutOf(s)[k][1]
  <1>1. /\ item \in NetItems /\ item.kind # "time" /\ item # NetMessageHeader
        /\ item.kind = "delivery" <=> name = "delivery_time"
    BY LayoutFacts DEF LayoutOf
  <1>2. name \in DOMAIN MessageOf(s).fields /\ \E p : FieldOf(s, name, k, p)
    BY FieldFacts
  <1>3. PICK p : FieldOf(s, name, k, p)
    BY <1>2
  <1> DEFINE r == Reader(s)[<<item, p>>]
  <1>4. p \in Places(s) /\ r.error = "none" /\ AllOf(s).value[k] = r
        /\ MessageOf(s).fields[name] = r.value
    BY <1>3 DEF FieldOf
  <1>5. Len(s) \in Nat /\ IsStream(s)
    BY StreamFacts DEF WasRead
  <1> HIDE DEF item, name
  <1>6. CASE item.kind # "delivery"
    <2>1. NeverOf(item) = Failures
      BY <1>1, <1>6 DEF NeverOf
    <2>2. Result(s, p, r, Basic, Failures)
      BY <1>1, <1>4, <1>5, <2>1, NetReaderResult
    <2> HIDE DEF r
    <2>3. Writes(r.wire, Failures)
      BY <1>4, <2>2, ResultError, NoneIsNoError
    <2> QED
      BY <1>4, <2>3
  <1>7. CASE item.kind = "delivery"
    <2>1. r = ReadDelivery(s, p)
      BY <1>1, <1>4, <1>7, ReaderDef, ReadItemOf DEF Items
    <2> HIDE DEF r
    <2>2. r.wire = WriteDelivery(r.value)
      BY <1>4, <1>5, <2>1, DeliveryTime
    <2>3. name = "delivery_time"
      BY <1>1, <1>7
    <2>4. r.value[1] < Eternity
      BY <1>2, <1>4, <2>3
    <2>5. Writes(r.wire, Failures)
      BY <2>2, <2>4, DeliveryWritten
    <2> QED
      BY <1>4, <2>5
  <1> QED
    BY <1>6, <1>7

\* What is known of a message that was read.
Late(m) == "delivery_time" \in DOMAIN m.fields /\ m.fields.delivery_time[1] >= Eternity

Streamed == GameMessages \cup SDLStates \cup {"NetMessageTestAndSet"}

IsMessage(m) ==
    /\ m.class \in Streamed => "stream" \in DOMAIN m.fields
    /\ "stream" \in DOMAIN m.fields => GoodStream(m.fields.stream)
    /\ Late(m) \/ Writes(m.wire, Failures)
    /\ Writes(WriteHeader(Stamped(m.header)), Failures)

LEMMA NowFacts == Now[1] < Eternity /\ Now[1] \in Nat /\ Now[2] \in 0..(Second - 1)
  BY BuffersAssumption, StreamsAssumption DEF BuffersAssumption, StreamsAssumption

LEMMA DeliveryInt ==
    ASSUME NEW s, WasRead(s), "delivery_time" \in DOMAIN MessageOf(s).fields
    PROVE  MessageOf(s).fields.delivery_time[1] \in Int
  <1>1. PICK k, p : FieldOf(s, "delivery_time", k, p)
    BY FieldFacts
  <1> DEFINE item == LayoutOf(s)[k][2]
             r == Reader(s)[<<item, p>>]
             value == MessageOf(s).fields.delivery_time
  <1>2. item \in NetItems /\ item.kind = "delivery"
    BY <1>1, LayoutFacts DEF LayoutOf, FieldOf
  <1>3. p \in Places(s) /\ r.error = "none" /\ value = r.value
    BY <1>1 DEF FieldOf
  <1> HIDE DEF item
  <1>4. r = ReadDelivery(s, p)
    BY <1>2, <1>3, ReaderDef, ReadItemOf DEF Items
  <1> HIDE DEF r
  <1>5. r.value \in Nat \X (0..(Second - 1))
    BY <1>3, <1>4, DeliveryTime DEF WasRead
  <1> QED
    BY <1>3, <1>5

LEMMA MessageFacts ==
    ASSUME NEW s, WasRead(s), GoodData(s)
    PROVE  IsMessage(MessageOf(s))
  <1> DEFINE m == MessageOf(s)
  <1>1. ASSUME m.class \in Streamed PROVE "stream" \in DOMAIN m.fields
    <2>1. m.class = s[1][2]
      BY DEF MessageOf
    <2>2. PICK k \in 1..Len(LayoutOf(s)) : LayoutOf(s)[k][1] = "stream"
      BY <1>1, <2>1, HasStream DEF LayoutOf, Streamed
    <2> QED
      BY <2>2, FieldFacts
  <1>2. ASSUME "stream" \in DOMAIN m.fields PROVE GoodStream(m.fields.stream)
    <2>1. PICK k, p : FieldOf(s, "stream", k, p)
      BY <1>2, FieldFacts
    <2> QED
      BY <2>1, StreamField
  <1>3. ASSUME ~Late(m) PROVE Writes(m.wire, Failures)
    <2>1. \A k \in 1..Len(LayoutOf(s)) : Writes(AllOf(s).value[k].wire, Failures)
      BY <1>3, WireOfField, DeliveryInt, StreamsAssumption DEF Late, StreamsAssumption
    <2>2. Writes(AllOf(s).wire, Failures)
      BY <2>1, AllRead DEF WasRead
    <2>3. m.wire = AllOf(s).wire
      BY DEF MessageOf
    <2> QED
      BY <2>2, <2>3
  <1>4. Writes(WriteHeader(Stamped(m.header)), Failures)
    <2> DEFINE header == HeaderOf(s).value
    <2>1. "time_sent" \in DOMAIN header.fields
      <3> DEFINE flags == ReadFlags(NetMessageHeader, s, 2)
                 layout == Present(HeaderItems, flags.value)
                 v == ReadLayout(Readers(s)[Nesting - 1], layout, flags.next)
      <3>1. header = [flags |-> flags.value, fields |-> v.value] /\ "time_sent" \in DOMAIN v.value
        BY HeaderParts DEF WasRead
      <3> HIDE DEF header, flags, v
      <3> QED
        BY <3>1
    <2>2. m.header = header
      BY DEF MessageOf
    <2> HIDE DEF header
    <2> QED
      BY <2>1, <2>2, HeaderWritten, NowFacts
  <1> QED
    BY <1>1, <1>2, <1>3, <1>4 DEF IsMessage

-----------------------------------------------------------------------------
(* The message of the engine in a message.                                 *)

LEMMA Decompressed ==
    ASSUME NEW stream, GoodStream(stream)
    PROVE  LET r == decompress_data(stream)
           IN  /\ r.error \in {"none", "ValueError", "zlib.error"}
               /\ r.error = "none" => r.value \in {<<>>, stream.data.content} /\ IsStream(r.value)
  <1> DEFINE content == stream.data.content
             packing == stream.data.packing
             d == decompress_data(stream)
  <1>1. IsStream(<<>>)
    <2>1. <<>> \in Seq({<<>>[k] : k \in DOMAIN <<>>}) /\ \A k \in DOMAIN <<>> : IsToken(<<>>[k])
      OBVIOUS
    <2> QED
      BY <2>1 DEF IsStream
  <1>2. packing \in {"plain", "zlib", "broken", "short"} /\ IsStream(content)
    BY DEF GoodStream, Packings
  <1>3. d \in {Raises("ValueError"), Raises("zlib.error"), Got(content, <<>>, 1), Got(<<>>, <<>>, 1)}
    <2> HIDE DEF d
    <2>1. CASE stream.type = 2
      <3>1. d = CASE packing = "short" -> Raises("ValueError")
                  [] packing \in {"plain", "broken"} -> Raises("zlib.error")
                  [] packing = "zlib" ->
                       IF stream.length = 1 THEN Got(content, <<>>, 1) ELSE Raises("ValueError")
        BY <2>1 DEF d, decompress_data
      <3> HIDE DEF packing, content
      <3>2. CASE packing = "short"
        BY <3>1, <3>2
      <3>3. CASE packing \in {"plain", "broken"}
        BY <3>1, <3>3
      <3>4. CASE packing = "zlib"
        BY <3>1, <3>4
      <3> QED
        BY <1>2, <3>2, <3>3, <3>4
    <2>2. CASE stream.type # 2
      <3>1. d = IF stream.length # 0 THEN Raises("ValueError")
                ELSE IF packing = "plain" THEN Got(content, <<>>, 1) ELSE Got(<<>>, <<>>, 1)
        BY <2>2 DEF d, decompress_data
      <3> QED
        BY <3>1
    <2> QED
      BY <2>1, <2>2
  <1>4. /\ Raises("ValueError").error = "ValueError" /\ Raises("zlib.error").error = "zlib.error"
        /\ Got(content, <<>>, 1).error = "none" /\ Got(content, <<>>, 1).value = content
        /\ Got(<<>>, <<>>, 1).error = "none" /\ Got(<<>>, <<>>, 1).value = <<>>
    BY RaisesFacts, GotFacts
  <1> HIDE DEF d, content
  <1>5. d.error \in {"none", "ValueError", "zlib.error"}
    BY <1>3, <1>4
  <1>6. d.error = "none" => d.value \in {<<>>, content} /\ IsStream(d.value)
    BY <1>1, <1>2, <1>3, <1>4
  <1> QED
    BY <1>5, <1>6 DEF d, content

\* The exceptions that a message of the engine gives a reason for.
ContentErrors(s) ==
    EngineErrors(s)
      \cup (IF Nesting < MaxRank * Cardinality(ClassPlaces(s, 1)) THEN {"RecursionError"} ELSE {})

LEMMA EngineLayoutResult ==
    ASSUME NEW s, IsStream(s), 1 \in 1..Len(s), s[1][1] = "class", NEW layout, IsSeq(layout),
           Fields(layout) \subseteq EngineItems
    PROVE  /\ 2 \in Places(s) /\ "none" \notin ContentErrors(s)
           /\ Result(s, 2, ReadLayout(Reader(s), layout, 2), ContentErrors(s), {})
  <1>1. Len(s) \in Nat /\ 1 \in Places(s) /\ 2 \in Places(s)
    BY StreamFacts DEF Places
  <1>2. "none" \notin ContentErrors(s)
    BY DEF ContentErrors, EngineErrors, Basic
  <1>3. ASSUME NEW item \in Fields(layout), NEW p \in 2..(Len(s) + 1)
        PROVE  Result(s, p, Reader(s)[<<item, p>>], ContentErrors(s), {})
    <2>1. p \in Places(s) /\ item \in Items /\ Nesting \in Nat
      BY <1>1, StreamsAssumption DEF Places, Items, StreamsAssumption
    <2>2. Result(s, p, Readers(s)[Nesting][<<item, p>>], ErrorsAt(s, Nesting, item, p), {})
      BY <2>1, EngineResult
    <2>3. TooDeep(s, Nesting, item, p) => Nesting < MaxRank * Cardinality(ClassPlaces(s, 1))
      <3> DEFINE a == Cardinality(ClassPlaces(s, p))
                 b == Cardinality(ClassPlaces(s, 1))
                 q == Rank[item]
      <3>1. p \in (1 + 1)..(Len(s) + 1)
        OBVIOUS
      <3>2. a + 1 <= b /\ b \in Nat
        BY <1>1, <3>1, ClassPlacesFacts
      <3>3. a \in Nat /\ q \in 1..7
        BY <2>1, ClassPlacesFacts, ItemFacts DEF MaxRank
      <3> HIDE DEF a, b, q
      <3>4. Nesting < q + 7 * a => Nesting < 7 * b
        BY <2>1, <3>2, <3>3
      <3> QED
        BY <3>4 DEF TooDeep, MaxRank, a, b, q
    <2>4. ErrorsAt(s, Nesting, item, p) \subseteq ContentErrors(s)
      BY <2>3 DEF ErrorsAt, ContentErrors
    <2>5. p \in Int /\ p <= p /\ {} \subseteq {}
      OBVIOUS
    <2>6. Result(s, p, Readers(s)[Nesting][<<item, p>>], ContentErrors(s), {})
      BY <1>1, <2>2, <2>4, <2>5, ResultMore
    <2> QED
      BY <2>6 DEF Reader
  <1>4. Result(s, 2, ReadLayout(Reader(s), layout, 2), ContentErrors(s), {})
    BY <1>1, <1>2, <1>3, LayoutResult
  <1> QED
    BY <1>1, <1>2, <1>4

LEMMA EngineLayouts ==
    ASSUME NEW class
    PROVE  LET layout == LayoutIn(Classes.Message, class, UnknownMessage)
           IN  IsSeq(layout) /\ Fields(layout) \subseteq EngineItems
  <1> DEFINE layout == LayoutIn(Classes.Message, class, UnknownMessage)
  <1>1. "Message" \in DOMAIN Classes
    BY DEF Classes
  <1>2. IsLayout(layout, EngineItems)
    <2>1. CASE class \in DOMAIN Classes.Message
      BY <1>1, <2>1, ItemsAssumption DEF ItemsAssumption, LayoutIn
    <2>2. CASE class \notin DOMAIN Classes.Message
      BY <2>2, ItemsAssumption DEF ItemsAssumption, LayoutIn
    <2> QED
      BY <2>1, <2>2
  <1> HIDE DEF layout
  <1>3. layout \in Seq(STRING \X EngineItems)
    BY <1>2 DEF IsLayout
  <1>4. IsSeq(layout)
    BY <1>3 DEF IsSeq
  <1>5. DOMAIN layout = 1..Len(layout) /\ \A k \in 1..Len(layout) : layout[k][2] \in EngineItems
    BY <1>3
  <1>6. Fields(layout) \subseteq EngineItems
    BY <1>5 DEF Fields
  <1> QED
    BY <1>4, <1>6 DEF layout

\* A message of the engine is its class and its fields.
IsEngineMessage(s, layout, r) ==
    LET v == ReadLayout(Reader(s), layout, 2)
    IN  /\ 1 \in 1..Len(s) /\ s[1][1] = "class" /\ v.error = "none"
        /\ r.value = [class |-> s[1][2], fields |-> v.value]

LEMMA EngineMessage ==
    ASSUME NEW s, IsStream(s), NEW layout, IsSeq(layout), Fields(layout) \subseteq EngineItems,
           Take("class", s, 1).error = "none",
           NEW v, v = ReadLayout(Reader(s), layout, Take("class", s, 1).next),
           NEW r, r = IF v.error # "none" THEN v
                      ELSE Got([class |-> Take("class", s, 1).value, fields |-> v.value],
                               <<>>, v.next)
    PROVE  /\ r.error \in ContentErrors(s) \cup {"none"}
           /\ r.error = "none" => IsEngineMessage(s, layout, r)
  <1> DEFINE class == Take("class", s, 1)
             value == [class |-> class.value, fields |-> v.value]
             got == Got(value, <<>>, v.next)
  <1>1. Len(s) \in Nat /\ 1 \in Places(s)
    BY StreamFacts DEF Places
  <1>2. 1 \in 1..Len(s) /\ s[1][1] = "class" /\ class.value = s[1][2] /\ class.next = 2
    <2>1. 1 + 1 = 2
      OBVIOUS
    <2> QED
      BY <1>1, <2>1, TakeRead
  <1>3. Result(s, 2, v, ContentErrors(s), {}) /\ "none" \notin ContentErrors(s)
    BY <1>2, EngineLayoutResult
  <1>4. v.error \in ContentErrors(s) \cup {"none"}
    BY <1>3, ResultError
  <1>5. v = ReadLayout(Reader(s), layout, 2)
    BY <1>2
  <1>6. value = [class |-> s[1][2], fields |-> v.value]
    BY <1>2
  <1> HIDE DEF value
  <1>7. r = IF v.error # "none" THEN v ELSE got
    BY DEF value
  <1>8. got.error = "none" /\ got.value = value
    BY GotFacts
  <1> HIDE DEF got
  <1>9. r.error \in ContentErrors(s) \cup {"none"}
    BY <1>3, <1>4, <1>7, <1>8
  <1>10. r.error = "none" => v.error = "none" /\ r.value = value
    BY <1>7, <1>8
  <1>11. r.error = "none" => IsEngineMessage(s, layout, r)
    BY <1>2, <1>5, <1>6, <1>10 DEF IsEngineMessage
  <1> QED
    BY <1>9, <1>11

\* What comes of reading one: the errors, and which layout it has.
IsWrapped(m, r) ==
    LET d == decompress_data(m.fields.stream)
    IN  /\ r.error \in {"none", d.error} \cup (IF d.error = "none" THEN ContentErrors(d.value) ELSE {})
        /\ r.error = "none" => d.error = "none"
        /\ r.error = "none" /\ r.value.class = "LoadAvatarMessage" =>
             IsEngineMessage(d.value, LoadAvatarMessage, r)

LEMMA ClassError ==
    ASSUME NEW s, IsStream(s)
    PROVE  /\ Take("class", s, 1).error \in ContentErrors(s) \cup {"none"}
           /\ "ValueError" \in ContentErrors(s)
  <1>1. Len(s) \in Nat /\ 1 \in Places(s) /\ "class" \notin Failures
    BY StreamFacts DEF Places, Failures
  <1>2. Take("class", s, 1).error \in Basic \cup {"none"}
    BY <1>1, TakeResult, ResultError, NoneIsNoError
  <1> QED
    BY <1>2 DEF ContentErrors, EngineErrors, Basic

LEMMA WrappedFacts ==
    ASSUME NEW m, GoodStream(m.fields.stream)
    PROVE  IsWrapped(m, ReadWrapped(m))
  <1> DEFINE d == decompress_data(m.fields.stream)
             s == d.value
             class == Take("class", s, 1)
             layout == LayoutIn(Classes.Message, class.value, UnknownMessage)
             v == ReadLayout(Reader(s), layout, class.next)
             got == Got([class |-> class.value, fields |-> v.value], <<>>, v.next)
             last == IF v.error # "none" THEN v ELSE got
             next == IF class.value = "null" THEN Raises("ValueError") ELSE last
             rest == IF class.error # "none" THEN class ELSE next
             r == ReadWrapped(m)
  <1>1. r = IF d.error # "none" THEN d ELSE rest
    BY DEF ReadWrapped, Then
  <1>2. d.error = "none" => IsStream(s)
    BY Decompressed
  <1>3. IsSeq(layout) /\ Fields(layout) \subseteq EngineItems
    BY EngineLayouts
  <1>4. d.error = "none" /\ class.error = "none" =>
          /\ last.error \in ContentErrors(s) \cup {"none"}
          /\ last.error = "none" => IsEngineMessage(s, layout, last)
    <2> HIDE DEF d, layout
    <2> QED
      BY <1>2, <1>3, EngineMessage
  <1>5. d.error = "none" =>
          class.error \in ContentErrors(s) \cup {"none"} /\ "ValueError" \in ContentErrors(s)
    <2> HIDE DEF d
    <2> QED
      BY <1>2, ClassError
  <1>6. Raises("ValueError").error = "ValueError"
    BY RaisesFacts
  <1> HIDE DEF last
  <1>7. CASE d.error # "none"
    <2>1. r = d
      BY <1>1, <1>7
    <2> HIDE DEF d, r
    <2> QED
      BY <1>7, <2>1 DEF IsWrapped, r, d
  <1>8. CASE d.error = "none" /\ class.error # "none"
    <2>1. r = class
      BY <1>1, <1>8
    <2> HIDE DEF class, d, r
    <2> QED
      BY <1>5, <1>8, <2>1 DEF IsWrapped, r, d
  <1>9. CASE d.error = "none" /\ class.error = "none" /\ class.value = "null"
    <2>1. r = Raises("ValueError")
      BY <1>1, <1>9
    <2> HIDE DEF class, d, r
    <2> QED
      BY <1>5, <1>6, <1>9, <2>1 DEF IsWrapped, r, d
  <1>10. CASE d.error = "none" /\ class.error = "none" /\ class.value # "null"
    <2>1. r = last
      BY <1>1, <1>10
    <2>2. ASSUME r.error = "none", r.value.class = "LoadAvatarMessage"
          PROVE  IsEngineMessage(s, LoadAvatarMessage, r)
      <3>1. IsEngineMessage(s, layout, r)
        BY <1>4, <1>10, <2>1, <2>2
      <3>2. r.value.class = s[1][2]
        <4> HIDE DEF r, s, layout
        <4> QED
          BY <3>1 DEF IsEngineMessage
      <3>3. class.value = s[1][2]
        <4>1. Len(s) \in Nat /\ 1 \in Places(s)
          BY <1>2, <1>10, StreamFacts DEF Places
        <4> HIDE DEF s
        <4> QED
          BY <1>10, <4>1, TakeRead
      <3>4. class.value = "LoadAvatarMessage"
        BY <2>2, <3>2, <3>3
      <3>5. layout = LoadAvatarMessage
        <4> HIDE DEF class
        <4>1. layout = LayoutIn(Classes.Message, "LoadAvatarMessage", UnknownMessage)
          BY <3>4
        <4>2. LayoutIn(Classes.Message, "LoadAvatarMessage", UnknownMessage) = LoadAvatarMessage
          BY DEF LayoutIn, Classes
        <4> QED
          BY <4>1, <4>2
      <3> QED
        BY <3>1, <3>5
    <2> HIDE DEF class, d, r
    <2> QED
      BY <1>4, <1>10, <2>1, <2>2 DEF IsWrapped, r, d
  <1> QED
    BY <1>7, <1>8, <1>9, <1>10

LEMMA PlayerFacts ==
    ASSUME NEW m, GoodStream(m.fields.stream)
    PROVE  IsWrapped(m, ReadPlayer(m))
  <1> DEFINE d == decompress_data(m.fields.stream)
             s == d.value
             class == Take("class", s, 1)
             layout == LoadAvatarMessage
             v == ReadLayout(Reader(s), layout, class.next)
             got == Got([class |-> class.value, fields |-> v.value], <<>>, v.next)
             last == IF v.error # "none" THEN v ELSE got
             other == Got([class |-> class.value], <<>>, class.next)
             next == IF class.value # "LoadAvatarMessage" THEN other ELSE last
             rest == IF class.error # "none" THEN class ELSE next
             r == ReadPlayer(m)
  <1>1. r = IF d.error # "none" THEN d ELSE rest
    BY DEF ReadPlayer, Then
  <1>2. d.error = "none" => IsStream(s)
    BY Decompressed
  <1>3. IsSeq(layout) /\ Fields(layout) \subseteq EngineItems
    <2>1. LayoutIn(Classes.Message, "LoadAvatarMessage", UnknownMessage) = layout
      BY DEF LayoutIn, Classes
    <2> HIDE DEF layout
    <2> QED
      BY <2>1, EngineLayouts
  <1>4. d.error = "none" /\ class.error = "none" =>
          /\ last.error \in ContentErrors(s) \cup {"none"}
          /\ last.error = "none" => IsEngineMessage(s, layout, last)
    <2> HIDE DEF d, layout
    <2> QED
      BY <1>2, <1>3, EngineMessage
  <1>5. d.error = "none" => class.error \in ContentErrors(s) \cup {"none"}
    <2> HIDE DEF d
    <2> QED
      BY <1>2, ClassError
  <1>6. other.error = "none" /\ other.value.class = class.value
    <2> HIDE DEF class
    <2> QED
      BY GotFacts
  <1> HIDE DEF last, other, layout
  <1>7. CASE d.error # "none"
    <2>1. r = d
      BY <1>1, <1>7
    <2> HIDE DEF d, r
    <2> QED
      BY <1>7, <2>1 DEF IsWrapped, r, d
  <1>8. CASE d.error = "none" /\ class.error # "none"
    <2>1. r = class
      BY <1>1, <1>8
    <2> HIDE DEF class, d, r
    <2> QED
      BY <1>5, <1>8, <2>1 DEF IsWrapped, r, d
  <1>9. CASE d.error = "none" /\ class.error = "none" /\ class.value # "LoadAvatarMessage"
    <2>1. r = other
      BY <1>1, <1>9
    <2> HIDE DEF class, d, r
    <2> QED
      BY <1>6, <1>9, <2>1 DEF IsWrapped, r, d
  <1>10. CASE d.error = "none" /\ class.error = "none" /\ class.value = "LoadAvatarMessage"
    <2>1. r = last
      BY <1>1, <1>10
    <2> HIDE DEF class, d, r
    <2> QED
      BY <1>4, <1>10, <2>1 DEF IsWrapped, r, d, layout
  <1> QED
    BY <1>7, <1>8, <1>9, <1>10

-----------------------------------------------------------------------------
(* The spawn point.                                                        *)

AnyErrors(s) == EngineErrors(s) \cup {"RecursionError"}

LEMMA AnyResult ==
    ASSUME NEW s, IsStream(s), NEW n \in Nat, NEW item \in Items, NEW p \in Places(s)
    PROVE  Result(s, p, Readers(s)[n][<<item, p>>], AnyErrors(s), {}) /\ "none" \notin AnyErrors(s)
  <1>1. Result(s, p, Readers(s)[n][<<item, p>>], ErrorsAt(s, n, item, p), {})
    BY EngineResult
  <1>2. ErrorsAt(s, n, item, p) \subseteq AnyErrors(s)
    BY DEF ErrorsAt, AnyErrors
  <1>3. Len(s) \in Nat /\ p \in Int /\ p <= p /\ {} \subseteq {}
    BY StreamFacts DEF Places
  <1>4. Result(s, p, Readers(s)[n][<<item, p>>], AnyErrors(s), {})
    BY <1>1, <1>2, <1>3, ResultMore
  <1>5. "none" \notin AnyErrors(s)
    BY DEF AnyErrors, EngineErrors, Basic
  <1> QED
    BY <1>4, <1>5

\* The value of an item was read somewhere in the stream.
ReadAt(s, n, item, value) ==
    \E p \in Places(s) : /\ Readers(s)[n][<<item, p>>].error = "none"
                         /\ Readers(s)[n][<<item, p>>].value = value

\* That of a field, if all fields of that name are of one kind.
LEMMA LayoutField ==
    ASSUME NEW s, IsStream(s), NEW n \in Nat, NEW layout, IsSeq(layout),
           Fields(layout) \subseteq Items, NEW i \in Places(s),
           NEW r, r = ReadLayout(Readers(s)[n], layout, i), r.error = "none",
           NEW name, NEW item, \E k \in 1..Len(layout) : layout[k][1] = name,
           \A k \in 1..Len(layout) : layout[k][1] = name => layout[k][2] = item
    PROVE  name \in DOMAIN r.value /\ ReadAt(s, n, item, r.value[name])
  <1> DEFINE read == Readers(s)[n]
             all == ReadAll(read, ItemsOf(layout), i)
             fields == ByName(layout, Values(all.value))
             k == Place(layout, name)
  <1>1. Len(s) \in Nat /\ i \in Nat
    BY StreamFacts DEF Places
  <1>2. ASSUME NEW part \in Fields(layout), NEW p \in i..(Len(s) + 1)
        PROVE  Result(s, p, read[<<part, p>>], AnyErrors(s), {})
    <2>1. p \in Places(s) /\ part \in Items
      BY <1>1 DEF Places
    <2> QED
      BY <2>1, AnyResult
  <1>3. all.error = "none" /\ r.value = fields
    <2> HIDE DEF read
    <2> QED
      BY LayoutDone DEF read
  <1>4. "none" \notin AnyErrors(s)
    BY DEF AnyErrors, EngineErrors, Basic
  <1> HIDE DEF read
  <1>5. ReadsOf(s, read, layout, i, all.value)
    BY <1>1, <1>2, <1>3, <1>4, LayoutRead
  <1> HIDE DEF all
  <1>6. name \in DOMAIN fields /\ k \in 1..Len(layout) /\ layout[k][1] = name
        /\ fields[name] = all.value[k].value
    BY <1>5, FieldRead DEF ReadsOf
  <1>7. layout[k][2] = item
    BY <1>6
  <1> HIDE DEF fields, k
  <1>8. PICK p \in i..(Len(s) + 1) : all.value[k] = read[<<layout[k][2], p>>]
    BY <1>5, <1>6 DEF ReadsOf
  <1>9. all.value[k].error = "none" /\ p \in Places(s)
    BY <1>1, <1>5, <1>6 DEF ReadsOf, Places
  <1> QED
    BY <1>3, <1>6, <1>7, <1>8, <1>9 DEF ReadAt, read

LEMMA ChoiceField ==
    ASSUME NEW s, IsStream(s), NEW n \in Nat, NEW item \in Items, item.kind = "choice",
           NEW value, ReadAt(s, n + 1, item, value), value.there = TRUE,
           NEW name, NEW part, \E k \in 1..Len(item.yes) : item.yes[k][1] = name,
           \A k \in 1..Len(item.yes) : item.yes[k][1] = name => item.yes[k][2] = part
    PROVE  ReadAt(s, n, part, value.value[name])
  <1>1. PICK i \in Places(s) : /\ Readers(s)[n + 1][<<item, i>>].error = "none"
                              /\ Readers(s)[n + 1][<<item, i>>].value = value
    BY DEF ReadAt
  <1> DEFINE read == Readers(s)[n]
             r == Readers(s)[n + 1][<<item, i>>]
             there == ReadBool(s, i)
             v == ReadLayout(read, IF there.value THEN item.yes ELSE item.no, there.next)
  <1>2. r = ReadChoice(read, item, s, i)
    <2> HIDE DEF there, v
    <2>1. r = ReadItem(read, item, s, i)
      BY ReadersDef
    <2> HIDE DEF read, r
    <2> QED
      BY <2>1, ReadItemOf
  <1> HIDE DEF read, r
  <1>3. IsChoice(read, item, s, i, r)
    BY <1>1, <1>2, ChoiceDone DEF r
  <1>4. /\ there.error = "none" /\ v.error = "none"
        /\ value = [there |-> there.value, value |-> v.value]
    BY <1>1, <1>3 DEF IsChoice, r
  <1>5. there.next \in Places(s)
    <2>1. Len(s) \in Nat
      BY StreamFacts
    <2> QED
      BY <1>4, <2>1, BoolNext
  <1>6. there.value = TRUE /\ value.value = v.value
    <2> HIDE DEF there, v
    <2> QED
      BY <1>4
  <1>7. v = ReadLayout(read, item.yes, there.next)
    <2> HIDE DEF there
    <2> QED
      BY <1>6
  <1>8. IsSeq(item.yes) /\ Fields(item.yes) \subseteq Items
    BY PartsFacts, ItemFacts
  <1> HIDE DEF v, there
  <1>9. ReadAt(s, n, part, v.value[name])
    BY <1>4, <1>5, <1>7, <1>8, LayoutField DEF read
  <1> QED
    BY <1>6, <1>9

LEMMA GroupField ==
    ASSUME NEW s, IsStream(s), NEW n \in Nat, NEW item \in Items, item.kind = "group",
           NEW value, ReadAt(s, n + 1, item, value),
           NEW name, NEW part, \E k \in 1..Len(item.layout) : item.layout[k][1] = name,
           \A k \in 1..Len(item.layout) : item.layout[k][1] = name => item.layout[k][2] = part
    PROVE  ReadAt(s, n, part, value[name])
  <1>1. PICK i \in Places(s) : /\ Readers(s)[n + 1][<<item, i>>].error = "none"
                              /\ Readers(s)[n + 1][<<item, i>>].value = value
    BY DEF ReadAt
  <1> DEFINE read == Readers(s)[n]
             r == Readers(s)[n + 1][<<item, i>>]
  <1>2. r = ReadLayout(read, item.layout, i)
    BY ReadersDef, ReadItemOf
  <1>3. IsSeq(item.layout) /\ Fields(item.layout) \subseteq Items
    BY PartsFacts, ItemFacts
  <1> HIDE DEF r
  <1>4. ReadAt(s, n, part, r.value[name])
    BY <1>1, <1>2, <1>3, LayoutField DEF r
  <1> QED
    BY <1>1, <1>4 DEF r

LEMMA FlaggedField ==
    ASSUME NEW s, IsStream(s), NEW n \in Nat, NEW item \in Items, item.kind = "flagged",
           NEW value, ReadAt(s, n + 1, item, value),
           NEW name, NEW part, \E k \in 1..Len(item.fields) : item.fields[k][2] = name,
           \A k \in 1..Len(item.fields) :
             item.fields[k][2] = name => item.fields[k][1] = Always /\ item.fields[k][3] = part
    PROVE  ReadAt(s, n, part, value.fields[name])
  <1>1. PICK i \in Places(s) : /\ Readers(s)[n + 1][<<item, i>>].error = "none"
                              /\ Readers(s)[n + 1][<<item, i>>].value = value
    BY DEF ReadAt
  <1> DEFINE read == Readers(s)[n]
             r == Readers(s)[n + 1][<<item, i>>]
             flags == ReadFlags(item, s, i)
             chosen == flags.value
             layout == Present(item.fields, chosen)
             v == ReadLayout(read, layout, flags.next)
  <1>2. r = ReadFlagged(read, item, s, i)
    <2>1. r = ReadItem(read, item, s, i)
      BY <1>1, ReadersDef
    <2> HIDE DEF r, read
    <2> QED
      BY <2>1, ReadItemOf
  <1> HIDE DEF read, r
  <1>3. IsFlagged(read, item, s, i, r)
    BY <1>1, <1>2, FlaggedDone DEF r
  <1>4. /\ flags.error = "none" /\ v.error = "none"
        /\ value = [flags |-> flags.value, fields |-> v.value]
    BY <1>1, <1>3 DEF IsFlagged, r
  <1>5. flags.next \in Places(s)
    <2>1. Len(s) \in Nat /\ item.code \notin Failures
      BY StreamFacts, ItemFacts
    <2> QED
      BY <1>4, <2>1, FlagsResult
  <1>6. value.fields = v.value
    <2> HIDE DEF flags, v
    <2> QED
      BY <1>4
  <1>7. IsSeq(item.fields) /\ Parts(item) \subseteq Items
    BY ItemFacts
  <1>8. /\ IsSeq(layout) /\ Len(layout) = Len(item.fields)
        /\ \A k \in 1..Len(item.fields) :
             /\ layout[k][1] = item.fields[k][2]
             /\ layout[k][2] \in {item.fields[k][3], Nothing}
             /\ item.fields[k][1] = Always \/ item.fields[k][1] \in chosen =>
                  layout[k][2] = item.fields[k][3]
    <2> HIDE DEF chosen
    <2> QED
      BY <1>7, PresentFacts
  <1> HIDE DEF layout, flags, v
  <1>9. DOMAIN layout = 1..Len(layout)
    BY <1>8, SeqFacts
  <1>10. Fields(layout) \subseteq Items
    <2>1. \A k \in 1..Len(layout) : layout[k][2] \in Parts(item)
      BY <1>7, <1>8, FlaggedParts
    <2> QED
      BY <1>7, <1>9, <2>1 DEF Fields
  <1>11. /\ \E k \in 1..Len(layout) : layout[k][1] = name
         /\ \A k \in 1..Len(layout) : layout[k][1] = name => layout[k][2] = part
    BY <1>8
  <1>12. v = ReadLayout(Readers(s)[n], layout, flags.next)
    BY DEF v, read
  <1>13. ReadAt(s, n, part, v.value[name])
    <2> DEFINE j == flags.next
    <2>1. j \in Places(s) /\ v = ReadLayout(Readers(s)[n], layout, j) /\ IsSeq(layout)
      BY <1>5, <1>8, <1>12
    <2>2. v.error = "none"
      BY <1>4
    <2> HIDE DEF j
    <2> QED
      BY <1>10, <1>11, <2>1, <2>2, LayoutField
  <1> QED
    BY <1>6, <1>13

\* All fields of a name in a layout are of one kind.
OfKind(layout, name, item) ==
    IsSeq(layout) /\ \A k \in 1..Len(layout) : layout[k][1] = name => layout[k][2] = item

Has(layout, name) == \E k \in 1..Len(layout) : layout[k][1] = name

LEMMA OfKindConcat ==
    ASSUME NEW name, NEW item, NEW u, NEW v, OfKind(u, name, item), OfKind(v, name, item)
    PROVE  /\ OfKind(u \o v, name, item)
           /\ Has(v, name) => Has(u \o v, name)
  <1>1. IsSeq(u) /\ IsSeq(v) /\ Len(u) \in Nat /\ Len(v) \in Nat
    BY SeqFacts DEF OfKind
  <1>2. IsSeq(u \o v) /\ Len(u \o v) = Len(u) + Len(v)
    BY <1>1, Concat
  <1>3. ASSUME NEW k \in 1..Len(u \o v), (u \o v)[k][1] = name PROVE (u \o v)[k][2] = item
    <2>1. CASE k \in 1..Len(u)
      <3>1. (u \o v)[k] = u[k]
        BY <1>1, <2>1, Concat
      <3> QED
        BY <1>3, <2>1, <3>1 DEF OfKind
    <2>2. ASSUME NEW l \in 1..Len(v), k = Len(u) + l PROVE (u \o v)[k][2] = item
      <3>1. (u \o v)[k] = v[l]
        BY <1>1, <2>2, Concat
      <3> QED
        BY <1>3, <2>2, <3>1 DEF OfKind
    <2> QED
      BY <1>1, <2>1, <2>2, Concat
  <1>4. ASSUME NEW l \in 1..Len(v), v[l][1] = name PROVE Has(u \o v, name)
    <2>1. (u \o v)[Len(u) + l] = v[l] /\ Len(u) + l \in 1..Len(u \o v)
      BY <1>1, <1>2, Concat
    <2> QED
      BY <1>4, <2>1 DEF Has
  <1> QED
    BY <1>2, <1>3, <1>4 DEF OfKind, Has

LEMMA SpawnPointItem ==
    OfKind(LoadAvatarMessage, "spawn_point", Key) /\ Has(LoadAvatarMessage, "spawn_point")
  <1>1. OfKind(Message, "spawn_point", Key)
    <2> DEFINE a == <<"sender", Key>>
               b == <<"receivers", Many("i32", Key)>>
               c == <<"timestamp", F64>>
               d == <<"flags", U32>>
    <2>1. /\ a[1] # "spawn_point" /\ b[1] # "spawn_point" /\ c[1] # "spawn_point"
          /\ d[1] # "spawn_point"
      OBVIOUS
    <2>2. Message = <<a, b, c, d>>
      BY DEF Message
    <2> HIDE DEF a, b, c, d
    <2>3. <<a, b, c, d>> \in Seq({a, b, c, d}) /\ Len(<<a, b, c, d>>) = 4
      OBVIOUS
    <2>4. \A k \in 1..4 : <<a, b, c, d>>[k] \in {a, b, c, d}
      OBVIOUS
    <2> QED
      BY <2>1, <2>2, <2>3, <2>4 DEF OfKind, IsSeq
  <1>2. OfKind(<< <<"clone", Key>>, <<"requestor", Key>>, <<"originating_ki_number", U32>>,
                  <<"user_data", U32>>, <<"is_valid", True>>, <<"is_loading", Bool>>,
                  <<"trigger_message", Creatable("Message", TRUE)>> >>, "spawn_point", Key)
    <2> DEFINE a == <<"clone", Key>>
               b == <<"requestor", Key>>
               c == <<"originating_ki_number", U32>>
               d == <<"user_data", U32>>
               e == <<"is_valid", True>>
               f == <<"is_loading", Bool>>
               g == <<"trigger_message", Creatable("Message", TRUE)>>
    <2>1. /\ a[1] # "spawn_point" /\ b[1] # "spawn_point" /\ c[1] # "spawn_point"
          /\ d[1] # "spawn_point" /\ e[1] # "spawn_point" /\ f[1] # "spawn_point"
          /\ g[1] # "spawn_point"
      OBVIOUS
    <2> DEFINE w == <<a, b, c, d, e, f, g>>
    <2> HIDE DEF a, b, c, d, e, f, g
    <2>2. w \in Seq({a, b, c, d, e, f, g}) /\ Len(w) = 7
      OBVIOUS
    <2>3. \A k \in 1..7 : w[k] \in {a, b, c, d, e, f, g}
      OBVIOUS
    <2> HIDE DEF w
    <2>4. OfKind(w, "spawn_point", Key)
      BY <2>1, <2>2, <2>3 DEF OfKind, IsSeq
    <2> QED
      BY <2>4 DEF w, a, b, c, d, e, f, g
  <1>3. OfKind(LoadCloneMessage, "spawn_point", Key)
    BY <1>1, <1>2, OfKindConcat DEF LoadCloneMessage
  <1> DEFINE a == <<"is_player", Bool>>
             b == <<"spawn_point", Key>>
             c == <<"initial_task", Task>>
             d == <<"user_string", SafeString>>
             w == <<a, b, c, d>>
  <1>4. OfKind(w, "spawn_point", Key) /\ Has(w, "spawn_point")
    <2>1. /\ a[1] # "spawn_point" /\ b[1] = "spawn_point" /\ b[2] = Key
          /\ c[1] # "spawn_point" /\ d[1] # "spawn_point"
      OBVIOUS
    <2> HIDE DEF a, b, c, d
    <2>2. w \in Seq({a, b, c, d}) /\ Len(w) = 4 /\ w[2] = b /\ 2 \in 1..4
      OBVIOUS
    <2>3. \A k \in 1..4 : w[k] \in {a, b, c, d}
      OBVIOUS
    <2> HIDE DEF w
    <2>4. OfKind(w, "spawn_point", Key)
      BY <2>1, <2>2, <2>3 DEF OfKind, IsSeq
    <2>5. Has(w, "spawn_point")
      BY <2>1, <2>2 DEF Has
    <2> QED
      BY <2>4, <2>5
  <1>5. LoadAvatarMessage = LoadCloneMessage \o w
    BY DEF LoadAvatarMessage
  <1> HIDE DEF w
  <1> QED
    BY <1>3, <1>4, <1>5, OfKindConcat

\* What a key, a uoid and a location consist of.
LEMMA LocationItems ==
    /\ Key.kind = "choice" /\ OfKind(Key.yes, "uoid", Uoid) /\ Has(Key.yes, "uoid")
    /\ Uoid.kind = "flagged" /\ Location.kind = "group"
    /\ OfKind(Location.layout, "sequence_number", Number("sequence"))
    /\ Has(Location.layout, "sequence_number")
    /\ \E k \in 1..Len(Uoid.fields) : Uoid.fields[k][2] = "location"
    /\ \A k \in 1..Len(Uoid.fields) : Uoid.fields[k][2] = "location" =>
         Uoid.fields[k][1] = Always /\ Uoid.fields[k][3] = Location
  <1>1. Key.kind = "choice" /\ Key.yes = << <<"uoid", Uoid>> >>
    BY DEF Key, Maybe, Choice
  <1>2. OfKind(Key.yes, "uoid", Uoid) /\ Has(Key.yes, "uoid")
    <2> DEFINE a == <<"uoid", Uoid>>
    <2>1. a[1] = "uoid" /\ a[2] = Uoid
      OBVIOUS
    <2> HIDE DEF a
    <2>2. OfKind(<<a>>, "uoid", Uoid) /\ Has(<<a>>, "uoid")
      BY <2>1, Single DEF OfKind, Has
    <2> QED
      BY <1>1, <2>2 DEF a
  <1>3. /\ OfKind(Location.layout, "sequence_number", Number("sequence"))
        /\ Has(Location.layout, "sequence_number") /\ Location.kind = "group"
    <2> DEFINE a == <<"sequence_number", Number("sequence")>>
               b == <<"flags", Number("location_flags")>>
               w == <<a, b>>
    <2>1. a[1] = "sequence_number" /\ a[2] = Number("sequence") /\ b[1] # "sequence_number"
      OBVIOUS
    <2>2. Location.layout = w /\ Location.kind = "group"
      BY DEF Location, Group
    <2> HIDE DEF a, b
    <2>3. w \in Seq({a, b}) /\ Len(w) = 2 /\ w[1] = a /\ w[2] = b
      OBVIOUS
    <2> HIDE DEF w
    <2>4. OfKind(w, "sequence_number", Number("sequence"))
      <3>1. \A k \in 1..2 : k = 1 \/ k = 2
        OBVIOUS
      <3> QED
        BY <2>1, <2>3, <3>1 DEF OfKind, IsSeq
    <2>5. Has(w, "sequence_number")
      BY <2>1, <2>3 DEF Has
    <2> QED
      BY <2>2, <2>4, <2>5
  <1>4. /\ Uoid.kind = "flagged"
        /\ \E k \in 1..Len(Uoid.fields) : Uoid.fields[k][2] = "location"
        /\ \A k \in 1..Len(Uoid.fields) : Uoid.fields[k][2] = "location" =>
             Uoid.fields[k][1] = Always /\ Uoid.fields[k][3] = Location
    <2> DEFINE a == <<Always, "location", Location>>
               b == <<"has_load_mask", "load_mask", LoadMask>>
               c == <<Always, "class_index", U16>>
               d == <<Always, "id", U32>>
               e == <<Always, "name", SafeString>>
               f == <<"has_clone_ids", "clone_ids", CloneIds>>
               w == <<a, b, c, d, e, f>>
    <2>1. /\ a[1] = Always /\ a[2] = "location" /\ a[3] = Location
          /\ b[2] # "location" /\ c[2] # "location" /\ d[2] # "location"
          /\ e[2] # "location" /\ f[2] # "location"
      OBVIOUS
    <2>2. Uoid.fields = w /\ Uoid.kind = "flagged"
      BY DEF Uoid, Flagged
    <2> HIDE DEF a, b, c, d, e, f
    <2>3. Len(w) = 6 /\ w[1] = a /\ 1 \in 1..6
      OBVIOUS
    <2>4. \A k \in 1..6 : w[k] \in {a, b, c, d, e, f}
      OBVIOUS
    <2> HIDE DEF w
    <2> QED
      BY <2>1, <2>2, <2>3, <2>4
  <1> QED
    BY <1>1, <1>2, <1>3, <1>4

LEMMA SpawnPointNumber ==
    ASSUME NEW s, IsStream(s), NEW r, IsEngineMessage(s, LoadAvatarMessage, r),
           r.value.fields.spawn_point.there
    PROVE  \E k \in 1..Len(s) :
             /\ s[k][1] = "sequence"
             /\ s[k][2] = r.value.fields.spawn_point.value.uoid.fields.location.sequence_number
  <1> DEFINE v == ReadLayout(Reader(s), LoadAvatarMessage, 2)
             key == v.value.spawn_point
             uoid == key.value.uoid
             location == uoid.fields.location
             n == Nesting - 4
  <1>1. /\ 1 \in 1..Len(s) /\ s[1][1] = "class" /\ v.error = "none"
        /\ r.value = [class |-> s[1][2], fields |-> v.value]
    BY DEF IsEngineMessage
  <1>2. r.value.fields = v.value
    <2> HIDE DEF v
    <2> QED
      BY <1>1
  <1>3. n \in Nat /\ (((n + 1) + 1) + 1) + 1 = Nesting /\ (n + 1) \in Nat /\ ((n + 1) + 1) \in Nat
        /\ (((n + 1) + 1) + 1) \in Nat
    BY StreamsAssumption DEF StreamsAssumption, MaxRank
  <1>4. Len(s) \in Nat /\ 2 \in Places(s)
    BY <1>1, StreamFacts DEF Places
  <1>5. ReadAt(s, Nesting, Key, key)
    <2>1. IsSeq(LoadAvatarMessage) /\ Fields(LoadAvatarMessage) \subseteq Items
      <3>1. LayoutIn(Classes.Message, "LoadAvatarMessage", UnknownMessage) = LoadAvatarMessage
        BY DEF LayoutIn, Classes
      <3> QED
        BY <3>1, EngineLayouts DEF Items
    <2>2. v = ReadLayout(Readers(s)[Nesting], LoadAvatarMessage, 2)
      BY DEF Reader
    <2>3. Nesting \in Nat
      BY StreamsAssumption DEF StreamsAssumption
    <2> HIDE DEF v
    <2>4. ReadAt(s, Nesting, Key, v.value["spawn_point"])
      BY <1>1, <1>4, <2>1, <2>2, <2>3, SpawnPointItem, LayoutField DEF OfKind, Has
    <2> QED
      BY <2>4
  <1>6. Key \in Items
    <2>1. IsLayout(LoadAvatarMessage, EngineItems)
      <3>1. LoadAvatarMessage = Classes["Message"]["LoadAvatarMessage"] /\ "Message" \in DOMAIN Classes
            /\ "LoadAvatarMessage" \in DOMAIN Classes["Message"]
        BY DEF Classes
      <3> QED
        BY <3>1, ItemsAssumption DEF ItemsAssumption
    <2>2. PICK k \in 1..Len(LoadAvatarMessage) : LoadAvatarMessage[k][1] = "spawn_point"
      BY SpawnPointItem DEF Has
    <2>3. LoadAvatarMessage[k][2] = Key
      BY <2>2, SpawnPointItem DEF OfKind
    <2>4. LoadAvatarMessage[k] \in STRING \X EngineItems
      BY <2>1, <2>2 DEF IsLayout
    <2> QED
      BY <2>3, <2>4 DEF Items
  <1>7. Uoid \in Items
    <2>1. PICK k \in 1..Len(Key.yes) : Key.yes[k][1] = "uoid"
      BY LocationItems DEF Has
    <2>2. Key.yes[k][2] = Uoid /\ DOMAIN Key.yes = 1..Len(Key.yes)
      BY <2>1, LocationItems, SeqFacts DEF OfKind
    <2>3. Uoid \in Fields(Key.yes)
      BY <2>1, <2>2 DEF Fields
    <2> QED
      BY <1>6, <2>3, LocationItems, PartsFacts, ItemFacts
  <1>8. Location \in Items
    <2>1. PICK k \in 1..Len(Uoid.fields) : Uoid.fields[k][2] = "location"
      BY LocationItems
    <2>2. Uoid.fields[k][3] = Location
      BY <2>1, LocationItems
    <2> QED
      BY <1>7, <2>1, <2>2, LocationItems, FlaggedParts, ItemFacts
  <1>9. Number("sequence") \in Items
    <2>1. PICK k \in 1..Len(Location.layout) : Location.layout[k][1] = "sequence_number"
      BY LocationItems DEF Has
    <2>2. Location.layout[k][2] = Number("sequence") /\ DOMAIN Location.layout = 1..Len(Location.layout)
      BY <2>1, LocationItems, SeqFacts DEF OfKind
    <2>3. Number("sequence") \in Fields(Location.layout)
      BY <2>1, <2>2 DEF Fields
    <2> QED
      BY <1>8, <2>3, LocationItems, PartsFacts, ItemFacts
  <1>10. key.there = TRUE
    <2>1. key.there
      BY <1>2
    <2> HIDE DEF key
    <2>2. PICK p \in Places(s) : /\ Readers(s)[Nesting][<<Key, p>>].error = "none"
                                 /\ Readers(s)[Nesting][<<Key, p>>].value = key
      BY <1>5 DEF ReadAt
    <2> DEFINE read == Readers(s)[Nesting - 1]
               c == Readers(s)[Nesting][<<Key, p>>]
               there == ReadBool(s, p)
    <2>3. c = ReadItem(read, Key, s, p)
      BY <1>6, ReaderDef
    <2> HIDE DEF c, read
    <2>4. c = ReadChoice(read, Key, s, p)
      BY <2>3, LocationItems, ReadItemOf
    <2>5. IsChoice(read, Key, s, p, c)
      BY <2>2, <2>4, ChoiceDone DEF c
    <2>6. there.error = "none" /\ c.value.there = there.value
      BY <2>5 DEF IsChoice
    <2>7. there.value \in BOOLEAN
      BY <1>4, <2>6, ReadBoolResult
    <2> HIDE DEF there
    <2> QED
      BY <2>1, <2>2, <2>6, <2>7 DEF c
  <1> HIDE DEF key, n
  <1>11. ReadAt(s, ((n + 1) + 1) + 1, Uoid, key.value["uoid"])
    BY <1>3, <1>5, <1>6, <1>10, LocationItems, ChoiceField DEF OfKind, Has
  <1> DEFINE u == key.value["uoid"]
             l == u.fields["location"]
  <1>12. ReadAt(s, (n + 1) + 1, Location, l)
    <2> HIDE DEF u
    <2>1. ReadAt(s, ((n + 1) + 1) + 1, Uoid, u)
      BY <1>11 DEF u
    <2> QED
      BY <1>3, <1>7, <2>1, LocationItems, FlaggedField
  <1> HIDE DEF l
  <1>13. ReadAt(s, n + 1, Number("sequence"), l["sequence_number"])
    BY <1>3, <1>8, <1>12, LocationItems, GroupField DEF OfKind, Has
  <1> DEFINE number == l["sequence_number"]
             item == Number("sequence")
  <1>14. item.kind = "number" /\ item.code = "sequence"
    BY DEF Number
  <1> HIDE DEF item, number
  <1>15. PICK p \in Places(s) : /\ Readers(s)[n + 1][<<item, p>>].error = "none"
                                /\ Readers(s)[n + 1][<<item, p>>].value = number
    BY <1>13 DEF ReadAt, item, number
  <1> DEFINE t == Take("sequence", s, p)
  <1>16. Readers(s)[n + 1][<<item, p>>] = ReadItem(Readers(s)[n], item, s, p) /\ item \in Items
    BY <1>3, <1>9, ReadersDef DEF item
  <1>17. ReadItem(Readers(s)[n], item, s, p) = t
    BY <1>14, ReadItemOf
  <1>18. t.error = "none" /\ t.value = number
    <2> HIDE DEF t
    <2> QED
      BY <1>15, <1>16, <1>17
  <1>19. p \in 1..Len(s) /\ s[p][1] = "sequence" /\ t.value = s[p][2]
    BY <1>4, <1>18, TakeRead
  <1>20. number = r.value.fields.spawn_point.value.uoid.fields.location.sequence_number
    BY <1>2 DEF number, l, key
  <1> HIDE DEF t
  <1> QED
    BY <1>18, <1>19, <1>20

-----------------------------------------------------------------------------
(* What ends a connection.                                                 *)

LEMMA FoundFacts ==
    ASSUME NEW m, GoodStream(m.fields.stream), NEW r, IsWrapped(m, r), NEW n \in Found(r)
    PROVE  /\ FindsPrefix(n) /\ n \in Numbers
           /\ \E k \in Of(m, "sequence") : Token(m, k) = n
  <1> DEFINE d == decompress_data(m.fields.stream)
             s == d.value
  <1>1. PICK l \in SpawnPoints(r) : n = l.sequence_number /\ FindsPrefix(n)
    BY DEF Found
  <1>2. /\ r.error = "none" /\ r.value.class = "LoadAvatarMessage"
        /\ r.value.fields.spawn_point.there
        /\ l = r.value.fields.spawn_point.value.uoid.fields.location
    BY <1>1 DEF SpawnPoints
  <1>3. d.error = "none" /\ IsEngineMessage(s, LoadAvatarMessage, r)
    BY <1>2 DEF IsWrapped
  <1>4. s \in {<<>>, Tokens(m)} /\ IsStream(s)
    <2> HIDE DEF d
    <2> QED
      BY <1>3, Decompressed DEF d, Tokens
  <1> HIDE DEF s
  <1>5. PICK k \in 1..Len(s) : s[k][1] = "sequence" /\ s[k][2] = n
    BY <1>1, <1>2, <1>3, <1>4, SpawnPointNumber
  <1>6. s = Tokens(m)
    BY <1>4, <1>5, Empty
  <1>7. k \in DOMAIN Tokens(m)
    BY <1>4, <1>5, <1>6, StreamFacts
  <1>8. n \in Numbers
    <2>1. n \in Int /\ Locals \in Nat /\ n >= Locals /\ n < (Safe + 1) * Pages
      BY <1>1, NumberingAssumption DEF FindsPrefix, NumberingAssumption
    <2>2. (Safe + 1) * Pages <= Prefixes * Pages
      BY NumberingAssumption DEF NumberingAssumption
    <2>3. Prefixes * Pages \in Int /\ (Safe + 1) * Pages \in Int
      BY NumberingAssumption DEF NumberingAssumption
    <2> QED
      BY <2>1, <2>2, <2>3 DEF Numbers
  <1> QED
    BY <1>1, <1>5, <1>6, <1>7, <1>8 DEF Of, Token

LEMMA FailsFacts ==
    ASSUME NEW m, m.class \in GameMessages, IsMessage(m),
           config.parse = "known" \/ m.class = "NetMessageLoadClone",
           NEW r, IsWrapped(m, r), r.error \notin {"none", "Misread"} \cup Caught
    PROVE  Culprit(m) /\ r.error \in Errors
  <1> DEFINE d == decompress_data(m.fields.stream)
             s == d.value
  <1>1. "stream" \in DOMAIN m.fields /\ GoodStream(m.fields.stream)
    BY DEF IsMessage, Streamed
  <1>2. /\ r.error \in {"none", d.error} \cup (IF d.error = "none" THEN ContentErrors(s) ELSE {})
        /\ d.error \in {"none", "ValueError", "zlib.error"}
        /\ d.error = "none" => s \in {<<>>, Tokens(m)} /\ IsStream(s)
    BY <1>1, Decompressed DEF IsWrapped, Tokens
  <1> HIDE DEF s
  <1>3. CASE d.error = "zlib.error"
    <2>1. r.error = "zlib.error"
      BY <1>2, <1>3
    <2> QED
      BY <1>1, <1>3, <2>1 DEF Culprit, Errors
  <1>4. CASE d.error = "none"
    <2>1. r.error \in ContentErrors(s)
      BY <1>2, <1>4
    <2>2. r.error \in {"AttributeError", "NotImplementedError", "RecursionError"}
      BY <2>1 DEF ContentErrors, EngineErrors, Basic, Caught
    <2>3. DOMAIN s = 1..Len(s) /\ IsStream(s)
      BY <1>2, <1>4, StreamFacts
    <2>4. CASE r.error \in {"AttributeError", "NotImplementedError"}
      <3>1. PICK k \in 1..Len(s) :
              s[k][1] = "event" /\ (s[k][2] = "OfferLinkingBookEvent"
                                      \/ s[k][2] \notin DOMAIN Classes.NotifyEvent)
        BY <2>1, <2>4 DEF ContentErrors, EngineErrors, Basic
      <3>2. s = Tokens(m)
        BY <1>2, <1>4, <3>1, Empty
      <3>3. k \in Of(m, "event")
                /\ Token(m, k) \notin DOMAIN Classes.NotifyEvent \ {"OfferLinkingBookEvent"}
        BY <2>3, <3>1, <3>2 DEF Of, Token
      <3> QED
        BY <2>2, <3>3 DEF Culprit, Errors
    <2>5. CASE r.error = "RecursionError"
      <3>1. Nesting < MaxRank * Cardinality(ClassPlaces(s, 1))
        BY <2>1, <2>5 DEF ContentErrors, EngineErrors, Basic
      <3>2. 1 \in Places(s)
        BY <2>3, StreamFacts DEF Places
      <3>3. Cardinality(ClassPlaces(s, 1)) \in Nat
        BY <2>3, <3>2, ClassPlacesFacts
      <3>4. s = Tokens(m)
        <4>1. CASE s = <<>>
          <5>1. ClassPlaces(s, 1) = {}
            BY <4>1, Empty DEF ClassPlaces
          <5>2. Cardinality(ClassPlaces(s, 1)) = 0
            BY <5>1, FS_EmptySet
          <5> QED
            BY <3>1, <5>2, StreamsAssumption DEF StreamsAssumption, MaxRank
        <4> QED
          BY <4>1, <1>2, <1>4
      <3>5. ClassPlaces(s, 1) = Of(m, "class")
        BY <2>3, <3>4 DEF ClassPlaces, Of
      <3>6. Cardinality(Of(m, "class")) * MaxRank > Nesting
        BY <3>1, <3>3, <3>5, StreamsAssumption DEF StreamsAssumption, MaxRank
      <3> QED
        BY <2>2, <3>6 DEF Culprit, Errors
    <2> QED
      BY <2>2, <2>4, <2>5
  <1>5. CASE d.error = "ValueError"
    BY <1>2, <1>5 DEF Caught
  <1> QED
    BY <1>2, <1>3, <1>4, <1>5

LEMMA InspectedFacts ==
    ASSUME NEW m, m.class \in GameMessages, IsMessage(m),
           config.parse = "known" \/ m.class = "NetMessageLoadClone",
           NEW r, IsWrapped(m, r), r.error # "Misread", InspectedAs(m, r).error # "none"
    PROVE  Culprit(m) /\ InspectedAs(m, r).error \in Errors
  <1> DEFINE found == IF m.class = "NetMessageLoadClone" THEN Found(r) ELSE {}
             e == InspectedAs(m, r).error
  <1>1. e = IF \E n \in found : HookFails(n) THEN "ValueError"
            ELSE IF r.error \in Caught THEN "none" ELSE r.error
    BY DEF InspectedAs, InspectionOf
  <1>2. CASE \E n \in found : HookFails(n)
    <2>1. PICK n \in Found(r) : HookFails(n)
      BY <1>2
    <2>2. GoodStream(m.fields.stream)
      BY DEF IsMessage, Streamed
    <2>3. FindsPrefix(n) /\ n \in Numbers /\ \E k \in Of(m, "sequence") : Token(m, k) = n
      BY <2>1, <2>2, FoundFacts
    <2>4. e = "ValueError"
      BY <1>1, <1>2
    <2>5. Culprit(m)
      BY <2>1, <2>3 DEF Culprit
    <2> QED
      BY <2>4, <2>5 DEF Errors
  <1>3. CASE ~\E n \in found : HookFails(n)
    <2>1. e = r.error /\ r.error \notin {"none", "Misread"} \cup Caught
      BY <1>1, <1>3
    <2> HIDE DEF e
    <2>2. Culprit(m) /\ r.error \in Errors
      BY <2>1, FailsFacts
    <2> QED
      BY <2>1, <2>2 DEF e
  <1> QED
    BY <1>2, <1>3

LEMMA InspectFacts ==
    ASSUME NEW m, m.class \in GameMessages, IsMessage(m), Fits(m), Inspect(m).error # "none"
    PROVE  Culprit(m) /\ Inspect(m).error \in Errors
  <1>1. GoodStream(m.fields.stream)
    BY DEF IsMessage, Streamed
  <1>2. IsWrapped(m, ReadWrapped(m)) /\ IsWrapped(m, ReadPlayer(m))
    BY <1>1, WrappedFacts, PlayerFacts
  <1>3. ReadWrapped(m).error # "Misread" /\ ReadPlayer(m).error # "Misread"
    BY DEF Fits
  <1>4. CASE config.parse = "known"
    <2>1. Inspect(m) = InspectedAs(m, ReadWrapped(m))
      BY <1>4 DEF Inspect
    <2> QED
      BY <1>2, <1>3, <1>4, <2>1, InspectedFacts
  <1>5. CASE config.parse # "known" /\ m.class = "NetMessageLoadClone" /\ m.fields.is_player /\ hook = <<>>
    <2>1. Inspect(m) = InspectedAs(m, ReadPlayer(m))
      BY <1>5 DEF Inspect
    <2> QED
      BY <1>2, <1>3, <1>5, <2>1, InspectedFacts
  <1>6. CASE config.parse # "known"
             /\ ~(m.class = "NetMessageLoadClone" /\ m.fields.is_player /\ hook = <<>>)
    <2> DEFINE e == [error |-> "none", found |-> {}]
    <2>1. Inspect(m) = e /\ e.error = "none"
      BY <1>6 DEF Inspect
    <2> HIDE DEF e
    <2> QED
      BY <2>1
  <1> QED
    BY <1>4, <1>5, <1>6

\* How a handler ends.
Outcome(m) ==
    /\ \/ stage' = "answered" /\ ended' = ended
       \/ stage' = "closed" /\ ended' \in Errors \ {"none"} /\ Culprit(m)
    /\ Len(replies') <= 1

IsExcused(error, m) == error = "none" \/ (error \in Errors \ {"none"} /\ Culprit(m))

LEMMA HandlesOutcome ==
    ASSUME NEW m, NEW error, NEW sent, Handles(error, sent), IsExcused(error, m), Len(sent) <= 1
    PROVE  Outcome(m)
  BY DEF Handles, Goes, End, Outcome, IsExcused

LEMMA WrittenFacts ==
    ASSUME NEW m, IsMessage(m), ~Wrote(Written(m.class, m.header, m.wire))
    PROVE  Late(m)
  <1> SUFFICES ASSUME ~Late(m) PROVE FALSE
    OBVIOUS
  <1> DEFINE a == << <<"class", m.class>> >>
             b == WriteHeader(Stamped(m.header))
             w == a \o b \o m.wire
  <1>1. Writes(m.wire, Failures) /\ Writes(b, Failures)
    BY DEF IsMessage
  <1>2. Writes(a, Failures)
    <2>1. "class" \notin Failures
      BY DEF Failures
    <2> QED
      BY <2>1, SingleWritten
  <1> HIDE DEF a, b
  <1>3. Writes(w, Failures)
    BY <1>1, <1>2, WrittenTwice
  <1>4. Written(m.class, m.header, m.wire) = w
    BY DEF Written, a, b
  <1> HIDE DEF w
  <1>5. Wrote(w)
    BY <1>3, SeqFacts DEF Writes, Wrote
  <1> QED
    BY <1>4, <1>5

LEMMA EchoOutcome ==
    ASSUME NEW m, IsMessage(m), NEW error, IsExcused(error, m), Echo(m, error)
    PROVE  Outcome(m)
  <1>1. Len(<<>>) <= 1 /\ \A x : Len(<<x>>) <= 1
    BY Empty, Single
  <1>2. CASE ~Echoes(m) /\ Handles(error, <<>>)
    BY <1>1, <1>2, HandlesOutcome
  <1>3. ASSUME NEW tokens, tokens = Written(m.class, m.header, m.wire), Echoes(m),
               Handles(error, <<Reply(tokens)>>)
        PROVE  Outcome(m)
    BY <1>1, <1>3, HandlesOutcome
  <1>4. ASSUME NEW tokens, tokens = Written(m.class, m.header, m.wire), Echoes(m),
               ~Wrote(tokens), Handles("struct.error", <<>>)
        PROVE  Outcome(m)
    <2>1. Late(m)
      BY <1>4, WrittenFacts
    <2>2. IsExcused("struct.error", m)
      BY <1>4, <2>1 DEF IsExcused, Errors, Culprit, Late
    <2> QED
      BY <1>1, <1>4, <2>2, HandlesOutcome
  <1> QED
    BY <1>2, <1>3, <1>4 DEF Echo

LEMMA NoExcuse ==
    ASSUME NEW m
    PROVE  IsExcused("none", m)
  BY DEF IsExcused

LEMMA StreamExcused ==
    ASSUME NEW m, m.class \in Streamed \ GameMessages, IsMessage(m)
    PROVE  IsExcused(decompress_data(m.fields.stream).error, m)
  <1>1. "stream" \in DOMAIN m.fields /\ GoodStream(m.fields.stream)
    BY DEF IsMessage
  <1>2. decompress_data(m.fields.stream).error \in {"none", "ValueError", "zlib.error"}
    BY <1>1, Decompressed
  <1> QED
    BY <1>1, <1>2 DEF IsExcused, Culprit, Errors

LEMMA HandleOutcome ==
    ASSUME NEW m, IsMessage(m), Fits(m), Handle(m)
    PROVE  Outcome(m)
  <1>1. Len(<<>>) <= 1 /\ \A x : Len(<<x>>) <= 1
    BY Empty, Single
  <1>2. CASE m.class \in GameMessages /\ HandleGameMessage(m)
    <2>1. \/ Inspect(m).error # "none" /\ Handles(Inspect(m).error, <<>>)
          \/ Echo(m, "none")
      BY <1>2 DEF HandleGameMessage
    <2>2. CASE Inspect(m).error # "none" /\ Handles(Inspect(m).error, <<>>)
      <3>1. IsExcused(Inspect(m).error, m)
        BY <1>2, <2>2, InspectFacts DEF IsExcused
      <3> QED
        BY <1>1, <2>2, <3>1, HandlesOutcome
    <2> QED
      BY <2>1, <2>2, NoExcuse, EchoOutcome
  <1>3. CASE m.class \in SDLStates /\ HandleSDLState(m)
    <2>1. m.class \in Streamed \ GameMessages
      BY <1>3 DEF SDLStates, Streamed, GameMessages
    <2> QED
      BY <1>3, <2>1, StreamExcused, EchoOutcome DEF HandleSDLState
  <1>4. CASE m.class = "NetMessageTestAndSet" /\ HandleTestAndSet(m)
    <2>1. m.class \in Streamed \ GameMessages
      BY <1>4 DEF SDLStates, Streamed, GameMessages
    <2> DEFINE error == decompress_data(m.fields.stream).error
    <2>2. IsExcused(error, m)
      BY <2>1, StreamExcused
    <2>3. \/ Handles(error, <<>>)
          \/ \E x : Handles("none", <<x>>)
      BY <1>4 DEF HandleTestAndSet
    <2> HIDE DEF error
    <2> QED
      BY <1>1, <2>2, <2>3, NoExcuse, HandlesOutcome
  <1>5. CASE m.class = "NetMessageVoice" /\ Echo(m, "none")
    BY <1>5, NoExcuse, EchoOutcome
  <1>6. CASE HandleMembersListRequest
    BY <1>1, <1>6, NoExcuse, HandlesOutcome DEF HandleMembersListRequest
  <1>7. CASE m.class \in ServerToClient /\ Handles("ProtocolError", <<>>)
    <2>1. IsExcused("ProtocolError", m)
      BY <1>7 DEF IsExcused, Culprit, Errors
    <2> QED
      BY <1>1, <1>7, <2>1, HandlesOutcome
  <1>8. CASE Handles("none", <<>>)
    BY <1>1, <1>8, NoExcuse, HandlesOutcome
  <1> QED
    BY <1>2, <1>3, <1>4, <1>5, <1>6, <1>7, <1>8 DEF Handle

\* Between messages there is none.
WireInv ==
    /\ TypeOK /\ OnlyCulpritsEndIt
    /\ config \in Configs /\ client \in Clients
    /\ message # <<>> => stage \in {"answered", "closed"}

LEMMA BufferRead ==
    ASSUME NEW buffer \in Sent
    PROVE  LET r == ReadBuffer(buffer)
           IN  /\ r.error \in Errors
               /\ r.error = "none" => IsMessage(r.value) /\ Fits(r.value)
  <1> DEFINE s == buffer.tokens
             r == ReadBuffer(buffer)
  <1>1. /\ IsStream(s) /\ r.error # "Misread" /\ (r.error = "none" => Fits(r.value))
        /\ \A k \in DOMAIN s : s[k][1] = "data" =>
             s[k][2].packing \in Packings /\ IsStream(s[k][2].content)
    BY BuffersAssumption DEF BuffersAssumption
  <1>2. /\ r.error \in Basic \cup {"none", "ProtocolError"}
        /\ r.error = "none" =>
             /\ r.value = MessageOf(s) /\ 2 \in Places(s)
             /\ HeaderOf(s).error = "none" /\ AllOf(s).error = "none"
    BY <1>1, BufferErrors
  <1> HIDE DEF s, r
  <1>3. r.error \in Errors
    BY <1>1, <1>2 DEF Basic, Errors
  <1>4. r.error = "none" => IsMessage(r.value)
    BY <1>1, <1>2, MessageFacts DEF WasRead, GoodData
  <1> QED
    BY <1>1, <1>3, <1>4 DEF r

LEMMA AgreeFacts ==
    ASSUME client \in Clients
    PROVE  /\ Agree.error \in {"none", "ProtocolError"}
           /\ Agree.on \in BOOLEAN /\ (Agree.on => HasKeys /\ client # "plain")
  <1> DEFINE a == [error |-> IF config.encryption = "force" THEN "ProtocolError" ELSE "none",
                   on |-> FALSE]
             b == [error |-> "none", on |-> FALSE]
             c == [error |-> IF client = "short" THEN "ProtocolError" ELSE "none",
                   on |-> client # "short"]
  <1>1. Agree = IF client = "plain" THEN a ELSE IF ~HasKeys THEN b ELSE c
    BY DEF Agree
  <1>2. /\ a.error \in {"none", "ProtocolError"} /\ a.on = FALSE
        /\ b.error = "none" /\ b.on = FALSE
        /\ c.error \in {"none", "ProtocolError"} /\ c.on \in BOOLEAN
    OBVIOUS
  <1> HIDE DEF a, b, c
  <1> QED
    BY <1>1, <1>2

LEMMA WireInit == Init => WireInv
  <1> SUFFICES ASSUME Init PROVE WireInv
    OBVIOUS
  <1>1. /\ config \in Configs /\ client \in Clients /\ stage = "type" /\ ended = "none"
        /\ cipher = FALSE /\ message = <<>> /\ replies = <<>>
    BY DEF Init
  <1>2. Len(message) = 0 /\ Len(replies) = 0
    BY <1>1, Empty
  <1>3. TypeOK
    <2> HIDE DEF Init
    <2>1. cipher \in BOOLEAN /\ ~cipher
      BY <1>1
    <2> QED
      BY <1>1, <1>2, <2>1 DEF TypeOK, Errors
  <1>4. OnlyCulpritsEndIt
    BY <1>1 DEF OnlyCulpritsEndIt
  <1> QED
    BY <1>1, <1>3, <1>4 DEF WireInv

\* A step that reads no message.
Quiet ==
    /\ UNCHANGED <<config, client, cipher>> /\ message' = <<>> /\ Len(replies') <= 1
    /\ \/ stage' \in {"header", "data", "setup", "messages", "answered"} /\ ended' = ended
       \/ stage' = "closed" /\ ended' \in Errors \ {"none"}
    /\ stage # "closed"

LEMMA QuietStep ==
    ASSUME WireInv, Quiet
    PROVE  WireInv'
  <1>1. TypeOK'
    BY Empty DEF TypeOK, HasKeys, WireInv, Quiet
  <1>2. OnlyCulpritsEndIt'
    BY DEF OnlyCulpritsEndIt, Quiet
  <1> QED
    BY <1>1, <1>2 DEF WireInv, Quiet

LEMMA WireStep == WireInv /\ [Next]_vars => WireInv'
  <1> SUFFICES ASSUME WireInv, [Next]_vars PROVE WireInv'
    OBVIOUS
  <1>1. CASE UNCHANGED vars
    BY <1>1 DEF vars, WireInv, TypeOK, OnlyCulpritsEndIt, Culprit, HasKeys, Echoes, Of, Token,
       Tokens
  <1>2. /\ stage \notin {"answered", "closed"} => message = <<>>
        /\ Len(replies) <= 1
    BY DEF WireInv, TypeOK
  <1>3. /\ {"ProtocolError", "ValueError", "IncompleteReadError"} \subseteq Errors \ {"none"}
        /\ Len(<<>>) <= 1 /\ \A x : Len(<<x>>) <= 1
    BY Empty, Single DEF Errors
  <1>4. CASE ConnectionType
    <2>1. Quiet
      BY <1>2, <1>3, <1>4 DEF ConnectionType, Goes, End, Quiet
    <2> QED
      BY <2>1, QuietStep
  <1>5. CASE read_connect_packet_header
    <2>1. Quiet
      BY <1>2, <1>3, <1>5 DEF read_connect_packet_header, Goes, End, Quiet
    <2> QED
      BY <2>1, QuietStep
  <1>6. CASE read_connect_packet_data
    <2>1. Quiet
      BY <1>2, <1>3, <1>6 DEF read_connect_packet_data, Goes, End, Quiet
    <2> QED
      BY <2>1, QuietStep
  <1>7. CASE NotSetup
    <2>1. Quiet
      BY <1>2, <1>3, <1>7 DEF NotSetup, End, Quiet
    <2> QED
      BY <2>1, QuietStep
  <1>8. CASE setup_encryption
    <2>1. /\ Agree.error \in {"none", "ProtocolError"}
          /\ Agree.on \in BOOLEAN /\ (Agree.on => HasKeys)
      BY AgreeFacts DEF WireInv
    <2>2. /\ UNCHANGED <<config, client, hook, message, replies>> /\ cipher' = Agree.on
          /\ stage = "setup" /\ Goes("messages", Agree.error)
      BY <1>8 DEF setup_encryption
    <2>3. \/ stage' = "messages" /\ ended' = ended
          \/ stage' = "closed" /\ ended' = "ProtocolError"
      BY <2>1, <2>2 DEF Goes, End
    <2>4. message' = <<>>
      BY <1>2, <2>2
    <2>5. TypeOK'
      BY <2>1, <2>2, <2>3, <1>3 DEF WireInv, TypeOK, HasKeys
    <2>6. OnlyCulpritsEndIt'
      BY <2>4 DEF OnlyCulpritsEndIt
    <2> QED
      BY <2>2, <2>4, <2>5, <2>6 DEF WireInv
  <1>9. ASSUME NEW buffer \in Buffers(config, client), receive_propagate_buffer(buffer)
        PROVE  WireInv'
    <2> DEFINE r == ReadBuffer(buffer)
               m == r.value
    <2>1. buffer \in Sent
      BY DEF Sent, WireInv
    <2>2. r.error \in Errors /\ (r.error = "none" => IsMessage(m) /\ Fits(m))
      BY <2>1, BufferRead
    <2>3. /\ UNCHANGED <<config, client, cipher>> /\ stage = "messages"
          /\ \/ r.error # "none" /\ End(r.error) /\ UNCHANGED <<hook, message, replies>>
             \/ r.error = "none" /\ message' = <<m>> /\ Handle(m)
      BY <1>9 DEF receive_propagate_buffer
    <2> HIDE DEF r
    <2>4. CASE r.error # "none"
      <3>1. Quiet
        BY <1>2, <1>3, <2>2, <2>3, <2>4 DEF End, Quiet
      <3> QED
        BY <3>1, QuietStep
    <2>5. CASE r.error = "none"
      <3>1. Outcome(m) /\ message' = <<m>>
        BY <2>2, <2>3, <2>5, HandleOutcome
      <3>2. TypeOK'
        BY <1>3, <2>3, <3>1 DEF WireInv, TypeOK, HasKeys, Outcome
      <3>3. OnlyCulpritsEndIt'
        <4> SUFFICES ASSUME stage' = "closed" PROVE Culprit(message[1])'
          BY DEF OnlyCulpritsEndIt
        <4>1. Culprit(m)
          BY <3>1 DEF Outcome
        <4>2. message'[1] = m
          BY <3>1, Single
        <4> QED
          BY <2>3, <4>1, <4>2 DEF Culprit, Echoes, Of, Token, Tokens
      <3>4. stage' \in {"answered", "closed"}
        BY <3>1 DEF Outcome
      <3> QED
        BY <2>3, <3>2, <3>3, <3>4 DEF WireInv
    <2> QED
      BY <2>4, <2>5
  <1>10. CASE Next_message
    <2>1. Quiet
      BY <1>3, <1>10 DEF Next_message, Quiet
    <2> QED
      BY <2>1, QuietStep
  <1>11. CASE ping_request
    <2>1. Quiet
      BY <1>2, <1>3, <1>11 DEF ping_request, Handles, Goes, Quiet
    <2> QED
      BY <2>1, QuietStep
  <1>12. CASE handle_unknown_message
    <2>1. Quiet
      BY <1>2, <1>3, <1>12 DEF handle_unknown_message, End, Quiet
    <2> QED
      BY <2>1, QuietStep
  <1>13. CASE Gone
    <2>1. Quiet
      BY <1>2, <1>3, <1>13 DEF Gone, End, Quiet
    <2> QED
      BY <2>1, QuietStep
  <1> QED
    BY <1>1, <1>4, <1>5, <1>6, <1>7, <1>8, <1>9, <1>10, <1>11, <1>12, <1>13 DEF Next

\* Everything is of its type, there is no cipher without keys, and whatever ends a
\* connection is one of the exceptions that are expected: no reader is out of step
\* with what the layout of a message says.  (client_connected)
THEOREM WireTypes == Spec => []TypeOK
  <1>1. Init => WireInv
    BY WireInit
  <1>2. WireInv /\ [Next]_vars => WireInv'
    BY WireStep
  <1>3. WireInv => TypeOK
    BY DEF WireInv
  <1> QED
    BY <1>1, <1>2, <1>3, PTL DEF Spec

\* Once a message was read, nothing but a culprit in it ends the connection, whatever
\* is sent and however it is nested.  (NetMessageGameMessage.inspect_wrapped_message
\* and the handlers)
THEOREM OnlyCulpritsEndConnections == Spec => []OnlyCulpritsEndIt
  <1>1. Init => WireInv
    BY WireInit
  <1>2. WireInv /\ [Next]_vars => WireInv'
    BY WireStep
  <1>3. WireInv => OnlyCulpritsEndIt
    BY DEF WireInv
  <1> QED
    BY <1>1, <1>2, <1>3, PTL DEF Spec

-----------------------------------------------------------------------------
(* Reading what was written.                                               *)

\* The tokens are in the stream at that place.
Holds(t, j, w) ==
    /\ IsSeq(w) /\ j + Len(w) <= Len(t) + 1
    /\ \A k \in 1..Len(w) : t[j + k - 1] = w[k]

LEMMA HoldsTwice ==
    ASSUME NEW t, Len(t) \in Nat, NEW j \in Places(t), NEW u, NEW v, IsSeq(u), IsSeq(v),
           Holds(t, j, u \o v)
    PROVE  /\ Holds(t, j, u) /\ j + Len(u) \in Places(t)
           /\ Holds(t, j + Len(u), v) /\ Len(u \o v) = Len(u) + Len(v)
  <1>1. /\ Len(u \o v) = Len(u) + Len(v) /\ Len(u) \in Nat /\ Len(v) \in Nat /\ j \in Nat
        /\ \A k \in 1..Len(u) : (u \o v)[k] = u[k]
        /\ \A k \in 1..Len(v) : (u \o v)[Len(u) + k] = v[k]
    BY Concat, SeqFacts DEF Places
  <1> DEFINE w == u \o v
             a == Len(u)
             b == Len(v)
  <1>2. /\ j + Len(w) <= Len(t) + 1 /\ \A k \in 1..Len(w) : t[j + k - 1] = w[k]
    BY DEF Holds
  <1> HIDE DEF w, a, b
  <1>3. Len(w) = a + b /\ a \in Nat /\ b \in Nat
    BY <1>1 DEF w, a, b
  <1>4. ASSUME NEW k \in 1..a PROVE t[j + k - 1] = u[k]
    <2>1. k \in 1..Len(w)
      BY <1>3
    <2>2. w[k] = u[k]
      BY <1>1, <1>4 DEF w, a
    <2> QED
      BY <1>2, <2>1, <2>2
  <1>5. ASSUME NEW k \in 1..b PROVE t[(j + a) + k - 1] = v[k]
    <2>1. a + k \in 1..Len(w) /\ j + (a + k) - 1 = (j + a) + k - 1
      BY <1>1, <1>3
    <2>2. w[a + k] = v[k]
      BY <1>1, <1>5 DEF w, a, b
    <2> QED
      BY <1>2, <2>1, <2>2
  <1>6. j + a <= Len(t) + 1 /\ (j + a) + b <= Len(t) + 1 /\ j + a \in Places(t)
    BY <1>1, <1>2, <1>3 DEF Places
  <1> QED
    BY <1>1, <1>4, <1>5, <1>6 DEF Holds, a, b

\* A reader gets the value back from what was written of it.
Back(t, read, item, value, wire) ==
    \A p \in Places(t) :
      Holds(t, p, wire) => read[<<item, p>>] = Got(value, wire, p + Len(wire))

LEMMA TakeBack ==
    ASSUME NEW t, Len(t) \in Nat, NEW p \in Places(t), NEW code, NEW v,
           Holds(t, p, << <<code, v>> >>)
    PROVE  Take(code, t, p) = Got(v, << <<code, v>> >>, p + 1) /\ p + 1 \in Places(t)
  <1> DEFINE token == <<code, v>>
  <1>1. token[1] = code /\ token[2] = v
    OBVIOUS
  <1> HIDE DEF token
  <1>2. Len(<<token>>) = 1 /\ <<token>>[1] = token
    BY Single
  <1>3. p + 1 <= Len(t) + 1 /\ t[p] = token
    <2>1. Holds(t, p, <<token>>)
      BY DEF token
    <2>2. 1 \in 1..Len(<<token>>) /\ p + 1 - 1 = p
      BY <1>2 DEF Places
    <2> QED
      BY <1>2, <2>1, <2>2 DEF Holds
  <1>4. ~(p > Len(t)) /\ p + 1 \in Places(t)
    BY <1>3 DEF Places
  <1>5. Take(code, t, p) = Got(t[p][2], << <<code, t[p][2]>> >>, p + 1)
    BY <1>1, <1>3, <1>4 DEF Take
  <1> QED
    BY <1>1, <1>3, <1>4, <1>5

-----------------------------------------------------------------------------
(* One after another.                                                      *)

\* What is written of the first, of the first two and so on.
Joins(f, results, n) ==
    f[0] = <<>> /\ \A k \in 1..n : IsSeq(results[k].wire) /\ f[k] = f[k - 1] \o results[k].wire

LEMMA JoinsSeq ==
    ASSUME NEW f, NEW results, NEW n \in Nat, Joins(f, results, n)
    PROVE  \A k \in 0..n : IsSeq(f[k])
  <1> DEFINE S == {k \in Nat : k \in 0..n => IsSeq(f[k])}
  <1>1. 0 \in S
    BY Empty DEF Joins
  <1>2. ASSUME NEW k \in Nat, k \in S PROVE k + 1 \in S
    <2> SUFFICES ASSUME k + 1 \in 0..n PROVE IsSeq(f[k + 1])
      OBVIOUS
    <2>1. k + 1 \in 1..n /\ (k + 1) - 1 = k /\ k \in 0..n
      OBVIOUS
    <2>2. IsSeq(f[k]) /\ IsSeq(results[k + 1].wire) /\ f[k + 1] = f[k] \o results[k + 1].wire
      BY <1>2, <2>1 DEF Joins
    <2> QED
      BY <2>2, Concat
  <1> HIDE DEF S
  <1>3. Nat \subseteq S
    BY <1>1, <1>2, Induction
  <1> QED
    BY <1>3 DEF S

\* What ReadAll has read is what it writes.
LEMMA ReadAllJoins ==
    ASSUME NEW read, NEW items, Len(items) \in Nat, NEW i, NEW all, all = ReadAll(read, items, i),
           all.error = "none",
           \A r : r \in {all.value[k] : k \in 1..Len(items)} => IsSeq(r.wire)
    PROVE  \E f : Joins(f, all.value, Len(items)) /\ f[Len(items)] = all.wire
  <1> DEFINE first == First(read, items, i)
             f == [k \in Nat |-> first[k].wire]
             Good(n) == /\ IsSeq(first[n].value) /\ Len(first[n].value) = n
                        /\ \A k \in 1..n :
                             first[k].wire = first[k - 1].wire \o first[n].value[k].wire
             S == {n \in Nat : first[n].error = "none" => Good(n)}
  <1>1. first[0] = Got(<<>>, <<>>, i)
        /\ \A k \in Nat : first[k + 1] = Step(read, items, first[k], k + 1)
    BY FirstDef
  <1>2. first[0].error = "none" /\ first[0].value = <<>> /\ first[0].wire = <<>>
    <2> HIDE DEF first
    <2> QED
      BY <1>1, GotFacts
  <1> HIDE DEF first
  <1>3. 0 \in S
    <2>1. IsSeq(first[0].value) /\ Len(first[0].value) = 0
      BY <1>2, Empty
    <2>2. Good(0)
      BY <2>1
    <2> HIDE DEF Good
    <2> QED
      BY <2>2
  <1>4. ASSUME NEW n \in Nat, n \in S PROVE n + 1 \in S
    <2> SUFFICES ASSUME first[n + 1].error = "none" PROVE Good(n + 1)
      <3> HIDE DEF Good
      <3> QED
        OBVIOUS
    <2> DEFINE done == first[n]
               r == read[<<items[n + 1], done.next>>]
               more == Append(done.value, r)
               wire == done.wire \o r.wire
               got == Got(more, wire, r.next)
    <2>1. first[n + 1] = IF done.error # "none" THEN done ELSE IF r.error # "none" THEN r ELSE got
      BY <1>1 DEF Step
    <2> HIDE DEF r, got
    <2>2. done.error = "none" /\ first[n + 1] = got
      BY <2>1
    <2>3. first[n + 1].value = more /\ first[n + 1].wire = wire
      <3> HIDE DEF done, S, Good, more, wire
      <3> QED
        BY <2>2, GotFacts DEF got
    <2>4. /\ IsSeq(done.value) /\ Len(done.value) = n
          /\ \A k \in 1..n : first[k].wire = first[k - 1].wire \o done.value[k].wire
      <3>1. Good(n)
        <4> HIDE DEF Good
        <4> QED
          BY <1>4, <2>2
      <3> QED
        BY <3>1
    <2>5. /\ IsSeq(more) /\ Len(more) = n + 1 /\ more[n + 1] = r
          /\ \A k \in 1..n : more[k] = done.value[k]
      BY <2>4, Appended
    <2> HIDE DEF more
    <2>6. first[n + 1].value = more
      BY <2>3 DEF more
    <2>7. ASSUME NEW k \in 1..(n + 1)
          PROVE  first[k].wire = first[k - 1].wire \o more[k].wire
      <3>1. CASE k \in 1..n
        BY <2>4, <2>5, <3>1
      <3>2. CASE k = n + 1
        <4>1. k - 1 = n /\ more[k] = r
          BY <2>5, <3>2
        <4>2. first[k].wire = done.wire \o r.wire
          BY <2>3, <3>2
        <4> QED
          BY <4>1, <4>2
      <3>3. k \in 1..n \/ k = n + 1
        OBVIOUS
      <3> QED
        BY <3>1, <3>2, <3>3
    <2> QED
      BY <2>5, <2>6, <2>7
  <1> HIDE DEF S
  <1>5. Nat \subseteq S
    BY <1>3, <1>4, Induction
  <1>6. all = first[Len(items)]
    BY FirstIs DEF first
  <1>7. \A k \in 1..Len(items) : first[k].wire = first[k - 1].wire \o all.value[k].wire
    <2>1. Good(Len(items))
      <3> HIDE DEF Good
      <3> QED
        BY <1>5, <1>6 DEF S
    <2> QED
      BY <1>6, <2>1
  <1>8. f[Len(items)] = all.wire /\ f[0] = <<>>
    BY <1>2, <1>6
  <1>9. ASSUME NEW k \in 1..Len(items) PROVE f[k] = f[k - 1] \o all.value[k].wire
    <2>1. k \in Nat /\ k - 1 \in Nat
      OBVIOUS
    <2>2. f[k] = first[k].wire /\ f[k - 1] = first[k - 1].wire
      BY <2>1
    <2> HIDE DEF f
    <2> QED
      BY <1>7, <2>2
  <1> HIDE DEF f
  <1>10. Joins(f, all.value, Len(items))
    BY <1>8, <1>9 DEF Joins
  <1> QED
    BY <1>8, <1>10

\* The same values and what is written of them, at other places.
Same(u, v, n) ==
    /\ IsSeq(u) /\ Len(u) = n
    /\ \A k \in 1..n : u[k].value = v[k].value /\ u[k].wire = v[k].wire

ReadBack(t, j, results, f, n, done) ==
    /\ done.error = "none" /\ Same(done.value, results, n)
    /\ done.wire = f[n] /\ done.next = j + Len(f[n])

LEMMA StepBack ==
    ASSUME NEW t, Len(t) \in Nat, NEW j \in Places(t), NEW read, NEW items, NEW results, NEW f,
           NEW n \in Nat, IsSeq(f[n]), IsSeq(results[n + 1].wire),
           f[n + 1] = f[n] \o results[n + 1].wire, Holds(t, j, f[n + 1]),
           Back(t, read, items[n + 1], results[n + 1].value, results[n + 1].wire),
           NEW done, ReadBack(t, j, results, f, n, done)
    PROVE  ReadBack(t, j, results, f, n + 1, Step(read, items, done, n + 1))
  <1> DEFINE value == results[n + 1].value
             wire == results[n + 1].wire
             p == j + Len(f[n])
             item == items[n + 1]
             r == read[<<item, done.next>>]
             more == Append(done.value, r)
             whole == done.wire \o r.wire
             got == Got(more, whole, r.next)
             next == Step(read, items, done, n + 1)
  <1>1. /\ Holds(t, p, wire) /\ p \in Places(t) /\ Len(f[n + 1]) = Len(f[n]) + Len(wire)
    <2> HIDE DEF wire
    <2>1. Holds(t, j, f[n] \o wire) /\ IsSeq(wire)
      BY DEF wire
    <2>2. Len(f[n + 1]) = Len(f[n] \o wire)
      BY DEF wire
    <2> QED
      BY <2>1, <2>2, HoldsTwice
  <1>2. done.error = "none" /\ Same(done.value, results, n) /\ done.wire = f[n] /\ done.next = p
    BY DEF ReadBack
  <1> DEFINE back == Got(value, wire, p + Len(wire))
  <1> HIDE DEF p
  <1>3. r = back
    <2>1. read[<<item, p>>] = back
      BY <1>1 DEF Back
    <2> QED
      BY <2>1, <1>2
  <1>4. next = IF r.error # "none" THEN r ELSE got
    BY <1>2 DEF Step
  <1> HIDE DEF value, wire, item, r, next
  <1>5. /\ back.error = "none" /\ back.value = value /\ back.wire = wire
        /\ back.next = p + Len(wire)
    BY GotFacts
  <1> HIDE DEF back, got
  <1>6. r.error = "none" /\ r.value = value /\ r.wire = wire /\ r.next = p + Len(wire)
    BY <1>3, <1>5
  <1>7. next = got
    BY <1>4, <1>6
  <1>8. got.error = "none" /\ got.value = more /\ got.wire = whole /\ got.next = r.next
    <2> HIDE DEF more, whole
    <2> QED
      BY GotFacts DEF got
  <1>9. whole = f[n + 1]
    BY <1>2, <1>6 DEF wire
  <1>10. p + Len(wire) = j + Len(f[n + 1])
    <2>1. Len(f[n]) \in Nat /\ Len(wire) \in Nat /\ j \in Nat
      BY SeqFacts DEF wire, Places
    <2> QED
      BY <1>1, <2>1 DEF p
  <1>11. Same(more, results, n + 1)
    <2>1. /\ IsSeq(more) /\ Len(more) = n + 1 /\ more[n + 1] = r
          /\ \A k \in 1..n : more[k] = done.value[k]
      BY <1>2, Appended DEF Same
    <2> HIDE DEF more
    <2>2. ASSUME NEW k \in 1..(n + 1)
          PROVE  more[k].value = results[k].value /\ more[k].wire = results[k].wire
      <3>1. CASE k \in 1..n
        BY <1>2, <2>1, <3>1 DEF Same
      <3>2. CASE k = n + 1
        BY <1>6, <2>1, <3>2 DEF value, wire
      <3>3. k \in 1..n \/ k = n + 1
        OBVIOUS
      <3> QED
        BY <3>1, <3>2, <3>3
    <2> QED
      BY <2>1, <2>2 DEF Same
  <1> HIDE DEF more, whole
  <1>12. ReadBack(t, j, results, f, n + 1, next)
    BY <1>6, <1>7, <1>8, <1>9, <1>10, <1>11 DEF ReadBack
  <1> QED
    BY <1>12 DEF next

LEMMA ReadAllBack ==
    ASSUME NEW t, Len(t) \in Nat, NEW j \in Places(t), NEW read, NEW items, NEW results, NEW f,
           Len(items) \in Nat, Joins(f, results, Len(items)), Holds(t, j, f[Len(items)]),
           \A k \in 1..Len(items) : Back(t, read, items[k], results[k].value, results[k].wire)
    PROVE  ReadBack(t, j, results, f, Len(items), ReadAll(read, items, j))
  <1> DEFINE first == First(read, items, j)
             N == Len(items)
             Good(n) == ReadBack(t, j, results, f, n, first[n])
             S == {n \in Nat : n <= N /\ Holds(t, j, f[n]) => Good(n)}
  <1>1. first[0] = Got(<<>>, <<>>, j)
        /\ \A k \in Nat : first[k + 1] = Step(read, items, first[k], k + 1)
    BY FirstDef
  <1>2. /\ first[0].error = "none" /\ first[0].value = <<>> /\ first[0].wire = <<>>
        /\ first[0].next = j
    <2> DEFINE got == Got(<<>>, <<>>, j)
    <2>1. got.error = "none" /\ got.value = <<>> /\ got.wire = <<>> /\ got.next = j
      BY GotFacts
    <2> HIDE DEF first, got
    <2>2. first[0] = got
      BY <1>1 DEF got
    <2> QED
      BY <2>1, <2>2
  <1> HIDE DEF first, N
  <1>3. Good(0)
    <2>1. f[0] = <<>> /\ Len(f[0]) = 0 /\ j \in Int /\ j + 0 = j
      BY Empty DEF Joins, Places
    <2>2. IsSeq(first[0].value) /\ Len(first[0].value) = 0
      BY <1>2, Empty
    <2>3. Same(first[0].value, results, 0)
      BY <2>2 DEF Same
    <2>4. first[0].next = j + Len(f[0])
      BY <1>2, <2>1
    <2> QED
      BY <1>2, <2>1, <2>3, <2>4 DEF ReadBack
  <1>4. \A k \in 0..N : IsSeq(f[k])
    BY JoinsSeq DEF N
  <1>5. ASSUME NEW n \in Nat, n \in S, n + 1 <= N, Holds(t, j, f[n + 1]) PROVE Good(n + 1)
    <2>1. N \in Nat /\ n + 1 \in 1..N /\ n \in 0..N /\ (n + 1) - 1 = n /\ n <= N
      BY <1>5 DEF N
    <2>2. /\ IsSeq(f[n]) /\ IsSeq(results[n + 1].wire)
          /\ f[n + 1] = f[n] \o results[n + 1].wire
      BY <1>4, <2>1 DEF Joins, N
    <2>3. Holds(t, j, f[n])
      <3>1. Holds(t, j, f[n] \o results[n + 1].wire)
        BY <1>5, <2>2
      <3> QED
        BY <2>2, <3>1, HoldsTwice
    <2>4. Good(n)
      <3> HIDE DEF Good
      <3> QED
        BY <1>5, <2>1, <2>3
    <2>5. Back(t, read, items[n + 1], results[n + 1].value, results[n + 1].wire)
      BY <2>1 DEF N
    <2>6. ReadBack(t, j, results, f, n + 1, Step(read, items, first[n], n + 1))
      BY <1>5, <2>2, <2>4, <2>5, StepBack
    <2> QED
      BY <1>1, <2>6
  <1> HIDE DEF Good
  <1>6. 0 \in S
    BY <1>3
  <1>7. \A n \in Nat : n \in S => n + 1 \in S
    BY <1>5
  <1> HIDE DEF S
  <1>8. Nat \subseteq S
    BY <1>6, <1>7, Induction
  <1>9. Good(N)
    BY <1>8 DEF S, N
  <1> QED
    BY <1>9, FirstIs DEF Good, first, N

\* Everything was read again.
Again(u, v, p) ==
    /\ v.error = "none" /\ Values(v.value) = Values(u.value) /\ Wires(v.value) = Wires(u.value)
    /\ v.wire = u.wire /\ v.next = p + Len(u.wire) /\ Len(v.value) = Len(u.value)

LEMMA SameValues ==
    ASSUME NEW u, NEW v, NEW n, Same(u, v, n), IsSeq(v), Len(v) = n
    PROVE  Values(u) = Values(v) /\ Wires(u) = Wires(v)
  <1>1. DOMAIN u = 1..n /\ DOMAIN v = 1..n
    BY SeqFacts DEF Same
  <1> QED
    BY <1>1 DEF Same, Values, Wires

LEMMA AllBack ==
    ASSUME NEW t, Len(t) \in Nat, NEW p \in Places(t), NEW read, NEW items, Len(items) \in Nat,
           NEW source, NEW i, NEW all, all = ReadAll(source, items, i), all.error = "none",
           IsSeq(all.value), Len(all.value) = Len(items),
           \A k \in 1..Len(items) : IsSeq(all.value[k].wire),
           \A k \in 1..Len(items) :
             Back(t, read, items[k], all.value[k].value, all.value[k].wire),
           Holds(t, p, all.wire)
    PROVE  Again(all, ReadAll(read, items, p), p)
  <1>1. PICK f : Joins(f, all.value, Len(items)) /\ f[Len(items)] = all.wire
    BY ReadAllJoins
  <1> DEFINE back == ReadAll(read, items, p)
  <1>2. ReadBack(t, p, all.value, f, Len(items), back)
    BY <1>1, ReadAllBack
  <1> HIDE DEF back
  <1>3. /\ back.error = "none" /\ Same(back.value, all.value, Len(items))
        /\ back.wire = all.wire /\ back.next = p + Len(all.wire)
    BY <1>1, <1>2 DEF ReadBack
  <1>4. Values(back.value) = Values(all.value) /\ Wires(back.value) = Wires(all.value)
        /\ Len(back.value) = Len(all.value)
    BY <1>3, SameValues DEF Same
  <1> QED
    BY <1>3, <1>4 DEF Again, back

\* The wires of all parts can be written if the whole can.
LEMMA WritesTwice ==
    ASSUME NEW u, NEW v, NEW never, IsSeq(u), IsSeq(v), Writes(u \o v, never)
    PROVE  Writes(u, never) /\ Writes(v, never)
  <1> DEFINE w == u \o v
             a == Len(u)
             b == Len(v)
  <1>1. /\ a \in Nat /\ b \in Nat /\ Len(w) = a + b
        /\ (\A k \in 1..a : w[k] = u[k]) /\ (\A k \in 1..b : w[a + k] = v[k])
    BY Concat, SeqFacts
  <1>2. \A k \in 1..Len(w) : w[k][1] \notin never
    BY DEF Writes
  <1> HIDE DEF w, a, b
  <1>3. \A k \in 1..a : k \in 1..Len(w)
    BY <1>1
  <1>4. \A k \in 1..b : a + k \in 1..Len(w)
    BY <1>1
  <1>5. \A k \in 1..a : u[k][1] \notin never
    BY <1>1, <1>2, <1>3
  <1>6. \A k \in 1..b : v[k][1] \notin never
    BY <1>1, <1>2, <1>4
  <1> QED
    BY <1>5, <1>6 DEF Writes, a, b

LEMMA JoinsWrites ==
    ASSUME NEW f, NEW results, NEW n \in Nat, Joins(f, results, n), NEW never, Writes(f[n], never)
    PROVE  \A k \in 1..n : Writes(results[k].wire, never)
  <1> DEFINE S == {d \in Nat : d <= n => Writes(f[n - d], never)}
  <1>1. \A k \in 0..n : IsSeq(f[k])
    BY JoinsSeq
  <1>2. ASSUME NEW k \in 1..n, Writes(f[k], never)
        PROVE  Writes(f[k - 1], never) /\ Writes(results[k].wire, never)
    <2>1. IsSeq(f[k - 1]) /\ IsSeq(results[k].wire) /\ f[k] = f[k - 1] \o results[k].wire
      <3>1. k - 1 \in 0..n
        OBVIOUS
      <3>2. IsSeq(f[k - 1])
        BY <1>1, <3>1
      <3> QED
        BY <3>2 DEF Joins
    <2>2. Writes(f[k - 1] \o results[k].wire, never)
      BY <1>2, <2>1
    <2> QED
      BY <2>1, <2>2, WritesTwice
  <1>3. 0 \in S
    <2>1. n - 0 = n
      OBVIOUS
    <2> QED
      BY <2>1
  <1>4. ASSUME NEW d \in Nat, d \in S PROVE d + 1 \in S
    <2> SUFFICES ASSUME d + 1 <= n PROVE Writes(f[n - (d + 1)], never)
      OBVIOUS
    <2>1. d <= n /\ n - d \in 1..n /\ (n - d) - 1 = n - (d + 1)
      OBVIOUS
    <2>2. Writes(f[n - d], never)
      BY <1>4, <2>1
    <2>3. Writes(f[(n - d) - 1], never)
      BY <1>2, <2>1, <2>2
    <2> QED
      BY <2>1, <2>3
  <1> HIDE DEF S
  <1>5. Nat \subseteq S
    BY <1>3, <1>4, Induction
  <1>6. ASSUME NEW k \in 1..n PROVE Writes(f[k], never)
    <2>1. n - k \in Nat /\ n - k <= n /\ n - (n - k) = k
      OBVIOUS
    <2>2. Writes(f[n - (n - k)], never)
      BY <1>5, <2>1 DEF S
    <2> QED
      BY <2>1, <2>2
  <1> QED
    BY <1>2, <1>6

-----------------------------------------------------------------------------
(* Items that aren't made of anything else.                                *)

LEMMA TakenBack ==
    ASSUME NEW s, Len(s) \in Nat, NEW i \in Places(s), NEW t, Len(t) \in Nat, NEW p \in Places(t),
           NEW code, NEW r, r = Take(code, s, i), r.error = "none", Holds(t, p, r.wire)
    PROVE  /\ Take(code, t, p) = Got(r.value, r.wire, p + Len(r.wire))
           /\ Take(code, t, p).error = "none" /\ Take(code, t, p).value = r.value
           /\ p + Len(r.wire) = p + 1 /\ p + 1 \in Places(t)
  <1> DEFINE v == s[i][2]
             token == <<code, v>>
             w == <<token>>
  <1>1. r.value = v /\ r.wire = w
    BY TakeRead
  <1>2. Len(w) = 1
    <2> HIDE DEF token
    <2> QED
      BY Single
  <1>3. Take(code, t, p) = Got(v, w, p + 1) /\ p + 1 \in Places(t)
    <2> HIDE DEF v
    <2>1. Holds(t, p, << <<code, v>> >>)
      BY <1>1
    <2> QED
      BY <2>1, TakeBack
  <1> HIDE DEF v, w
  <1>4. Take(code, t, p) = Got(r.value, r.wire, p + Len(r.wire)) /\ p + Len(r.wire) = p + 1
    BY <1>1, <1>2, <1>3
  <1>5. Got(r.value, r.wire, p + Len(r.wire)).error = "none"
        /\ Got(r.value, r.wire, p + Len(r.wire)).value = r.value
    BY GotFacts
  <1> QED
    BY <1>3, <1>4, <1>5

LEMMA OnlyBack ==
    ASSUME NEW s, Len(s) \in Nat, NEW i \in Places(s), NEW t, Len(t) \in Nat, NEW p \in Places(t),
           NEW code, NEW S, NEW r, r.error = "none", Holds(t, p, r.wire)
    PROVE  /\ r = Only(Take(code, s, i), S) =>
                Only(Take(code, t, p), S) = Got(r.value, r.wire, p + Len(r.wire))
           /\ r = Without(Take(code, s, i), S) =>
                Without(Take(code, t, p), S) = Got(r.value, r.wire, p + Len(r.wire))
  <1> DEFINE taken == Take(code, s, i)
             again == Take(code, t, p)
             got == Got(r.value, r.wire, p + Len(r.wire))
  <1>1. ASSUME taken = r PROVE again = got /\ again.error = "none" /\ again.value = r.value
    <2>1. r = Take(code, s, i)
      BY <1>1
    <2> HIDE DEF taken
    <2> QED
      BY <2>1, TakenBack
  <1> HIDE DEF taken, again, got
  <1>2. r = Only(taken, S) => r.value \in S /\ taken.error = "none" /\ taken = r
    BY OnlyRead
  <1>3. r = Without(taken, S) => r.value \notin S /\ taken.error = "none" /\ taken = r
    BY OnlyRead
  <1>4. r = Only(taken, S) => Only(again, S) = again
    BY <1>1, <1>2, OnlyRead
  <1>5. r = Without(taken, S) => Without(again, S) = again
    BY <1>1, <1>3, OnlyRead
  <1> QED
    BY <1>1, <1>2, <1>3, <1>4, <1>5 DEF taken, again, got

LEMMA BoolBack ==
    ASSUME NEW t, Len(t) \in Nat, NEW p \in Places(t), NEW yes \in BOOLEAN,
           Holds(t, p, WriteBool(yes))
    PROVE  /\ ReadBool(t, p) = Got(yes, WriteBool(yes), p + 1) /\ p + 1 \in Places(t)
           /\ Len(WriteBool(yes)) = 1 /\ IsSeq(WriteBool(yes))
           /\ ReadBool(t, p).error = "none" /\ ReadBool(t, p).value = yes
           /\ ReadBool(t, p).next = p + 1 /\ ReadBool(t, p).wire = WriteBool(yes)
  <1> DEFINE byte == IF yes THEN 1 ELSE 0
             token == <<"u8", byte>>
             w == <<token>>
             v == Take("u8", t, p)
             back == v.value # 0
             got == Got(back, WriteBool(back), v.next)
  <1>1. WriteBool(yes) = w
    BY DEF WriteBool
  <1>2. Len(w) = 1 /\ IsSeq(w)
    <2> HIDE DEF token
    <2> QED
      BY Single
  <1>3. v = Got(byte, w, p + 1) /\ p + 1 \in Places(t)
    <2> HIDE DEF byte
    <2>1. Holds(t, p, << <<"u8", byte>> >>)
      BY <1>1
    <2> QED
      BY <2>1, TakeBack
  <1> HIDE DEF w
  <1>4. v.error = "none" /\ v.value = byte /\ v.next = p + 1
    <2> HIDE DEF byte, v
    <2> QED
      BY <1>3, GotFacts
  <1>5. ReadBool(t, p) = IF v.error # "none" THEN v ELSE got
    BY DEF ReadBool, Then
  <1>6. back = yes
    <2> HIDE DEF v
    <2> QED
      BY <1>4
  <1> HIDE DEF back, v
  <1>7. got = Got(yes, WriteBool(yes), p + 1)
    BY <1>4, <1>6
  <1> HIDE DEF got
  <1>8. ReadBool(t, p) = Got(yes, WriteBool(yes), p + 1)
    BY <1>4, <1>5, <1>7
  <1> DEFINE bool == Got(yes, WriteBool(yes), p + 1)
  <1>9. bool.error = "none" /\ bool.value = yes /\ bool.next = p + 1 /\ bool.wire = WriteBool(yes)
    BY GotFacts
  <1> HIDE DEF bool
  <1>10. ReadBool(t, p) = bool
    BY <1>8 DEF bool
  <1> QED
    BY <1>1, <1>2, <1>3, <1>8, <1>9, <1>10

LEMMA ReadBoolBack ==
    ASSUME NEW s, Len(s) \in Nat, NEW i \in Places(s), NEW t, Len(t) \in Nat, NEW p \in Places(t),
           NEW r, r = ReadBool(s, i), r.error = "none", Holds(t, p, r.wire)
    PROVE  /\ ReadBool(t, p) = Got(r.value, r.wire, p + Len(r.wire))
           /\ Without(r, {FALSE}).error = "none" =>
                Without(ReadBool(t, p), {FALSE}) = Got(r.value, r.wire, p + Len(r.wire))
  <1>1. r.value \in BOOLEAN /\ r.wire = WriteBool(r.value)
    BY ReadBoolResult
  <1> DEFINE again == ReadBool(t, p)
  <1>2. /\ again = Got(r.value, WriteBool(r.value), p + 1) /\ Len(WriteBool(r.value)) = 1
        /\ again.error = "none" /\ again.value = r.value
    BY <1>1, BoolBack
  <1> HIDE DEF again
  <1>3. again = Got(r.value, r.wire, p + Len(r.wire))
    BY <1>1, <1>2
  <1>4. Without(r, {FALSE}).error = "none" => Without(again, {FALSE}) = again
    BY <1>2, OnlyRead
  <1> QED
    BY <1>3, <1>4 DEF again

LEMMA FlippedBack ==
    ASSUME NEW x \in {<<>>} \cup (BOOLEAN \X BOOLEAN)
    PROVE  Unflipped(Flip(Unflipped(x))) = Unflipped(x)
  <1>1. CASE x = <<>>
    BY <1>1 DEF Unflipped, Flip
  <1>2. ASSUME NEW a \in BOOLEAN, NEW b \in BOOLEAN, x = <<a, b>>
        PROVE  Unflipped(Flip(Unflipped(x))) = Unflipped(x)
    <2>1. x # <<>> /\ x[1] = a /\ x[2] = b
      BY <1>2
    <2>2. Flip(x) = <<~a, ~b>>
      BY <2>1 DEF Flip
    <2> DEFINE z == Unflipped(x)
               c == IF a THEN ~b ELSE b
    <2>3. z = <<FALSE, c>>
      <3>1. CASE a
        <4>1. z = Flip(x)
          BY <2>1, <3>1 DEF Unflipped
        <4> QED
          BY <4>1, <2>2, <3>1
      <3>2. CASE ~a
        <4>1. z = x
          BY <2>1, <3>2 DEF Unflipped
        <4> QED
          BY <4>1, <1>2, <3>2
      <3> QED
        BY <3>1, <3>2
    <2>4. c \in BOOLEAN
      OBVIOUS
    <2> HIDE DEF z, c
    <2>5. Flip(z) = <<TRUE, ~c>>
      BY <2>3, <2>4 DEF Flip
    <2> DEFINE y == Flip(z)
    <2>6. y # <<>> /\ y[1] = TRUE /\ y[2] = (~c)
      BY <2>5
    <2> HIDE DEF y
    <2>7. Unflipped(y) = Flip(y)
      BY <2>6 DEF Unflipped
    <2>8. Flip(y) = <<FALSE, c>>
      BY <2>4, <2>6 DEF Flip
    <2> QED
      BY <2>3, <2>7, <2>8 DEF y, z
  <1> QED
    BY <1>1, <1>2

LEMMA SafeBack ==
    ASSUME NEW s, IsStream(s), NEW i \in Places(s), NEW t, Len(t) \in Nat, NEW p \in Places(t),
           NEW r, r = read_safe_string(s, i), r.error = "none", Holds(t, p, r.wire)
    PROVE  read_safe_string(t, p) = Got(r.value, r.wire, p + Len(r.wire))
  <1> DEFINE v == Take("safe", s, i)
             string == Unflipped(v.value.string)
             got == Got(string, WriteSafe(string), v.next)
             next == IF ~v.value.marked THEN Raises("ValueError") ELSE got
  <1>1. r = IF v.error # "none" THEN v ELSE next
    BY DEF read_safe_string, Then
  <1>2. Len(s) \in Nat /\ \A k \in 1..Len(s) : IsToken(s[k])
    BY StreamFacts
  <1> HIDE DEF v, string, got
  <1>3. v.error = "none" /\ r = got
    BY <1>1, RaisesFacts
  <1>4. i \in 1..Len(s) /\ s[i][1] = "safe" /\ v.value = s[i][2]
    BY <1>2, <1>3, TakeRead DEF v
  <1>5. v.value.string \in {<<>>} \cup (BOOLEAN \X BOOLEAN)
    <2>1. s[i][2] \in [marked : BOOLEAN, string : {<<>>} \cup (BOOLEAN \X BOOLEAN)]
      BY <1>2, <1>4 DEF IsToken
    <2> QED
      BY <1>4, <2>1
  <1>6. r.value = string /\ r.wire = WriteSafe(string)
    BY <1>3, GotFacts DEF got
  <1>7. Unflipped(Flip(string)) = string
    BY <1>5, FlippedBack DEF string
  <1> DEFINE new == [marked |-> TRUE, string |-> Flip(string)]
             token == <<"safe", new>>
             w == <<token>>
             u == Take("safe", t, p)
             back == Unflipped(u.value.string)
             again == Got(back, WriteSafe(back), u.next)
             after == IF ~u.value.marked THEN Raises("ValueError") ELSE again
  <1>8. WriteSafe(string) = w
    BY DEF WriteSafe
  <1>9. Len(w) = 1
    <2> HIDE DEF token
    <2> QED
      BY Single
  <1>10. u = Got(new, w, p + 1)
    <2> HIDE DEF new
    <2>1. Holds(t, p, << <<"safe", new>> >>)
      BY <1>6, <1>8
    <2> QED
      BY <2>1, TakeBack
  <1> HIDE DEF w
  <1>11. u.error = "none" /\ u.value = new /\ u.next = p + 1
    <2> HIDE DEF new, u
    <2> QED
      BY <1>10, GotFacts
  <1>12. read_safe_string(t, p) = IF u.error # "none" THEN u ELSE after
    BY DEF read_safe_string, Then
  <1> HIDE DEF u
  <1>13. u.value.marked = TRUE /\ back = string
    BY <1>7, <1>11
  <1> HIDE DEF back, new
  <1>14. read_safe_string(t, p) = again
    BY <1>11, <1>12, <1>13
  <1> QED
    BY <1>6, <1>8, <1>9, <1>11, <1>13, <1>14

LEMMA SignificantTwice ==
    ASSUME NEW words \in Seq(Nat)
    PROVE  Significant(Significant(words)) = Significant(words)
  <1> DEFINE zeros(u) == {n \in 0..Len(u) : \A k \in (n + 1)..Len(u) : u[k] = 0}
             least(u) == CHOOSE k \in zeros(u) : \A l \in zeros(u) : k <= l
             n == least(words)
             w == SubSeq(words, 1, n)
  <1>1. ASSUME NEW u \in Seq(Nat)
        PROVE  /\ least(u) \in zeros(u) /\ \A l \in zeros(u) : least(u) <= l
               /\ Significant(u) = SubSeq(u, 1, least(u))
    <2>1. Len(u) \in zeros(u) /\ zeros(u) \in SUBSET Nat
      OBVIOUS
    <2> DEFINE Z == zeros(u)
    <2>2. Significant(u) = SubSeq(u, 1, CHOOSE k \in Z : \A l \in Z : k <= l)
      BY DEF Significant
    <2> HIDE DEF Z
    <2>3. \E k \in Z : \A l \in Z : k <= l
      BY <2>1, Least DEF Z
    <2> DEFINE m == CHOOSE k \in Z : \A l \in Z : k <= l
    <2>4. m \in Z /\ \A l \in Z : m <= l
      BY <2>3
    <2>5. m = least(u)
      BY DEF Z
    <2> HIDE DEF m
    <2> QED
      BY <2>2, <2>4, <2>5 DEF m, Z
  <1> HIDE DEF least
  <1>2. n \in 0..Len(words) /\ (\A k \in (n + 1)..Len(words) : words[k] = 0)
        /\ \A l \in zeros(words) : n <= l
    BY <1>1
  <1> HIDE DEF n
  <1>3. w \in Seq(Nat) /\ Len(w) = n /\ \A k \in 1..n : w[k] = words[k]
    BY <1>2
  <1> HIDE DEF w
  <1>4. n \in zeros(w)
    BY <1>2, <1>3
  <1>5. ASSUME NEW l \in zeros(w) PROVE n <= l
    <2>1. l \in 0..n /\ \A k \in (l + 1)..n : w[k] = 0
      BY <1>3
    <2>2. \A k \in (l + 1)..Len(words) : words[k] = 0
      <3> SUFFICES ASSUME NEW k \in (l + 1)..Len(words) PROVE words[k] = 0
        OBVIOUS
      <3>1. CASE k <= n
        BY <1>2, <1>3, <2>1, <3>1
      <3>2. CASE k > n
        BY <1>2, <2>1, <3>2
      <3> QED
        BY <1>2, <2>1, <3>1, <3>2
    <2>3. l \in zeros(words)
      BY <1>2, <2>1, <2>2
    <2> QED
      BY <1>2, <2>3
  <1>6. least(w) \in zeros(w) /\ (\A l \in zeros(w) : least(w) <= l)
        /\ Significant(w) = SubSeq(w, 1, least(w))
    BY <1>1, <1>3
  <1>7. least(w) = n
    <2>1. least(w) <= n /\ n <= least(w) /\ least(w) \in 0..Len(w)
      BY <1>4, <1>5, <1>6
    <2> QED
      BY <1>2, <2>1
  <1>8. SubSeq(w, 1, n) = w
    BY <1>2, <1>3
  <1>9. Significant(words) = w
    BY <1>1 DEF n, w
  <1> QED
    BY <1>6, <1>7, <1>8, <1>9

LEMMA BitsBack ==
    ASSUME NEW s, IsStream(s), NEW i \in Places(s), NEW t, Len(t) \in Nat, NEW p \in Places(t),
           NEW r, r = read_bit_vector(s, i), r.error = "none", Holds(t, p, r.wire)
    PROVE  read_bit_vector(t, p) = Got(r.value, r.wire, p + Len(r.wire))
  <1> DEFINE v == Take("bits", s, i)
             words == Significant(v.value)
             w == << <<"bits", words>> >>
             got == Got(words, w, v.next)
  <1>1. r = IF v.error # "none" THEN v ELSE got
    BY DEF read_bit_vector, Then
  <1>2. Len(s) \in Nat /\ \A k \in 1..Len(s) : IsToken(s[k])
    BY StreamFacts
  <1> HIDE DEF v, words, w, got
  <1>3. v.error = "none" /\ r = got
    BY <1>1
  <1>4. i \in 1..Len(s) /\ s[i][1] = "bits" /\ v.value = s[i][2]
    BY <1>2, <1>3, TakeRead DEF v
  <1>5. v.value \in Seq(Nat)
    <2>1. s[i][2] \in Seq(Nat)
      BY <1>2, <1>4 DEF IsToken
    <2> QED
      BY <1>4, <2>1
  <1>6. r.value = words /\ r.wire = w
    BY <1>3, GotFacts DEF got
  <1>7. Significant(words) = words
    BY <1>5, SignificantTwice DEF words
  <1> DEFINE u == Take("bits", t, p)
             back == Significant(u.value)
             again == Got(back, << <<"bits", back>> >>, u.next)
  <1>8. Len(w) = 1
    <2> DEFINE token == <<"bits", words>>
    <2> HIDE DEF token
    <2>1. Len(<<token>>) = 1
      BY Single
    <2> QED
      BY <2>1 DEF w, token
  <1>9. u = Got(words, w, p + 1)
    <2>1. Holds(t, p, << <<"bits", words>> >>)
      BY <1>6 DEF w
    <2> QED
      BY <2>1, TakeBack DEF w
  <1>10. read_bit_vector(t, p) = IF u.error # "none" THEN u ELSE again
    BY DEF read_bit_vector, Then
  <1> HIDE DEF u
  <1>11. u.error = "none" /\ u.value = words /\ u.next = p + 1
    BY <1>9, GotFacts
  <1>12. back = words
    BY <1>7, <1>11
  <1> HIDE DEF back
  <1>13. again = Got(words, w, p + 1)
    BY <1>11, <1>12 DEF w
  <1> HIDE DEF again
  <1>14. read_bit_vector(t, p) = Got(words, w, p + 1)
    BY <1>10, <1>11, <1>13
  <1>15. p + Len(r.wire) = p + 1
    BY <1>6, <1>8
  <1> QED
    BY <1>6, <1>14, <1>15

\* A time that fits is written and read back.
LEMMA TimeBack ==
    ASSUME NEW t, Len(t) \in Nat, NEW p \in Places(t), NEW time \in Nat \X (0..(Second - 1)),
           time[1] < Eternity, NEW w, w = << <<"time", time>> >>, Holds(t, p, w)
    PROVE  /\ WriteTime(time) = w /\ Len(w) = 1 /\ IsSeq(w)
           /\ read_unified_time(t, p) = Got(time, w, p + 1) /\ p + 1 \in Places(t)
           /\ read_unified_time(t, p).error = "none" /\ read_unified_time(t, p).value = time
           /\ read_unified_time(t, p).wire = w /\ read_unified_time(t, p).next = p + 1
  <1>1. Len(w) = 1 /\ IsSeq(w)
    <2> DEFINE token == <<"time", time>>
    <2> HIDE DEF token
    <2>1. Len(<<token>>) = 1 /\ IsSeq(<<token>>)
      BY Single
    <2> QED
      BY <2>1 DEF token
  <1>2. Take("time", t, p) = Got(time, w, p + 1) /\ p + 1 \in Places(t)
    BY TakeBack
  <1>3. WriteTime(time) = w
    BY DEF WriteTime
  <1>4. Normalised(time) = time
    <2>1. time[1] \in Nat /\ time[2] \in 0..(Second - 1) /\ time = <<time[1], time[2]>>
      OBVIOUS
    <2>2. Second \in Nat /\ Second > 0
      BY StreamsAssumption DEF StreamsAssumption
    <2>3. 0 * Second + time[2] = time[2]
      BY <2>1, <2>2
    <2>4. time[2] \div Second = 0 /\ time[2] % Second = time[2]
      BY <2>1, <2>2, <2>3, Division
    <2>5. time[1] + time[2] \div Second = time[1]
      BY <2>1, <2>4
    <2> QED
      BY <2>1, <2>4, <2>5 DEF Normalised
  <1> DEFINE u == Take("time", t, p)
             back == Normalised(u.value)
             again == Got(back, WriteTime(back), u.next)
  <1>5. read_unified_time(t, p) = IF u.error # "none" THEN u ELSE again
    BY DEF read_unified_time, Then
  <1> HIDE DEF u
  <1>6. u.error = "none" /\ u.value = time /\ u.next = p + 1
    <2> HIDE DEF u
    <2>1. u = Got(time, w, p + 1)
      BY <1>2 DEF u
    <2> QED
      BY <2>1, GotFacts
  <1>7. back = time
    BY <1>4, <1>6
  <1> HIDE DEF back
  <1>8. again = Got(time, w, p + 1)
    BY <1>3, <1>6, <1>7
  <1> HIDE DEF again
  <1> DEFINE got == Got(time, w, p + 1)
             result == read_unified_time(t, p)
  <1>9. result = got
    BY <1>5, <1>6, <1>8
  <1>10. got.error = "none" /\ got.value = time /\ got.wire = w /\ got.next = p + 1
    BY GotFacts
  <1> HIDE DEF got, result
  <1>11. result.error = "none" /\ result.value = time /\ result.wire = w /\ result.next = p + 1
    BY <1>9, <1>10
  <1> QED
    BY <1>1, <1>2, <1>3, <1>9, <1>11 DEF got, result

\* A token that is there.
TakesAt(t, p, code, v) ==
    /\ Take(code, t, p) = Got(v, << <<code, v>> >>, p + 1) /\ p + 1 \in Places(t)
    /\ Take(code, t, p).error = "none" /\ Take(code, t, p).value = v
    /\ Take(code, t, p).next = p + 1 /\ Take(code, t, p).wire = << <<code, v>> >>

LEMMA TakeAt ==
    ASSUME NEW t, Len(t) \in Nat, NEW p \in 1..Len(t), NEW code, NEW v, NEW token,
           token = <<code, v>>, t[p] = token
    PROVE  TakesAt(t, p, code, v)
  <1> DEFINE w == << <<code, v>> >>
             got == Got(v, w, p + 1)
             r == Take(code, t, p)
  <1>1. token[1] = code /\ token[2] = v
    OBVIOUS
  <1>2. ~(p > Len(t)) /\ p + 1 \in Places(t)
    BY DEF Places
  <1>3. r = Got(t[p][2], << <<code, t[p][2]>> >>, p + 1)
    BY <1>1, <1>2 DEF Take
  <1>4. r = got
    BY <1>1, <1>3
  <1>5. got.error = "none" /\ got.value = v /\ got.next = p + 1 /\ got.wire = w
    <2> HIDE DEF w
    <2> QED
      BY GotFacts
  <1> HIDE DEF got, r, w
  <1>6. r = got /\ r.error = "none" /\ r.value = v /\ r.next = p + 1 /\ r.wire = w
    BY <1>4, <1>5
  <1> QED
    BY <1>2, <1>6 DEF got, r, w, TakesAt

LEMMA HeldTwice ==
    ASSUME NEW t, Len(t) \in Nat, NEW p \in Places(t), NEW u, NEW v, IsSeq(u), IsSeq(v),
           NEW w, w = u \o v, Holds(t, p, w)
    PROVE  /\ Holds(t, p, u) /\ p + Len(u) \in Places(t)
           /\ Holds(t, p + Len(u), v) /\ Len(w) = Len(u) + Len(v)
           /\ p + Len(w) = (p + Len(u)) + Len(v)
  <1>1. Holds(t, p, u \o v)
    OBVIOUS
  <1>2. /\ Holds(t, p, u) /\ p + Len(u) \in Places(t)
        /\ Holds(t, p + Len(u), v) /\ Len(u \o v) = Len(u) + Len(v)
    BY <1>1, HoldsTwice
  <1>3. Len(u) \in Nat /\ Len(v) \in Nat /\ p \in Nat
    BY SeqFacts DEF Places
  <1> DEFINE a == Len(u)
             b == Len(v)
             c == Len(w)
  <1>4. c = a + b
    BY <1>2
  <1>5. p + c = (p + a) + b
    <2> HIDE DEF a, b, c
    <2>1. a \in Nat /\ b \in Nat
      BY <1>3 DEF a, b
    <2> QED
      BY <1>3, <1>4, <2>1
  <1> QED
    BY <1>2, <1>5

LEMMA DeliveryBack ==
    ASSUME NEW t, Len(t) \in Nat, NEW p \in Places(t), NEW time \in Nat \X (0..(Second - 1)),
           time[1] < Eternity, NEW w, w = WriteDelivery(time), Holds(t, p, w)
    PROVE  ReadDelivery(t, p) = Got(time, w, p + Len(w))
  <1> DEFINE there == ReadBool(t, p)
             r == read_unified_time(t, there.next)
             after == Got(r.value, WriteDelivery(r.value), r.next)
             first == Got(Start, WriteDelivery(Start), there.next)
             second == IF r.error # "none" THEN r ELSE after
  <1>1. ReadDelivery(t, p) = IF there.error # "none" THEN there
                             ELSE IF ~there.value THEN first ELSE second
    BY DEF ReadDelivery, Then
  <1>2. CASE time = Start
    <2>1. w = WriteBool(FALSE)
      BY <1>2 DEF WriteDelivery, WriteBool
    <2>2. /\ there.error = "none" /\ there.value = FALSE /\ there.next = p + 1
          /\ Len(WriteBool(FALSE)) = 1
      <3>1. FALSE \in BOOLEAN /\ Holds(t, p, WriteBool(FALSE))
        BY <2>1
      <3> HIDE DEF there
      <3> QED
        BY <3>1, BoolBack DEF there
    <2> HIDE DEF there, second
    <2>3. ReadDelivery(t, p) = first
      BY <1>1, <2>2
    <2>4. first = Got(time, w, p + 1)
      BY <1>2, <2>2
    <2> QED
      BY <2>1, <2>2, <2>3, <2>4
  <1>3. CASE time # Start
    <2> DEFINE x == << <<"time", time>> >>
               b == WriteBool(TRUE)
    <2>1. w = b \o x
      BY <1>3 DEF WriteDelivery, WriteBool, WriteTime
    <2>2. IsSeq(b) /\ IsSeq(x) /\ Len(b) = 1 /\ Len(x) = 1
      <3> DEFINE token == <<"time", time>>
                 one == <<"u8", IF TRUE THEN 1 ELSE 0>>
      <3>1. x = <<token>> /\ b = <<one>>
        BY DEF WriteBool
      <3> HIDE DEF token, one, x, b
      <3> QED
        BY <3>1, Single
    <2> HIDE DEF x, b
    <2>3. /\ Holds(t, p, b) /\ p + Len(b) \in Places(t) /\ Holds(t, p + Len(b), x)
          /\ Len(w) = Len(b) + Len(x)
      <3> HIDE DEF there, first, second, after, r
      <3>1. IsSeq(b) /\ IsSeq(x)
        BY <2>2
      <3> QED
        <4>1. p \in Places(t) /\ Len(t) \in Nat /\ Holds(t, p, w) /\ w = b \o x
          BY <2>1
        <4>2. Holds(t, p, b)
          BY <4>1, <3>1, HeldTwice
        <4>3. p + Len(b) \in Places(t)
          BY <4>1, <3>1, HeldTwice
        <4>4. Holds(t, p + Len(b), x)
          BY <4>1, <3>1, HeldTwice
        <4>5. Len(w) = Len(b) + Len(x)
          BY <4>1, <3>1, HeldTwice
        <4> QED
          BY <4>2, <4>3, <4>4, <4>5
    <2>4. there.error = "none" /\ there.value = TRUE /\ there.next = p + 1
      <3>1. TRUE \in BOOLEAN /\ Holds(t, p, WriteBool(TRUE))
        BY <2>3 DEF b
      <3> HIDE DEF there
      <3> QED
        BY <3>1, BoolBack DEF there
    <2> HIDE DEF there, first
    <2>5. there.next = p + Len(b) /\ there.next \in Places(t) /\ Holds(t, there.next, x)
      BY <2>2, <2>3, <2>4
    <2>6. r.error = "none" /\ r.value = time /\ r.next = there.next + 1
      <3> DEFINE q == there.next
      <3>1. q \in Places(t) /\ Holds(t, q, x) /\ x = << <<"time", time>> >>
        BY <2>5 DEF x
      <3> HIDE DEF q
      <3>2. /\ read_unified_time(t, q).error = "none" /\ read_unified_time(t, q).value = time
            /\ read_unified_time(t, q).next = q + 1
        BY <3>1, TimeBack
      <3> QED
        BY <3>2 DEF q
    <2> HIDE DEF r
    <2>7. after = Got(time, w, p + 2)
      <3>1. r.next = p + 2
        <4>1. p \in Nat
          BY DEF Places
        <4> QED
          BY <2>4, <2>6, <4>1
      <3> QED
        BY <2>6, <3>1
    <2> HIDE DEF after
    <2>8. ReadDelivery(t, p) = after
      BY <1>1, <2>4, <2>6
    <2>9. Len(w) = 2
      BY <2>2, <2>3
    <2> QED
      BY <2>7, <2>8, <2>9
  <1> QED
    BY <1>2, <1>3

LEMMA StreamBack ==
    ASSUME NEW t, Len(t) \in Nat, NEW p \in Places(t), NEW length, NEW type \in {0, 2, 3},
           NEW data, NEW stream, stream = [length |-> length, type |-> type, data |-> data],
           NEW w, w = WriteStream(stream), Holds(t, p, w)
    PROVE  ReadStream(t, p) = Got(stream, w, p + Len(w))
  <1> DEFINE a == <<"u32", length>>
             b == <<"u8", type>>
             c == <<"data", data>>
  <1>1. w = <<a, b, c>>
    BY DEF WriteStream
  <1>2. Len(w) = 3
    BY StreamWritten
  <1>3. p \in 1..Len(t) /\ p + 1 \in 1..Len(t) /\ p + 2 \in 1..Len(t)
        /\ t[p] = w[1] /\ t[p + 1] = w[2] /\ t[p + 2] = w[3]
    <2>1. p + 3 <= Len(t) + 1 /\ p \in Nat /\ p >= 1
      BY <1>2 DEF Holds, Places
    <2>2. \A k \in 1..3 : t[p + k - 1] = w[k]
      BY <1>2 DEF Holds
    <2>3. p + 1 - 1 = p /\ p + 2 - 1 = p + 1 /\ p + 3 - 1 = p + 2
          /\ 1 \in 1..3 /\ 2 \in 1..3 /\ 3 \in 1..3
      BY <2>1
    <2>4. t[p] = w[1] /\ t[p + 1] = w[2] /\ t[p + 2] = w[3]
      BY <2>2, <2>3
    <2> QED
      BY <2>1, <2>4
  <1>4. t[p] = a /\ t[p + 1] = b /\ t[p + 2] = c
    BY <1>1, <1>3
  <1> DEFINE x == Take("u32", t, p)
             taken == Take("u8", t, x.next)
             y == Only(taken, {0, 2, 3})
             z == Take("data", t, y.next)
             back == [length |-> x.value, type |-> y.value, data |-> z.value]
             got == Got(back, WriteStream(back), z.next)
  <1>5. ReadStream(t, p) = IF x.error # "none" THEN x ELSE IF y.error # "none" THEN y
                           ELSE IF z.error # "none" THEN z ELSE got
    BY DEF ReadStream, Then
  <1>6. x.error = "none" /\ x.value = length /\ x.next = p + 1
    <2>1. TakesAt(t, p, "u32", length)
      BY <1>3, <1>4, TakeAt
    <2> QED
      BY <2>1 DEF TakesAt
  <1> DEFINE q == p + 1
             q2 == p + 2
  <1>7. taken.error = "none" /\ taken.value = type /\ taken.next = q2
    <2>1. q \in 1..Len(t) /\ t[q] = b
      BY <1>3, <1>4
    <2>2. q + 1 = q2
      BY DEF Places
    <2> HIDE DEF q
    <2>3. TakesAt(t, q, "u8", type)
      BY <2>1, TakeAt
    <2>4. x.next = q
      BY <1>6 DEF q
    <2> HIDE DEF x, q2
    <2> QED
      BY <2>2, <2>3, <2>4 DEF TakesAt
  <1> HIDE DEF taken
  <1>8. y.error = "none" /\ y.value = type /\ y.next = q2
    <2>1. y = taken
      BY <1>7, OnlyRead
    <2> HIDE DEF y, q2
    <2> QED
      BY <1>7, <2>1
  <1>9. z.error = "none" /\ z.value = data /\ z.next = p + 3
    <2>1. q2 \in 1..Len(t) /\ t[q2] = c
      BY <1>3, <1>4
    <2>2. q2 + 1 = p + 3
      BY DEF Places
    <2> HIDE DEF q2, y
    <2>3. TakesAt(t, q2, "data", data)
      BY <2>1, TakeAt
    <2> QED
      BY <1>8, <2>2, <2>3 DEF TakesAt
  <1> HIDE DEF x, y, z
  <1>10. back = stream
    BY <1>6, <1>8, <1>9
  <1> HIDE DEF back
  <1>11. ReadStream(t, p) = got
    BY <1>5, <1>6, <1>8, <1>9
  <1>12. z.next = p + Len(w)
    <2> HIDE DEF a, b, c
    <2> QED
      BY <1>2, <1>9
  <1> QED
    BY <1>10, <1>11, <1>12

LEMMA FlagsBack ==
    ASSUME NEW s, Len(s) \in Nat, NEW i \in Places(s), NEW t, Len(t) \in Nat, NEW p \in Places(t),
           NEW item, NEW r, r = ReadFlags(item, s, i), r.error = "none", Holds(t, p, r.wire)
    PROVE  /\ ReadFlags(item, t, p) = Got(r.value, r.wire, p + 1)
           /\ Len(r.wire) = 1 /\ p + 1 \in Places(t)
  <1> DEFINE known == FlagsOf(item.fields)
             strict == item.others = "error" \/ (item.others = "unsupported" /\ ~Replaced)
             v == Take(item.code, s, i)
             flags == IF item.others = "kept" THEN v.value ELSE v.value \cap known
             w == << <<item.code, flags>> >>
             got == Got(flags, w, v.next)
  <1>1. r = IF v.error # "none" THEN v
            ELSE IF strict /\ ~(v.value \subseteq known) THEN Raises("ValueError") ELSE got
    BY DEF ReadFlags, Then
  <1> HIDE DEF known, v, w, got, strict
  <1>2. v.error = "none" /\ r = got
    BY <1>1, RaisesFacts
  <1>3. r.value = flags /\ r.wire = w
    <2> HIDE DEF flags
    <2> QED
      BY <1>2, GotFacts DEF got
  <1>4. Len(w) = 1
    <2> DEFINE token == <<item.code, flags>>
    <2> HIDE DEF token
    <2>1. Len(<<token>>) = 1
      BY Single
    <2> QED
      BY <2>1 DEF w, token
  <1> DEFINE u == Take(item.code, t, p)
             kept == IF item.others = "kept" THEN u.value ELSE u.value \cap known
             again == Got(kept, << <<item.code, kept>> >>, u.next)
  <1>5. u = Got(flags, w, p + 1) /\ p + 1 \in Places(t)
    <2> HIDE DEF flags
    <2>1. Holds(t, p, << <<item.code, flags>> >>)
      BY <1>3 DEF w
    <2> QED
      BY <2>1, TakeBack DEF w
  <1>6. ReadFlags(item, t, p) = IF u.error # "none" THEN u
            ELSE IF strict /\ ~(u.value \subseteq known) THEN Raises("ValueError") ELSE again
    BY DEF ReadFlags, Then, strict, known
  <1> HIDE DEF u
  <1>7. u.error = "none" /\ u.value = flags /\ u.next = p + 1
    <2> HIDE DEF flags
    <2> QED
      BY <1>5, GotFacts
  <1>8. kept = flags /\ ~(strict /\ ~(u.value \subseteq known))
    <2>1. CASE item.others = "kept"
      BY <1>7, <2>1 DEF strict
    <2>2. CASE item.others # "kept"
      BY <1>7, <2>2
    <2> QED
      BY <2>1, <2>2
  <1> HIDE DEF kept, flags
  <1>9. again = Got(flags, w, p + 1)
    BY <1>7, <1>8 DEF w
  <1> HIDE DEF again
  <1>10. ReadFlags(item, t, p) = again
    BY <1>6, <1>7, <1>8
  <1> QED
    BY <1>3, <1>4, <1>5, <1>9, <1>10

-----------------------------------------------------------------------------
(* Items that are made of others.                                          *)

NetRaises == Basic \cup {"RecursionError"}

\* What was read of an item anywhere, the other reader gets back.
Returns(s, source, t, read, item) ==
    \A q \in Places(s) :
      /\ Result(s, q, source[<<item, q>>], NetRaises, {})
      /\ source[<<item, q>>].error = "none" =>
           Back(t, read, item, source[<<item, q>>].value, source[<<item, q>>].wire)

LEMMA ItemsBack ==
    ASSUME NEW s, Len(s) \in Nat, NEW i \in Places(s), NEW t, Len(t) \in Nat,
           NEW p \in Places(t), NEW source, NEW read, NEW items, Len(items) \in Nat,
           \A k \in 1..Len(items) : Returns(s, source, t, read, items[k]),
           NEW all, all = ReadAll(source, items, i), all.error = "none", Holds(t, p, all.wire)
    PROVE  /\ Again(all, ReadAll(read, items, p), p)
           /\ IsSeq(all.value) /\ Len(all.value) = Len(items)
  <1>1. i \in Nat /\ i..(Len(s) + 1) \subseteq Places(s)
    BY DEF Places
  <1>2. "none" \notin NetRaises
    BY DEF NetRaises, Basic
  <1>3. \A k \in 1..Len(items) : \A q \in i..(Len(s) + 1) :
          Result(s, q, source[<<items[k], q>>], NetRaises, {})
    BY <1>1 DEF Returns
  <1>4. AllResult(s, source, items, i, all, Len(items), NetRaises, {})
    BY <1>2, <1>3, ReadAllResult
  <1>5. PartsRead(s, source, items, i, all, Len(items))
    BY <1>4 DEF AllResult
  <1>6. /\ IsSeq(all.value) /\ Len(all.value) = Len(items)
        /\ \A k \in 1..Len(items) :
             /\ all.value[k].error = "none"
             /\ \E q \in i..(Len(s) + 1) : all.value[k] = source[<<items[k], q>>]
    BY <1>5 DEF PartsRead
  <1>7. ASSUME NEW k \in 1..Len(items)
        PROVE  /\ IsSeq(all.value[k].wire)
               /\ Back(t, read, items[k], all.value[k].value, all.value[k].wire)
    <2>1. PICK q \in i..(Len(s) + 1) : all.value[k] = source[<<items[k], q>>]
      BY <1>6
    <2> DEFINE r == all.value[k]
    <2>2. q \in Places(s) /\ r.error = "none" /\ r = source[<<items[k], q>>]
      BY <1>1, <1>6, <2>1
    <2> HIDE DEF r
    <2>3. Result(s, q, r, NetRaises, {}) /\ Back(t, read, items[k], r.value, r.wire)
      BY <2>2 DEF Returns
    <2>4. IsSeq(r.wire)
      BY <1>2, <2>2, <2>3, ResultError DEF Writes
    <2> QED
      BY <2>3, <2>4 DEF r
  <1>8. Again(all, ReadAll(read, items, p), p)
    BY <1>6, <1>7, AllBack
  <1> QED
    BY <1>6, <1>8

LEMMA LayoutBack ==
    ASSUME NEW s, Len(s) \in Nat, NEW i \in Places(s), NEW t, Len(t) \in Nat,
           NEW p \in Places(t), NEW source, NEW read, NEW layout, IsSeq(layout),
           \A item \in Fields(layout) : Returns(s, source, t, read, item),
           NEW r, r = ReadLayout(source, layout, i), r.error = "none", Holds(t, p, r.wire)
    PROVE  ReadLayout(read, layout, p) = Got(r.value, r.wire, p + Len(r.wire))
  <1> DEFINE items == ItemsOf(layout)
             all == ReadAll(source, items, i)
             back == ReadAll(read, items, p)
             got == Got(ByName(layout, Values(back.value)), back.wire, back.next)
  <1>1. /\ all.error = "none" /\ r.value = ByName(layout, Values(all.value))
        /\ r.wire = all.wire /\ r.next = all.next
    BY LayoutDone
  <1>2. ReadLayout(read, layout, p) = IF back.error # "none" THEN back ELSE got
    BY DEF ReadLayout, Then
  <1>3. /\ Len(items) = Len(layout) /\ Len(items) \in Nat
        /\ \A k \in 1..Len(items) : items[k] \in Fields(layout)
    <2>1. DOMAIN layout = 1..Len(layout) /\ Len(layout) \in Nat
      BY SeqFacts
    <2>2. IsSeq(items) /\ Len(items) = Len(layout)
      <3>1. items = [k \in 1..Len(layout) |-> layout[k][2]]
        BY <2>1 DEF ItemsOf
      <3> DEFINE n == Len(layout)
      <3>2. items = [k \in 1..n |-> items[k]]
        BY <3>1
      <3> HIDE DEF items, n
      <3>3. n \in Nat
        BY <2>1 DEF n
      <3> QED
        BY <3>2, <3>3, FunctionIsSeq DEF n
    <2>3. \A k \in 1..Len(layout) : items[k] = layout[k][2]
      BY <2>1 DEF ItemsOf
    <2>4. \A k \in 1..Len(layout) : layout[k][2] \in Fields(layout)
      BY <2>1 DEF Fields
    <2> HIDE DEF items
    <2> QED
      BY <2>1, <2>2, <2>3, <2>4
  <1> HIDE DEF items
  <1>4. \A k \in 1..Len(items) : Returns(s, source, t, read, items[k])
    BY <1>3
  <1>5. Again(all, back, p)
    <2> DEFINE result == all
    <2>1. result = ReadAll(source, items, i)
      OBVIOUS
    <2>2. result.error = "none" /\ Holds(t, p, result.wire)
      BY <1>1
    <2> HIDE DEF result
    <2> QED
      BY <1>3, <1>4, <2>1, <2>2, ItemsBack
  <1> HIDE DEF all, back, got
  <1>6. /\ back.error = "none" /\ Values(back.value) = Values(all.value)
        /\ back.wire = all.wire /\ back.next = p + Len(all.wire)
    BY <1>5 DEF Again
  <1>7. ReadLayout(read, layout, p) = got
    BY <1>2, <1>6
  <1>8. got = Got(r.value, r.wire, p + Len(r.wire))
    BY <1>1, <1>6 DEF got
  <1> QED
    BY <1>7, <1>8

LEMMA ItemsWire ==
    ASSUME NEW s, Len(s) \in Nat, NEW i \in Places(s), NEW t, NEW source, NEW read,
           NEW items, Len(items) \in Nat,
           \A k \in 1..Len(items) : Returns(s, source, t, read, items[k]),
           NEW all, all = ReadAll(source, items, i), all.error = "none"
    PROVE  IsSeq(all.wire)
  <1>1. i \in Nat /\ i..(Len(s) + 1) \subseteq Places(s)
    BY DEF Places
  <1>2. "none" \notin NetRaises
    BY DEF NetRaises, Basic
  <1>3. \A k \in 1..Len(items) : \A q \in i..(Len(s) + 1) :
          Result(s, q, source[<<items[k], q>>], NetRaises, {})
    BY <1>1 DEF Returns
  <1>4. AllResult(s, source, items, i, all, Len(items), NetRaises, {})
    BY <1>2, <1>3, ReadAllResult
  <1>5. Result(s, i, all, NetRaises, {})
    BY <1>4 DEF AllResult
  <1> QED
    BY <1>2, <1>5, ResultError DEF Writes

LEMMA Copies ==
    ASSUME NEW x, NEW n \in Int, NEW c, c = [k \in 1..n |-> x]
    PROVE  /\ Len(c) \in Nat /\ [k \in 1..Len(c) |-> x] = c
           /\ \A k \in 1..Len(c) : c[k] = x
  <1> DEFINE m == IF n < 0 THEN 0 ELSE n
  <1>1. m \in Nat /\ 1..n = 1..m
    OBVIOUS
  <1> HIDE DEF m
  <1>2. c = [k \in 1..m |-> x]
    BY <1>1
  <1>3. c = [k \in 1..m |-> c[k]]
    BY <1>2
  <1>4. Len(c) = m
    BY <1>1, <1>3, FunctionIsSeq
  <1> QED
    BY <1>1, <1>2, <1>4

LEMMA ManyBack ==
    ASSUME NEW s, IsStream(s), NEW i \in Places(s), NEW t, Len(t) \in Nat,
           NEW p \in Places(t), NEW source, NEW read, NEW item, item.code \in Integers_,
           Returns(s, source, t, read, item.item),
           NEW r, r = ReadMany(source, item, s, i), r.error = "none", Holds(t, p, r.wire)
    PROVE  ReadMany(read, item, t, p) = Got(r.value, r.wire, p + Len(r.wire))
  <1> DEFINE count == Take(item.code, s, i)
             items == [k \in 1..count.value |-> item.item]
             all == ReadAll(source, items, count.next)
             number == Len(all.value)
             w == << <<item.code, number>> >>
  <1>1. /\ count.error = "none" /\ all.error = "none" /\ r.value = Values(all.value)
        /\ r.wire = w \o all.wire /\ r.next = all.next
    <2>1. IsMany(source, item, s, i, r)
      BY ManyDone
    <2> QED
      BY <2>1 DEF IsMany
  <1>2. Len(s) \in Nat /\ \A k \in 1..Len(s) : IsToken(s[k])
    BY StreamFacts
  <1>3. /\ i \in 1..Len(s) /\ s[i][1] = item.code /\ count.next \in Places(s)
        /\ count.value = s[i][2]
    BY <1>1, <1>2, TakeRead
  <1> HIDE DEF count
  <1>4. count.value \in Int
    BY <1>2, <1>3 DEF IsToken
  <1>5. /\ Len(items) \in Nat /\ [k \in 1..Len(items) |-> item.item] = items
        /\ \A k \in 1..Len(items) : items[k] = item.item
    <2> DEFINE n == count.value
               part == item.item
               c == [k \in 1..n |-> part]
    <2>1. n \in Int
      BY <1>4
    <2> HIDE DEF n, part
    <2>2. Len(c) \in Nat /\ [k \in 1..Len(c) |-> part] = c /\ \A k \in 1..Len(c) : c[k] = part
      BY <2>1, Copies
    <2> QED
      BY <2>2 DEF n, part
  <1> HIDE DEF items
  <1>6. \A k \in 1..Len(items) : Returns(s, source, t, read, items[k])
    BY <1>5
  <1>7. IsSeq(all.wire)
    <2> DEFINE result == all
    <2>1. result = ReadAll(source, items, count.next) /\ result.error = "none"
      BY <1>1
    <2> HIDE DEF result
    <2>2. IsSeq(result.wire)
      BY <1>2, <1>3, <1>5, <1>6, <2>1, ItemsWire
    <2> QED
      BY <2>2 DEF result
  <1>8. IsSeq(w) /\ Len(w) = 1
    <2> DEFINE token == <<item.code, number>>
    <2> HIDE DEF token
    <2>1. IsSeq(<<token>>) /\ Len(<<token>>) = 1
      BY Single
    <2> QED
      BY <2>1 DEF token
  <1> DEFINE q == p + 1
             after == all.wire
  <1>9. Holds(t, p, w) /\ q \in Places(t) /\ Holds(t, q, after) /\ p + Len(r.wire) = q + Len(after)
    <2> DEFINE whole == r.wire
    <2>1. whole = w \o after /\ Holds(t, p, whole) /\ IsSeq(after)
      BY <1>1, <1>7
    <2> HIDE DEF w, after, whole, q
    <2>2. /\ Holds(t, p, w) /\ p + Len(w) \in Places(t)
      BY <1>8, <2>1, HeldTwice
    <2>3. Holds(t, p + Len(w), after)
      BY <1>8, <2>1, HeldTwice
    <2>4. p + Len(whole) = (p + Len(w)) + Len(after)
      <3>1. Len(whole) = Len(w) + Len(after)
        <4>1. IsSeq(w)
          BY <1>8
        <4> QED
          BY <2>1, <4>1, Concat
      <3>2. Len(after) \in Nat /\ p \in Nat
        BY <2>1, SeqFacts DEF Places
      <3> QED
        BY <1>8, <3>1, <3>2
    <2>5. p + Len(w) = q
      BY <1>8 DEF q
    <2> QED
      BY <2>2, <2>3, <2>4, <2>5 DEF whole
  <1>10. Again(all, ReadAll(read, items, q), q) /\ Len(all.value) = Len(items)
    <2> DEFINE result == all
    <2>1. result = ReadAll(source, items, count.next) /\ result.error = "none"
          /\ Holds(t, q, result.wire)
      BY <1>1, <1>9
    <2> HIDE DEF result, q
    <2>2. q \in Places(t) /\ Len(s) \in Nat /\ Len(items) \in Nat /\ count.next \in Places(s)
      BY <1>2, <1>3, <1>5, <1>9
    <2>3. Again(result, ReadAll(read, items, q), q)
      BY <1>6, <2>1, <2>2, ItemsBack
    <2>4. Len(result.value) = Len(items)
      BY <1>6, <2>1, <2>2, <2>3, ItemsBack
    <2> QED
      BY <2>3, <2>4 DEF result
  <1> DEFINE again == Take(item.code, t, p)
             copies == [k \in 1..again.value |-> item.item]
             back == ReadAll(read, copies, again.next)
             wire == << <<item.code, Len(back.value)>> >> \o back.wire
             got == Got(Values(back.value), wire, back.next)
  <1>11. ReadMany(read, item, t, p) =
           IF again.error # "none" THEN again ELSE IF back.error # "none" THEN back ELSE got
    BY DEF ReadMany, Then
  <1>12. again.error = "none" /\ again.value = number /\ again.next = q
    <2> HIDE DEF number
    <2>1. again = Got(number, w, p + 1)
      BY <1>9, TakeBack
    <2> HIDE DEF again, w
    <2> QED
      BY <2>1, GotFacts
  <1> HIDE DEF again, q
  <1>13. copies = items
    BY <1>5, <1>10, <1>12
  <1> HIDE DEF copies
  <1>14. back = ReadAll(read, items, q)
    BY <1>12, <1>13
  <1> HIDE DEF back, all, after
  <1>15. /\ back.error = "none" /\ Values(back.value) = Values(all.value)
         /\ back.wire = all.wire /\ back.next = q + Len(all.wire) /\ Len(back.value) = Len(all.value)
    BY <1>10, <1>14 DEF Again
  <1> HIDE DEF got
  <1>16. ReadMany(read, item, t, p) = got
    BY <1>11, <1>12, <1>15
  <1>17. wire = r.wire
    BY <1>1, <1>15
  <1> HIDE DEF wire
  <1>18. back.next = p + Len(r.wire)
    BY <1>9, <1>15 DEF after
  <1> QED
    BY <1>1, <1>15, <1>16, <1>17, <1>18 DEF got

LEMMA LayoutWire ==
    ASSUME NEW s, Len(s) \in Nat, NEW i \in Places(s), NEW t, NEW source, NEW read,
           NEW layout, IsSeq(layout),
           \A item \in Fields(layout) : Returns(s, source, t, read, item),
           NEW r, r = ReadLayout(source, layout, i), r.error = "none"
    PROVE  IsSeq(r.wire)
  <1>1. i \in Nat /\ i..(Len(s) + 1) \subseteq Places(s)
    BY DEF Places
  <1>2. "none" \notin NetRaises
    BY DEF NetRaises, Basic
  <1>3. \A item \in Fields(layout) : \A q \in i..(Len(s) + 1) :
          Result(s, q, source[<<item, q>>], NetRaises, {})
    BY <1>1 DEF Returns
  <1>4. Result(s, i, r, NetRaises, {})
    BY <1>2, <1>3, LayoutResult
  <1> QED
    BY <1>2, <1>4, ResultError DEF Writes

LEMMA FieldsOfPresent ==
    ASSUME NEW item, item.kind = "flagged", IsSeq(item.fields), NEW flags
    PROVE  IsSeq(Present(item.fields, flags)) /\ Fields(Present(item.fields, flags)) \subseteq Parts(item)
  <1> DEFINE layout == Present(item.fields, flags)
  <1>1. /\ IsSeq(layout) /\ Len(layout) = Len(item.fields)
        /\ \A k \in 1..Len(item.fields) : layout[k][2] \in {item.fields[k][3], Nothing}
    BY PresentFacts
  <1> HIDE DEF layout
  <1>2. DOMAIN layout = 1..Len(item.fields)
    BY <1>1, SeqFacts
  <1>3. Nothing \in Parts(item) /\ \A k \in 1..Len(item.fields) : item.fields[k][3] \in Parts(item)
    BY FlaggedParts
  <1>4. \A k \in 1..Len(item.fields) : layout[k][2] \in Parts(item)
    BY <1>1, <1>3
  <1>5. Fields(layout) \subseteq Parts(item)
    BY <1>2, <1>4 DEF Fields
  <1> QED
    BY <1>1, <1>5 DEF layout

LEMMA FlaggedBack ==
    ASSUME NEW s, Len(s) \in Nat, NEW i \in Places(s), NEW t, Len(t) \in Nat,
           NEW p \in Places(t), NEW source, NEW read, NEW item, item.kind = "flagged",
           IsSeq(item.fields), item.code \notin Failures,
           \A part \in Parts(item) : Returns(s, source, t, read, part),
           NEW r, r = ReadFlagged(source, item, s, i), r.error = "none", Holds(t, p, r.wire)
    PROVE  ReadFlagged(read, item, t, p) = Got(r.value, r.wire, p + Len(r.wire))
  <1> DEFINE flags == ReadFlags(item, s, i)
             layout == Present(item.fields, flags.value)
             v == ReadLayout(source, layout, flags.next)
  <1>1. /\ flags.error = "none" /\ v.error = "none"
        /\ r.value = [flags |-> flags.value, fields |-> v.value]
        /\ r.wire = flags.wire \o v.wire
    <2>1. IsFlagged(source, item, s, i, r)
      BY FlaggedDone
    <2> QED
      BY <2>1 DEF IsFlagged
  <1>2. flags.next \in Places(s) /\ flags.wire = << <<item.code, flags.value>> >>
    BY <1>1, FlagsResult
  <1>3. IsSeq(layout) /\ \A part \in Fields(layout) : Returns(s, source, t, read, part)
    BY FieldsOfPresent
  <1> DEFINE first == flags.wire
             rest == v.wire
             q == p + 1
  <1>4. IsSeq(first) /\ Len(first) = 1
    <2> DEFINE token == <<item.code, flags.value>>
    <2> HIDE DEF token
    <2>1. IsSeq(<<token>>) /\ Len(<<token>>) = 1
      BY Single
    <2> QED
      BY <1>2, <2>1 DEF token
  <1>5. flags = ReadFlags(item, s, i)
    OBVIOUS
  <1> HIDE DEF flags, layout
  <1>6. v = ReadLayout(source, layout, flags.next)
    OBVIOUS
  <1> HIDE DEF v
  <1>7. IsSeq(rest)
    BY <1>1, <1>2, <1>3, <1>6, LayoutWire
  <1>8. Holds(t, p, first) /\ q \in Places(t) /\ Holds(t, q, rest) /\ p + Len(r.wire) = q + Len(rest)
    <2> DEFINE whole == r.wire
    <2>1. whole = first \o rest /\ Holds(t, p, whole) /\ IsSeq(rest) /\ IsSeq(first)
      BY <1>1, <1>4, <1>7
    <2> HIDE DEF first, rest, whole, q
    <2>2. /\ Holds(t, p, first) /\ p + Len(first) \in Places(t)
      BY <2>1, HeldTwice
    <2>3. Holds(t, p + Len(first), rest)
      BY <2>1, HeldTwice
    <2>4. p + Len(whole) = (p + Len(first)) + Len(rest)
      <3>1. Len(whole) = Len(first) + Len(rest)
        BY <2>1, Concat
      <3>2. Len(rest) \in Nat /\ p \in Nat
        BY <2>1, SeqFacts DEF Places
      <3> QED
        BY <1>4, <3>1, <3>2
    <2>5. p + Len(first) = q
      BY <1>4 DEF q
    <2> QED
      BY <2>2, <2>3, <2>4, <2>5 DEF whole
  <1> DEFINE again == ReadFlags(item, t, p)
             copy == Present(item.fields, again.value)
             back == ReadLayout(read, copy, again.next)
             value == [flags |-> again.value, fields |-> back.value]
             wire == again.wire \o back.wire
             got == Got(value, wire, back.next)
  <1>9. ReadFlagged(read, item, t, p) =
           IF again.error # "none" THEN again ELSE IF back.error # "none" THEN back ELSE got
    BY DEF ReadFlagged, Then
  <1>10. again.error = "none" /\ again.value = flags.value /\ again.wire = flags.wire /\ again.next = q
    <2> DEFINE as == Got(flags.value, flags.wire, q)
    <2>1. again = as
      BY <1>1, <1>5, <1>8, FlagsBack
    <2>2. as.error = "none" /\ as.value = flags.value /\ as.wire = flags.wire /\ as.next = q
      BY GotFacts
    <2> HIDE DEF again, as, q
    <2> QED
      BY <2>1, <2>2
  <1> HIDE DEF again, q
  <1>11. copy = layout
    BY <1>10 DEF layout
  <1> HIDE DEF copy
  <1>12. back = ReadLayout(read, layout, q)
    BY <1>10, <1>11
  <1> HIDE DEF back, rest
  <1>13. back.error = "none" /\ back.value = v.value /\ back.wire = v.wire /\ back.next = q + Len(v.wire)
    <2> DEFINE as == Got(v.value, v.wire, q + Len(v.wire))
             j == flags.next
    <2>1. /\ j \in Places(s) /\ q \in Places(t) /\ v = ReadLayout(source, layout, j)
          /\ v.error = "none" /\ Holds(t, q, v.wire) /\ IsSeq(layout)
      BY <1>1, <1>2, <1>3, <1>6, <1>8 DEF rest
    <2>2. as.error = "none" /\ as.value = v.value /\ as.wire = v.wire /\ as.next = q + Len(v.wire)
      BY GotFacts
    <2> HIDE DEF j
    <2>3. back = as
      BY <1>3, <1>12, <2>1, LayoutBack
    <2> HIDE DEF as
    <2> QED
      BY <2>2, <2>3
  <1> HIDE DEF got
  <1>14. ReadFlagged(read, item, t, p) = got
    BY <1>9, <1>10, <1>13
  <1>15. value = r.value /\ wire = r.wire /\ back.next = p + Len(r.wire)
    BY <1>1, <1>8, <1>10, <1>13 DEF rest
  <1> HIDE DEF value, wire
  <1> QED
    BY <1>14, <1>15 DEF got

LEMMA ReadItemAs ==
    ASSUME NEW read, NEW item, NEW s, NEW p
    PROVE  /\ item.kind = "legal" =>
                ReadItem(read, item, s, p) = Only(Take(item.code, s, p), item.legal)
           /\ item.kind = "bool" => ReadItem(read, item, s, p) = ReadBool(s, p)
           /\ item.kind = "safe" => ReadItem(read, item, s, p) = read_safe_string(s, p)
           /\ item.kind = "bits" => ReadItem(read, item, s, p) = read_bit_vector(s, p)
  BY DEF ReadItem

\* The items that are read back wherever they are.
Plain ==
    {item \in NetItems :
       item.kind \notin {"rest", "time", "delivery", "stream"} /\ item # NetMessageHeader}

LEMMA PlainFacts ==
    ASSUME NEW item \in Plain
    PROVE  /\ item \in NetItems /\ item \in Items /\ Rank[item] \in 1..MaxRank
           /\ item.kind \in {"number", "legal", "except", "bool", "true", "safe", "bits", "many",
                             "group", "flagged"}
           /\ \A part \in Parts(item) : part \in Plain /\ Rank[part] < Rank[item] /\ Rank[part] \in Nat
           /\ item.kind = "many" => item.code \in Integers_ /\ item.item \in Parts(item)
           /\ item.kind = "group" => IsSeq(item.layout) /\ Fields(item.layout) \subseteq Parts(item)
           /\ item.kind = "flagged" => IsSeq(item.fields) /\ item.code \notin Failures
  <1>1. /\ item \in NetItems /\ item # NetMessageHeader
        /\ item.kind \notin {"rest", "time", "delivery", "stream"}
    BY DEF Plain
  <1>2. /\ item \in Items /\ item.kind \notin {"choice", "creatable", "variable"}
        /\ \A part \in Parts(item) :
             /\ part \in NetItems /\ part.kind \notin {"rest", "delivery", "stream"}
             /\ part.kind = "time" => item = NetMessageHeader
             /\ part # NetMessageHeader /\ Rank[part] < Rank[item] /\ Rank[part] \in Nat
        /\ Rank[item] \in 1..MaxRank
    BY <1>1, NetItemFacts
  <1>3. \A part \in Parts(item) : part \in Plain
    BY <1>1, <1>2 DEF Plain
  <1>4. item.kind \in LeafKinds \cup {"choice", "many", "group", "flagged", "creatable", "variable"}
    BY <1>2, ItemFacts
  <1>5. item.kind \in {"number", "legal", "except", "bool", "true", "safe", "bits", "many",
                       "group", "flagged"}
    BY <1>1, <1>2, <1>4 DEF LeafKinds
  <1>6. item.kind = "many" => item.code \in Integers_ /\ item.item \in Parts(item)
    BY <1>2, ItemFacts, PartsFacts
  <1>7. item.kind = "group" => IsSeq(item.layout) /\ Fields(item.layout) \subseteq Parts(item)
    <2>1. item.kind = "group" => item.layout \in LayoutsOf(item)
      BY PartsFacts
    <2>2. \A layout \in LayoutsOf(item) : IsSeq(layout)
      BY <1>2, ItemFacts
    <2>3. \A layout \in LayoutsOf(item) : Fields(layout) \subseteq Parts(item)
      BY PartsFacts
    <2> QED
      BY <2>1, <2>2, <2>3
  <1>8. item.kind = "flagged" => IsSeq(item.fields) /\ item.code \notin Failures
    BY <1>2, ItemFacts
  <1> QED
    BY <1>1, <1>2, <1>3, <1>5, <1>6, <1>7, <1>8

LEMMA ItemBack ==
    ASSUME NEW s, IsStream(s), NEW i \in Places(s), NEW t, Len(t) \in Nat,
           NEW p \in Places(t), NEW source, NEW read, NEW item \in Plain,
           \A part \in Parts(item) : Returns(s, source, t, read, part),
           NEW r, r = ReadItem(source, item, s, i), r.error = "none", Holds(t, p, r.wire)
    PROVE  ReadItem(read, item, t, p) = Got(r.value, r.wire, p + Len(r.wire))
  <1> DEFINE back == ReadItem(read, item, t, p)
             got == Got(r.value, r.wire, p + Len(r.wire))
  <1>0. Len(s) \in Nat
    BY StreamFacts
  <1>1. CASE item.kind = "number"
    <2>1. r = Take(item.code, s, i) /\ back = Take(item.code, t, p)
      BY <1>1, ReadItemOf
    <2> HIDE DEF back
    <2> QED
      BY <1>0, <2>1, TakenBack DEF back
  <1>2. CASE item.kind = "legal"
    <2>1. r = Only(Take(item.code, s, i), item.legal)
          /\ back = Only(Take(item.code, t, p), item.legal)
      BY <1>2, ReadItemAs
    <2> HIDE DEF back
    <2> QED
      BY <1>0, <2>1, OnlyBack DEF back
  <1>3. CASE item.kind = "except"
    <2> DEFINE S == {item.illegal}
    <2>1. r = Without(Take(item.code, s, i), S) /\ back = Without(Take(item.code, t, p), S)
      <3>1. ReadItem(source, item, s, i) = Without(Take(item.code, s, i), S)
        BY <1>3 DEF ReadItem
      <3>2. ReadItem(read, item, t, p) = Without(Take(item.code, t, p), S)
        BY <1>3 DEF ReadItem
      <3> HIDE DEF S
      <3> QED
        BY <3>1, <3>2
    <2> HIDE DEF back, S
    <2> QED
      BY <1>0, <2>1, OnlyBack DEF back
  <1>4. CASE item.kind = "bool"
    <2>1. r = ReadBool(s, i) /\ back = ReadBool(t, p)
      BY <1>4, ReadItemAs
    <2> HIDE DEF back
    <2> QED
      BY <1>0, <2>1, ReadBoolBack DEF back
  <1>5. CASE item.kind = "true"
    <2> DEFINE b == ReadBool(s, i)
               S == {FALSE}
    <2>1. r = Without(b, S) /\ back = Without(ReadBool(t, p), S)
      <3>1. ReadItem(source, item, s, i) = Without(ReadBool(s, i), S)
        BY <1>5 DEF ReadItem
      <3>2. ReadItem(read, item, t, p) = Without(ReadBool(t, p), S)
        BY <1>5 DEF ReadItem
      <3> HIDE DEF S
      <3> QED
        BY <3>1, <3>2
    <2>2. b = ReadBool(s, i)
      OBVIOUS
    <2> HIDE DEF back, b
    <2>3. b.error = "none" /\ r = b /\ Without(b, {FALSE}).error = "none"
      BY <2>1, OnlyRead
    <2>4. Holds(t, p, b.wire)
      BY <2>3
    <2>5. Without(ReadBool(t, p), {FALSE}) = Got(b.value, b.wire, p + Len(b.wire))
      BY <1>0, <2>2, <2>3, <2>4, ReadBoolBack
    <2> QED
      BY <2>1, <2>3, <2>5 DEF back
  <1>6. CASE item.kind = "safe"
    <2>1. r = read_safe_string(s, i) /\ back = read_safe_string(t, p)
      BY <1>6, ReadItemAs
    <2> HIDE DEF back
    <2> QED
      BY <2>1, SafeBack DEF back
  <1>7. CASE item.kind = "bits"
    <2>1. r = read_bit_vector(s, i) /\ back = read_bit_vector(t, p)
      BY <1>7, ReadItemAs
    <2> HIDE DEF back
    <2> QED
      BY <2>1, BitsBack DEF back
  <1>8. CASE item.kind = "many"
    <2>1. r = ReadMany(source, item, s, i) /\ back = ReadMany(read, item, t, p)
      BY <1>8, ReadItemOf
    <2>2. item.code \in Integers_ /\ Returns(s, source, t, read, item.item)
      BY <1>8, PlainFacts
    <2> HIDE DEF back
    <2> QED
      BY <2>1, <2>2, ManyBack DEF back
  <1>9. CASE item.kind = "group"
    <2>1. r = ReadLayout(source, item.layout, i) /\ back = ReadLayout(read, item.layout, p)
      BY <1>9, ReadItemOf
    <2>2. /\ IsSeq(item.layout)
          /\ \A part \in Fields(item.layout) : Returns(s, source, t, read, part)
      BY <1>9, PlainFacts
    <2> HIDE DEF back
    <2> QED
      BY <1>0, <2>1, <2>2, LayoutBack DEF back
  <1>10. CASE item.kind = "flagged"
    <2>1. r = ReadFlagged(source, item, s, i) /\ back = ReadFlagged(read, item, t, p)
      BY <1>10, ReadItemOf
    <2>2. IsSeq(item.fields) /\ item.code \notin Failures
      BY <1>10, PlainFacts
    <2> HIDE DEF back
    <2> QED
      BY <1>0, <1>10, <2>1, <2>2, FlaggedBack DEF back
  <1>11. item.kind \in {"number", "legal", "except", "bool", "true", "safe", "bits", "many",
                        "group", "flagged"}
    BY PlainFacts
  <1> QED
    BY <1>1, <1>2, <1>3, <1>4, <1>5, <1>6, <1>7, <1>8, <1>9, <1>10, <1>11

\* Whatever of a net message was read at some depth is read back at any depth that
\* is enough for it.
LEMMA NetBack ==
    ASSUME NEW s, IsStream(s), NEW t, Len(t) \in Nat
    PROVE  \A n \in Nat : \A item \in Plain : \A m \in Nat :
             Rank[item] <= m => Returns(s, Readers(s)[n], t, Readers(t)[m], item)
  <1> DEFINE Good(n) ==
               \A item \in Plain : \A m \in Nat :
                 Rank[item] <= m => Returns(s, Readers(s)[n], t, Readers(t)[m], item)
             S == {n \in Nat : Good(n)}
  <1>1. ASSUME NEW n \in Nat, NEW item \in Plain, NEW q \in Places(s)
        PROVE  Result(s, q, Readers(s)[n][<<item, q>>], NetRaises, {})
    <2> DEFINE r == Readers(s)[n][<<item, q>>]
    <2>1. item \in NetItems
      BY PlainFacts
    <2>2. Result(s, q, r, NetErrors(n, item), NeverOf(item))
      BY <2>1, NetResult
    <2>3. NetErrors(n, item) \subseteq NetRaises /\ {} \subseteq NeverOf(item)
      BY DEF NetErrors, NetRaises
    <2>4. q \in Int /\ q <= q /\ Len(s) \in Nat
      BY StreamFacts DEF Places
    <2> HIDE DEF r
    <2>5. Result(s, q, r, NetRaises, {})
      BY <2>2, <2>3, <2>4, ResultMore
    <2> QED
      BY <2>5 DEF r
  <1>2. 0 \in S
    <2>1. ASSUME NEW item \in Plain, NEW m \in Nat
          PROVE  Returns(s, Readers(s)[0], t, Readers(t)[m], item)
      <3>1. ASSUME NEW q \in Places(s) PROVE Readers(s)[0][<<item, q>>].error # "none"
        <4>1. item \in Items
          BY PlainFacts
        <4>2. Readers(s)[0][<<item, q>>] = Raises("RecursionError")
          BY <4>1, ReadersDef
        <4> QED
          BY <4>2, RaisesFacts
      <3> QED
        BY <1>1, <3>1 DEF Returns
    <2> QED
      BY <2>1
  <1>3. ASSUME NEW n \in Nat, n \in S PROVE n + 1 \in S
    <2>1. ASSUME NEW item \in Plain, NEW m \in Nat, Rank[item] <= m
          PROVE  Returns(s, Readers(s)[n + 1], t, Readers(t)[m], item)
      <3> DEFINE d == m - 1
                 source == Readers(s)[n]
                 read == Readers(t)[d]
      <3>1. d \in Nat /\ d + 1 = m /\ item \in Items
        BY <2>1, PlainFacts
      <3>2. \A part \in Parts(item) : part \in Plain /\ Rank[part] <= d
        BY <2>1, <3>1, PlainFacts
      <3> HIDE DEF d
      <3>3. \A part \in Parts(item) : Returns(s, source, t, read, part)
        BY <1>3, <3>1, <3>2
      <3>4. ASSUME NEW q \in Places(s)
            PROVE  /\ Result(s, q, Readers(s)[n + 1][<<item, q>>], NetRaises, {})
                   /\ Readers(s)[n + 1][<<item, q>>] = ReadItem(source, item, s, q)
        <4>1. n + 1 \in Nat
          OBVIOUS
        <4> QED
          BY <1>1, <3>1, <4>1, ReadersDef
      <3>5. \A p \in Places(t) : Readers(t)[m][<<item, p>>] = ReadItem(read, item, t, p)
        BY <3>1, ReadersDef
      <3> DEFINE from == Readers(s)[n + 1]
                 into == Readers(t)[m]
      <3> HIDE DEF source, read, from, into
      <3>6. ASSUME NEW q \in Places(s), NEW r, r = from[<<item, q>>], r.error = "none"
            PROVE  Back(t, into, item, r.value, r.wire)
        <4> SUFFICES ASSUME NEW p \in Places(t), Holds(t, p, r.wire)
                     PROVE  into[<<item, p>>] = Got(r.value, r.wire, p + Len(r.wire))
          BY DEF Back
        <4>1. r = ReadItem(source, item, s, q)
          BY <3>4, <3>6 DEF from
        <4>2. into[<<item, p>>] = ReadItem(read, item, t, p)
          BY <3>5 DEF into
        <4>3. ReadItem(read, item, t, p) = Got(r.value, r.wire, p + Len(r.wire))
          BY <3>3, <3>6, <4>1, ItemBack
        <4> QED
          BY <4>2, <4>3
      <3>7. Returns(s, from, t, into, item)
        BY <3>4, <3>6 DEF Returns, from
      <3> QED
        BY <3>7 DEF from, into
    <2> QED
      BY <2>1
  <1> HIDE DEF S
  <1>4. Nat \subseteq S
    BY <1>2, <1>3, Induction
  <1> QED
    BY <1>4 DEF S

-----------------------------------------------------------------------------
(* The header of a message.                                                *)

LEMMA NoFields ==
    ASSUME NEW known
    PROVE  ByName(<<>>, known) = <<>>
  <1>1. {<<>>[k][1] : k \in DOMAIN <<>>} = {}
    OBVIOUS
  <1> DEFINE e(name) == known[Place(<<>>, name)]
             f == [name \in {} |-> e(name)]
  <1>2. ByName(<<>>, known) = f
    BY <1>1 DEF ByName
  <1> HIDE DEF e
  <1>3. f \in Seq({}) /\ Len(f) = 0
    OBVIOUS
  <1> QED
    BY <1>2, <1>3

LEMMA ConcatTwice ==
    ASSUME NEW u, NEW v, NEW w, IsSeq(u), IsSeq(v), IsSeq(w)
    PROVE  (u \o v) \o w = u \o (v \o w)
  <1>1. PICK A, B, C : u \in Seq(A) /\ v \in Seq(B) /\ w \in Seq(C)
    BY DEF IsSeq
  <1> DEFINE S == A \cup B \cup C
  <1>2. Seq(A) \subseteq Seq(S) /\ Seq(B) \subseteq Seq(S) /\ Seq(C) \subseteq Seq(S)
    BY SeqMonotonic
  <1>3. u \in Seq(S) /\ v \in Seq(S) /\ w \in Seq(S)
    BY <1>1, <1>2
  <1> HIDE DEF S
  <1> QED
    BY <1>3, ConcatAssociative

\* The parts so far and one more.
Longer(a, f, u, g) == IsSeq(g) /\ a \o g = (a \o f) \o u

LEMMA Further ==
    ASSUME NEW a, NEW f, NEW u, IsSeq(a), IsSeq(f), IsSeq(u), NEW g, g = f \o u
    PROVE  Longer(a, f, u, g)
  <1>1. IsSeq(f \o u)
    BY Concat
  <1>2. (a \o f) \o u = a \o (f \o u)
    BY ConcatTwice
  <1> QED
    BY <1>1, <1>2 DEF Longer

\* Six parts after one another.
IsSix(a, w1, w2, w3, w4, w5, w6, f) ==
    IsSeq(f) /\ a \o f = (((((a \o w1) \o w2) \o w3) \o w4) \o w5) \o w6

LEMMA SixParts ==
    ASSUME NEW a, IsSeq(a), NEW w1, NEW w2, NEW w3, NEW w4, NEW w5, NEW w6,
           IsSeq(w1), IsSeq(w2), IsSeq(w3), IsSeq(w4), IsSeq(w5), IsSeq(w6),
           NEW f1, NEW f2, NEW f3, NEW f4, NEW f5, NEW f6,
           f1 = <<>> \o w1, f2 = f1 \o w2, f3 = f2 \o w3, f4 = f3 \o w4, f5 = f4 \o w5,
           f6 = f5 \o w6
    PROVE  IsSix(a, w1, w2, w3, w4, w5, w6, f6)
  <1>1. IsSeq(<<>>) /\ a \o <<>> = a
    <2>1. PICK A : a \in Seq(A)
      BY DEF IsSeq
    <2> QED
      BY <2>1, Empty, ConcatEmptySeq
  <1>2. Longer(a, <<>>, w1, f1)
    BY <1>1, Further
  <1>3. Longer(a, f1, w2, f2)
    <2>1. IsSeq(f1)
      BY <1>2 DEF Longer
    <2> QED
      BY <2>1, Further
  <1>4. Longer(a, f2, w3, f3)
    <2>1. IsSeq(f2)
      BY <1>3 DEF Longer
    <2> QED
      BY <2>1, Further
  <1>5. Longer(a, f3, w4, f4)
    <2>1. IsSeq(f3)
      BY <1>4 DEF Longer
    <2> QED
      BY <2>1, Further
  <1>6. Longer(a, f4, w5, f5)
    <2>1. IsSeq(f4)
      BY <1>5 DEF Longer
    <2> QED
      BY <2>1, Further
  <1>7. Longer(a, f5, w6, f6)
    <2>1. IsSeq(f5)
      BY <1>6 DEF Longer
    <2> QED
      BY <2>1, Further
  <1>8. a \o f2 = (a \o w1) \o w2
    BY <1>1, <1>2, <1>3, Zenon DEF Longer
  <1>9. a \o f4 = (((a \o w1) \o w2) \o w3) \o w4
    BY <1>4, <1>5, <1>8, Zenon DEF Longer
  <1>10. a \o f6 = (((((a \o w1) \o w2) \o w3) \o w4) \o w5) \o w6
    BY <1>6, <1>7, <1>9, Zenon DEF Longer
  <1> QED
    BY <1>7, <1>10 DEF Longer, IsSix

LEMMA Six ==
    ASSUME NEW a, IsSeq(a), NEW w, \A k \in 1..6 : IsSeq(w[k])
    PROVE  \E f : /\ f[0] = <<>> /\ \A k \in 1..6 : f[k] = f[k - 1] \o w[k]
                  /\ IsSeq(f[6])
                  /\ a \o f[6] = (((((a \o w[1]) \o w[2]) \o w[3]) \o w[4]) \o w[5]) \o w[6]
  <1> DEFINE f1 == <<>> \o w[1]
             f2 == f1 \o w[2]
             f3 == f2 \o w[3]
             f4 == f3 \o w[4]
             f5 == f4 \o w[5]
             f6 == f5 \o w[6]
             f == [k \in 0..6 |->
                     IF k = 0 THEN <<>> ELSE IF k = 1 THEN f1 ELSE IF k = 2 THEN f2
                     ELSE IF k = 3 THEN f3 ELSE IF k = 4 THEN f4 ELSE IF k = 5 THEN f5 ELSE f6]
  <1>1. /\ IsSeq(w[1]) /\ IsSeq(w[2]) /\ IsSeq(w[3]) /\ IsSeq(w[4]) /\ IsSeq(w[5]) /\ IsSeq(w[6])
    OBVIOUS
  <1>10. /\ f1 = <<>> \o w[1] /\ f2 = f1 \o w[2] /\ f3 = f2 \o w[3] /\ f4 = f3 \o w[4]
         /\ f5 = f4 \o w[5] /\ f6 = f5 \o w[6]
    BY DEF f1, f2, f3, f4, f5, f6
  <1> HIDE DEF f1, f2, f3, f4, f5, f6
  <1>8. IsSeq(f6) /\ a \o f6 = (((((a \o w[1]) \o w[2]) \o w[3]) \o w[4]) \o w[5]) \o w[6]
    <2>1. IsSix(a, w[1], w[2], w[3], w[4], w[5], w[6], f6)
      BY <1>1, <1>10, SixParts
    <2> QED
      BY <2>1 DEF IsSix
  <1>9. f[0] = <<>> /\ f[1] = f1 /\ f[2] = f2 /\ f[3] = f3 /\ f[4] = f4 /\ f[5] = f5 /\ f[6] = f6
    OBVIOUS
  <1> HIDE DEF f
  <1>11. ASSUME NEW k \in 1..6 PROVE f[k] = f[k - 1] \o w[k]
    <2>1. k = 1 \/ k = 2 \/ k = 3 \/ k = 4 \/ k = 5 \/ k = 6
      OBVIOUS
    <2>2. CASE k = 1
      <3>1. k - 1 = 0
        BY <2>2
      <3>2. f[1] = f1 /\ f[0] = <<>>
        BY <1>9
      <3> QED
        BY <1>10, <2>2, <3>1, <3>2
    <2>3. CASE k = 2
      <3>1. k - 1 = 1
        BY <2>3
      <3>2. f[2] = f2 /\ f[1] = f1
        BY <1>9
      <3> QED
        BY <1>10, <2>3, <3>1, <3>2
    <2>4. CASE k = 3
      <3>1. k - 1 = 2
        BY <2>4
      <3>2. f[3] = f3 /\ f[2] = f2
        BY <1>9
      <3> QED
        BY <1>10, <2>4, <3>1, <3>2
    <2>5. CASE k = 4
      <3>1. k - 1 = 3
        BY <2>5
      <3>2. f[4] = f4 /\ f[3] = f3
        BY <1>9
      <3> QED
        BY <1>10, <2>5, <3>1, <3>2
    <2>6. CASE k = 5
      <3>1. k - 1 = 4
        BY <2>6
      <3>2. f[5] = f5 /\ f[4] = f4
        BY <1>9
      <3> QED
        BY <1>10, <2>6, <3>1, <3>2
    <2>7. CASE k = 6
      <3>1. k - 1 = 5
        BY <2>7
      <3>2. f[6] = f6 /\ f[5] = f5
        BY <1>9
      <3> QED
        BY <1>10, <2>7, <3>1, <3>2
    <2> QED
      BY <2>1, <2>2, <2>3, <2>4, <2>5, <2>6, <2>7
  <1> QED
    BY <1>8, <1>9, <1>11

-----------------------------------------------------------------------------
LEMMA NothingRead ==
    ASSUME NEW read, NEW p
    PROVE  ReadLayout(read, <<>>, p) = Got(<<>>, <<>>, p)
  <1>1. ItemsOf(<<>>) = <<>> /\ Len(ItemsOf(<<>>)) = 0
    BY DEF ItemsOf
  <1> DEFINE all == ReadAll(read, ItemsOf(<<>>), p)
  <1>2. all = Got(<<>>, <<>>, p)
    BY <1>1, FirstIs, FirstDef
  <1>3. all.error = "none" /\ all.value = <<>> /\ all.wire = <<>> /\ all.next = p
    BY <1>2, GotFacts
  <1> HIDE DEF all
  <1>4. ReadLayout(read, <<>>, p) = Got(ByName(<<>>, Values(all.value)), all.wire, all.next)
    BY <1>3 DEF ReadLayout, Then, all
  <1> QED
    BY <1>3, <1>4, NoFields

LEMMA NothingBack ==
    ASSUME NEW t, Len(t) \in Nat, NEW n \in Nat, NEW m, m = n + 1
    PROVE  Back(t, Readers(t)[m], Nothing, <<>>, <<>>)
  <1>1. Nothing \in Items /\ Nothing.kind = "group" /\ Nothing.layout = <<>>
    BY ItemsAssumption DEF ItemsAssumption, Nothing, Group, Items
  <1>2. ASSUME NEW p \in Places(t)
        PROVE  Readers(t)[m][<<Nothing, p>>] = Got(<<>>, <<>>, p + Len(<<>>))
    <2>1. Readers(t)[n + 1][<<Nothing, p>>] = ReadItem(Readers(t)[n], Nothing, t, p)
      BY <1>1, ReadersDef
    <2>2. ReadItem(Readers(t)[n], Nothing, t, p) = ReadLayout(Readers(t)[n], Nothing.layout, p)
      BY <1>1, ReadItemOf
    <2>3. p + Len(<<>>) = p
      BY DEF Places
    <2> QED
      BY <1>1, <2>1, <2>2, <2>3, NothingRead
  <1> QED
    BY <1>2 DEF Back

LEMMA NumberBack ==
    ASSUME NEW t, Len(t) \in Nat, NEW n \in Nat, NEW m, m = n + 1,
           NEW item \in Items, item.kind = "number", NEW code, code = item.code, NEW v,
           NEW w, w = << <<code, v>> >>
    PROVE  Back(t, Readers(t)[m], item, v, w) /\ IsSeq(w)
  <1>1. ASSUME NEW p \in Places(t), Holds(t, p, w)
        PROVE  Readers(t)[m][<<item, p>>] = Got(v, w, p + Len(w))
    <2>1. Readers(t)[n + 1][<<item, p>>] = ReadItem(Readers(t)[n], item, t, p)
      BY ReadersDef
    <2>2. ReadItem(Readers(t)[n], item, t, p) = Take(code, t, p)
      BY ReadItemOf
    <2>3. Take(code, t, p) = Got(v, << <<code, v>> >>, p + 1)
      BY <1>1, TakeBack
    <2>4. Len(w) = 1
      BY Single
    <2> QED
      BY <2>1, <2>2, <2>3, <2>4
  <1>2. IsSeq(w)
    BY Single
  <1> QED
    BY <1>1, <1>2 DEF Back

LEMMA TimeItemBack ==
    ASSUME NEW t, Len(t) \in Nat, NEW n \in Nat, NEW m, m = n + 1,
           NEW item \in Items, item.kind = "time",
           NEW time \in Nat \X (0..(Second - 1)), time[1] < Eternity,
           NEW w, w = WriteTime(time)
    PROVE  Back(t, Readers(t)[m], item, time, w) /\ IsSeq(w)
  <1>1. w = << <<"time", time>> >>
    BY DEF WriteTime
  <1>2. IsSeq(w) /\ Len(w) = 1
    BY <1>1, Single
  <1>3. ASSUME NEW p \in Places(t), Holds(t, p, w)
        PROVE  Readers(t)[m][<<item, p>>] = Got(time, w, p + Len(w))
    <2>1. Readers(t)[n + 1][<<item, p>>] = ReadItem(Readers(t)[n], item, t, p)
      BY ReadersDef
    <2>2. ReadItem(Readers(t)[n], item, t, p) = read_unified_time(t, p)
      BY DEF ReadItem
    <2>3. read_unified_time(t, p) = Got(time, w, p + 1)
      BY <1>1, <1>3, TimeBack
    <2> QED
      BY <1>2, <2>1, <2>2, <2>3
  <1> QED
    BY <1>2, <1>3 DEF Back

-----------------------------------------------------------------------------
(* The header of a message.                                                *)

\* Two parts that are in the stream, after one another.
Apart(t, p, u, v, w) ==
    /\ Holds(t, p, u) /\ p + Len(u) \in Places(t)
    /\ Holds(t, p + Len(u), v) /\ Len(w) = Len(u) + Len(v) /\ IsSeq(w)
    /\ p + Len(w) = (p + Len(u)) + Len(v)

LEMMA HeldApart ==
    ASSUME NEW t, Len(t) \in Nat, NEW p \in Places(t), NEW u, NEW v, IsSeq(u), IsSeq(v),
           NEW w, w = u \o v, Holds(t, p, w)
    PROVE  Apart(t, p, u, v, w)
  <1>1. Holds(t, p, u \o v)
    OBVIOUS
  <1>2. /\ Holds(t, p, u) /\ p + Len(u) \in Places(t)
        /\ Holds(t, p + Len(u), v) /\ Len(u \o v) = Len(u) + Len(v)
    BY <1>1, HoldsTwice
  <1>3. Len(u) \in Nat /\ Len(v) \in Nat
    BY SeqFacts
  <1>4. Len(w) = Len(u) + Len(v) /\ p + Len(w) = (p + Len(u)) + Len(v)
    BY <1>2, <1>3 DEF Places
  <1>5. IsSeq(w)
    BY DEF Holds
  <1> QED
    BY <1>2, <1>4, <1>5 DEF Apart

\* A header that was read: what its flags say isn't there is <<>>.
IsHeader(h) ==
    /\ h = [flags |-> h.flags, fields |-> h.fields]
    /\ h.fields = [name \in HeaderFields |-> h.fields[name]]
    /\ \A k \in 1..6 : HeaderItems[k][1] \notin h.flags => h.fields[HeaderItems[k][2]] = <<>>

HasNow(h) == "has_time_sent" \in h.flags /\ h.fields.time_sent = Now

LEMMA StampedFacts ==
    ASSUME NEW h, IsHeader(h), NEW H, H = Stamped(h)
    PROVE  IsHeader(H) /\ HasNow(H)
  <1>1. /\ H = [flags |-> H.flags, fields |-> H.fields]
        /\ H.flags = h.flags \cup {"has_time_sent"}
        /\ H.fields = [h.fields EXCEPT !.time_sent = Now]
    BY DEF Stamped
  <1>2. h.fields = [name \in HeaderFields |-> h.fields[name]]
    BY DEF IsHeader
  <1>3. /\ H.fields = [name \in HeaderFields |-> H.fields[name]]
        /\ H.fields.time_sent = Now
        /\ \A name \in HeaderFields : name # "time_sent" => H.fields[name] = h.fields[name]
    BY <1>1, <1>2 DEF HeaderFields
  <1>4. ASSUME NEW k \in 1..6, HeaderItems[k][1] \notin H.flags
        PROVE  H.fields[HeaderItems[k][2]] = <<>>
    <2>1. HeaderItems[k][1] \notin h.flags /\ HeaderItems[k][1] # "has_time_sent"
      BY <1>1, <1>4
    <2>2. HeaderItems[k][2] \in HeaderFields /\ HeaderItems[k][2] # "time_sent"
      <3>1. k = 1 \/ k = 2 \/ k = 3 \/ k = 4 \/ k = 5 \/ k = 6
        OBVIOUS
      <3> QED
        BY <2>1, <3>1, HeaderItemsFacts DEF HeaderFields
    <2>3. h.fields[HeaderItems[k][2]] = <<>>
      BY <2>1 DEF IsHeader
    <2> QED
      BY <1>3, <2>2, <2>3
  <1>5. HasNow(H)
    BY <1>1, <1>3 DEF HasNow
  <1>6. IsHeader(H)
    BY <1>1, <1>3, <1>4 DEF IsHeader
  <1> QED
    BY <1>5, <1>6

\* What is written of a field of the header.
PartWire(H, k) ==
    IF HeaderItems[k][1] \notin H.flags THEN <<>>
    ELSE IF k = 2 THEN WriteTime(H.fields.time_sent)
    ELSE << <<HeaderItems[k][3].code, H.fields[HeaderItems[k][2]]>> >>

PartValue(H, k) == H.fields[HeaderItems[k][2]]

AllParts(H) ==
    (((((<< <<"flags32", H.flags>> >> \o PartWire(H, 1)) \o PartWire(H, 2))
       \o PartWire(H, 3)) \o PartWire(H, 4)) \o PartWire(H, 5)) \o PartWire(H, 6)

LEMMA PartWires ==
    ASSUME NEW H, HasNow(H)
    PROVE  /\ WriteHeader(H) = AllParts(H)
           /\ \A k \in 1..6 : IsSeq(PartWire(H, k))
  <1>1. PartWire(H, 1) = IF "has_version" \in H.flags
                         THEN << <<"u16", H.fields["protocol_version"]>> >> ELSE <<>>
    BY HeaderItemsFacts DEF PartWire, U16, Number
  <1>2. PartWire(H, 2) = IF "has_time_sent" \in H.flags
                         THEN WriteTime(H.fields.time_sent) ELSE <<>>
    BY HeaderItemsFacts DEF PartWire
  <1>3. PartWire(H, 3) = IF "has_context" \in H.flags
                         THEN << <<"u32", H.fields["context"]>> >> ELSE <<>>
    BY HeaderItemsFacts DEF PartWire, U32, Number
  <1>4. PartWire(H, 4) = IF "has_transaction_id" \in H.flags
                         THEN << <<"u32", H.fields["trans_id"]>> >> ELSE <<>>
    BY HeaderItemsFacts DEF PartWire, U32, Number
  <1>5. PartWire(H, 5) = IF "has_player_id" \in H.flags
                         THEN << <<"u32", H.fields["ki_number"]>> >> ELSE <<>>
    BY HeaderItemsFacts DEF PartWire, U32, Number
  <1>6. PartWire(H, 6) = IF "has_account_uuid" \in H.flags
                         THEN << <<"uuid", H.fields["account_uuid"]>> >> ELSE <<>>
    BY HeaderItemsFacts DEF PartWire, Number
  <1>7. WriteHeader(H) = AllParts(H)
    BY <1>1, <1>2, <1>3, <1>4, <1>5, <1>6 DEF WriteHeader, AllParts
  <1>8. ASSUME NEW k \in 1..6
        PROVE  IsSeq(PartWire(H, k))
    <2>1. IsSeq(<<>>) /\ IsSeq(<< <<HeaderItems[k][3].code, H.fields[HeaderItems[k][2]]>> >>)
      BY Empty, Single
    <2>2. IsSeq(WriteTime(H.fields.time_sent))
      BY TimeWritten DEF Writes
    <2> QED
      BY <2>1, <2>2 DEF PartWire
  <1> QED
    BY <1>7, <1>8

LEMMA HeaderFlagsBack ==
    ASSUME NEW t, Len(t) \in Nat, NEW p \in Places(t), NEW flags,
           Holds(t, p, << <<"flags32", flags>> >>)
    PROVE  /\ ReadFlags(NetMessageHeader, t, p) = Got(flags, << <<"flags32", flags>> >>, p + 1)
           /\ p + 1 \in Places(t)
  <1> DEFINE w == << <<"flags32", flags>> >>
             v == Take("flags32", t, p)
  <1>1. v = Got(flags, w, p + 1) /\ p + 1 \in Places(t)
    BY TakeBack
  <1>2. NetMessageHeader.code = "flags32" /\ NetMessageHeader.others = "kept"
    BY DEF NetMessageHeader, Flagged
  <1> DEFINE g == Got(flags, w, p + 1)
  <1>3. g.error = "none" /\ g.value = flags /\ g.next = p + 1
    BY GotFacts
  <1> HIDE DEF g
  <1>4. v = g
    BY <1>1 DEF g
  <1> HIDE DEF v, w
  <1>5. ReadFlags(NetMessageHeader, t, p) = Got(flags, << <<"flags32", flags>> >>, p + 1)
    BY <1>2, <1>3, <1>4 DEF ReadFlags, Then, v
  <1> QED
    BY <1>1, <1>5

\* The fields of the header are read back.
LEMMA PartsBack ==
    ASSUME NEW t, Len(t) \in Nat, NEW n \in Nat, NEW m, m = n + 1,
           NEW H, IsHeader(H), HasNow(H), NEW k \in 1..6
    PROVE  Back(t, Readers(t)[m], Present(HeaderItems, H.flags)[k][2],
                PartValue(H, k), PartWire(H, k))
  <1> DEFINE item == Present(HeaderItems, H.flags)[k][2]
  <1>1. /\ HeaderItems[k][1] # Always
        /\ HeaderItems[k][3].kind = IF k = 2 THEN "time" ELSE "number"
    <2>1. k = 1 \/ k = 2 \/ k = 3 \/ k = 4 \/ k = 5 \/ k = 6
      OBVIOUS
    <2> QED
      BY <2>1, HeaderItemsFacts DEF Always, U16, U32, Number, UnifiedTime
  <1>2. item = IF HeaderItems[k][1] \in H.flags THEN HeaderItems[k][3] ELSE Nothing
    BY <1>1, HeaderItemsFacts DEF Present
  <1>3. HeaderItems[k][3] \in Items
    <2>1. NetMessageHeader \in Items /\ NetMessageHeader.kind = "flagged"
      BY ItemsAssumption DEF ItemsAssumption, Items, NetMessageHeader, Flagged
    <2>2. HeaderItems[k][3] \in Parts(NetMessageHeader)
      BY <2>1, HeaderItemsFacts, FlaggedParts DEF HeaderItems
    <2> QED
      BY <2>1, <2>2, ItemFacts
  <1> HIDE DEF item
  <1>4. CASE HeaderItems[k][1] \notin H.flags
    <2>1. item = Nothing /\ PartWire(H, k) = <<>>
      BY <1>2, <1>4 DEF PartWire
    <2>2. PartValue(H, k) = <<>>
      BY <1>4 DEF PartValue, IsHeader
    <2>3. Back(t, Readers(t)[m], Nothing, <<>>, <<>>)
      BY NothingBack
    <2> QED
      BY <2>1, <2>2, <2>3 DEF item
  <1>5. CASE HeaderItems[k][1] \in H.flags /\ k # 2
    <2> DEFINE w == PartWire(H, k)
    <2>1. item = HeaderItems[k][3]
      BY <1>2, <1>5
    <2>2. w = << <<item.code, PartValue(H, k)>> >>
      BY <1>5, <2>1 DEF PartWire, PartValue
    <2>3. item \in Items /\ item.kind = "number"
      BY <1>1, <1>3, <1>5, <2>1
    <2> HIDE DEF w
    <2>4. Back(t, Readers(t)[m], item, PartValue(H, k), w)
      BY <2>2, <2>3, NumberBack
    <2> QED
      BY <2>4 DEF item, w
  <1>6. CASE HeaderItems[k][1] \in H.flags /\ k = 2
    <2>1. item = HeaderItems[k][3] /\ item \in Items /\ item.kind = "time"
      BY <1>1, <1>2, <1>3, <1>6
    <2>2. PartWire(H, k) = WriteTime(Now) /\ PartValue(H, k) = Now
      BY <1>6, HeaderItemsFacts DEF PartWire, PartValue, HasNow
    <2>3. Now \in Nat \X (0..(Second - 1)) /\ Now[1] < Eternity
      BY NowFacts, BuffersAssumption, StreamsAssumption DEF BuffersAssumption, StreamsAssumption
    <2>4. Back(t, Readers(t)[m], item, Now, WriteTime(Now))
      BY <2>1, <2>3, TimeItemBack
    <2> QED
      BY <2>2, <2>4 DEF item
  <1> QED
    BY <1>4, <1>5, <1>6

-----------------------------------------------------------------------------
LEMMA HeaderNames ==
    ASSUME NEW flags, NEW layout, layout = Present(HeaderItems, flags)
    PROVE  /\ IsSeq(layout) /\ Len(layout) = 6 /\ DOMAIN layout = 1..6
           /\ \A k \in 1..6 : layout[k][1] = HeaderItems[k][2] /\ Place(layout, HeaderItems[k][2]) = k
           /\ {layout[k][1] : k \in DOMAIN layout} = HeaderFields
           /\ \A name \in HeaderFields : \E k \in 1..6 : HeaderItems[k][2] = name
  <1>1. IsSeq(layout) /\ Len(layout) = 6 /\ \A k \in 1..6 : layout[k][1] = HeaderItems[k][2]
    BY HeaderItemsFacts, PresentFacts
  <1>2. DOMAIN layout = 1..6
    BY <1>1, SeqFacts
  <1>3. /\ HeaderItems[1][2] = "protocol_version" /\ HeaderItems[2][2] = "time_sent"
        /\ HeaderItems[3][2] = "context" /\ HeaderItems[4][2] = "trans_id"
        /\ HeaderItems[5][2] = "ki_number" /\ HeaderItems[6][2] = "account_uuid"
    BY HeaderItemsFacts
  <1>4. ASSUME NEW k \in 1..6, NEW l \in 1..6, HeaderItems[k][2] = HeaderItems[l][2]
        PROVE  k = l
    <2>1. k = 1 \/ k = 2 \/ k = 3 \/ k = 4 \/ k = 5 \/ k = 6
      OBVIOUS
    <2>2. l = 1 \/ l = 2 \/ l = 3 \/ l = 4 \/ l = 5 \/ l = 6
      OBVIOUS
    <2> QED
      BY <1>3, <1>4, <2>1, <2>2
  <1>5. ASSUME NEW k \in 1..6
        PROVE  Place(layout, HeaderItems[k][2]) = k
    BY <1>1, <1>2, <1>4 DEF Place
  <1>6. \A name \in HeaderFields : \E k \in 1..6 : HeaderItems[k][2] = name
    <2>1. 1 \in 1..6 /\ 2 \in 1..6 /\ 3 \in 1..6 /\ 4 \in 1..6 /\ 5 \in 1..6 /\ 6 \in 1..6
      OBVIOUS
    <2> QED
      BY <1>3, <2>1 DEF HeaderFields
  <1>7. \A k \in 1..6 : HeaderItems[k][2] \in HeaderFields
    <2> TAKE k \in 1..6
    <2>1. k = 1 \/ k = 2 \/ k = 3 \/ k = 4 \/ k = 5 \/ k = 6
      OBVIOUS
    <2> QED
      BY <1>3, <2>1 DEF HeaderFields
  <1>8. {layout[k][1] : k \in DOMAIN layout} = HeaderFields
    BY <1>1, <1>2, <1>6, <1>7
  <1> QED
    BY <1>1, <1>2, <1>5, <1>6, <1>8

LEMMA HeaderValues ==
    ASSUME NEW H, IsHeader(H), NEW u, IsSeq(u), Len(u) = 6,
           \A k \in 1..6 : u[k].value = PartValue(H, k)
    PROVE  ByName(Present(HeaderItems, H.flags), Values(u)) = H.fields
  <1> DEFINE layout == Present(HeaderItems, H.flags)
             f == ByName(layout, Values(u))
  <1>1. DOMAIN u = 1..6
    BY SeqFacts
  <1>2. \A k \in 1..6 : Values(u)[k] = PartValue(H, k)
    BY <1>1 DEF Values
  <1>3. /\ \A k \in 1..6 : Place(layout, HeaderItems[k][2]) = k
        /\ {layout[k][1] : k \in DOMAIN layout} = HeaderFields
        /\ \A name \in HeaderFields : \E k \in 1..6 : HeaderItems[k][2] = name
    BY HeaderNames
  <1>4. f = [name \in HeaderFields |-> Values(u)[Place(layout, name)]]
    BY <1>3 DEF ByName
  <1> HIDE DEF layout, f
  <1>5. ASSUME NEW name \in HeaderFields
        PROVE  Values(u)[Place(layout, name)] = H.fields[name]
    <2>1. PICK k \in 1..6 : HeaderItems[k][2] = name
      BY <1>3
    <2>2. Place(layout, name) = k
      BY <1>3, <2>1
    <2> QED
      BY <1>2, <2>1, <2>2 DEF PartValue
  <1>6. f = [name \in HeaderFields |-> H.fields[name]]
    BY <1>4, <1>5
  <1>7. f = H.fields
    BY <1>6 DEF IsHeader
  <1> QED
    BY <1>7 DEF f, layout

\* What is written of the header of a message is read back.
LEMMA HeaderBack ==
    ASSUME NEW t, Len(t) \in Nat, 2 \in Places(t), NEW H, IsHeader(H), HasNow(H),
           Holds(t, 2, WriteHeader(H))
    PROVE  /\ HeaderOf(t).error = "none" /\ HeaderOf(t).value = H
           /\ HeaderOf(t).next = 2 + Len(WriteHeader(H)) /\ IsSeq(WriteHeader(H))
  <1> DEFINE a == << <<"flags32", H.flags>> >>
             w == [k \in 1..6 |-> PartWire(H, k)]
             layout == Present(HeaderItems, H.flags)
             items == ItemsOf(layout)
             read == Readers(t)[Nesting - 1]
             results == [k \in 1..6 |-> Got(PartValue(H, k), PartWire(H, k), 0)]
             whole == WriteHeader(H)
  <1>1. IsSeq(a) /\ Len(a) = 1
    BY Single
  <1>2. \A k \in 1..6 : IsSeq(w[k]) /\ w[k] = PartWire(H, k)
    BY PartWires
  <1>3. whole = (((((a \o w[1]) \o w[2]) \o w[3]) \o w[4]) \o w[5]) \o w[6]
    <2>1. /\ w[1] = PartWire(H, 1) /\ w[2] = PartWire(H, 2) /\ w[3] = PartWire(H, 3)
          /\ w[4] = PartWire(H, 4) /\ w[5] = PartWire(H, 5) /\ w[6] = PartWire(H, 6)
      OBVIOUS
    <2>2. whole = AllParts(H)
      BY PartWires
    <2> HIDE DEF w, whole
    <2> QED
      BY <2>1, <2>2 DEF AllParts
  <1>4. \A k \in 1..6 : results[k].value = PartValue(H, k) /\ results[k].wire = w[k]
    BY GotFacts
  <1>5. Len(items) = 6 /\ \A k \in 1..6 : items[k] = layout[k][2]
    <2>1. DOMAIN layout = 1..6
      BY HeaderNames
    <2>2. items = [k \in 1..6 |-> layout[k][2]]
      BY <2>1 DEF ItemsOf
    <2> QED
      BY <2>2
  <1> HIDE DEF w
  <1>6. PICK f : /\ f[0] = <<>> /\ \A k \in 1..6 : f[k] = f[k - 1] \o w[k]
                 /\ IsSeq(f[6])
                 /\ a \o f[6] = (((((a \o w[1]) \o w[2]) \o w[3]) \o w[4]) \o w[5]) \o w[6]
    BY <1>1, <1>2, Six
  <1> HIDE DEF results
  <1>7. Joins(f, results, 6)
    BY <1>2, <1>4, <1>6 DEF Joins
  <1>8. whole = a \o f[6]
    BY <1>3, <1>6
  <1> HIDE DEF whole, a
  <1>9. /\ Holds(t, 2, a) /\ 2 + Len(a) \in Places(t) /\ Holds(t, 2 + Len(a), f[6])
        /\ 2 + Len(whole) = (2 + Len(a)) + Len(f[6]) /\ IsSeq(whole)
    <2> DEFINE p == 2
    <2>1. p \in Places(t) /\ Len(t) \in Nat /\ Holds(t, p, whole)
      BY DEF whole
    <2>2. IsSeq(a) /\ IsSeq(f[6]) /\ whole = a \o f[6]
      BY <1>1, <1>6, <1>8
    <2> DEFINE g == f[6]
    <2> HIDE DEF p, g
    <2>3. IsSeq(a) /\ IsSeq(g) /\ whole = a \o g
      BY <2>2 DEF g
    <2>4. Apart(t, p, a, g, whole)
      BY <2>1, <2>3, HeldApart
    <2> QED
      BY <2>4 DEF p, g, Apart
  <1>10. 2 + Len(a) = 3 /\ 3 \in Places(t) /\ Holds(t, 3, f[6])
    BY <1>1, <1>9
  <1>11. ASSUME NEW k \in 1..6
         PROVE  Back(t, read, items[k], results[k].value, results[k].wire)
    <2>1. Nesting - 2 \in Nat /\ Nesting - 1 = (Nesting - 2) + 1
      BY StreamsAssumption DEF StreamsAssumption, MaxRank
    <2>2. Back(t, read, layout[k][2], PartValue(H, k), PartWire(H, k))
      BY <2>1, PartsBack
    <2> HIDE DEF read, layout, items
    <2> QED
      BY <1>2, <1>4, <1>5, <2>2
  <1> DEFINE done == ReadAll(read, items, 3)
  <1> HIDE DEF items, read
  <1>12. ReadBack(t, 3, results, f, Len(items), done)
    <2>1. Len(items) \in Nat
      BY <1>5
    <2>2. Joins(f, results, Len(items)) /\ Holds(t, 3, f[Len(items)])
      BY <1>5, <1>7, <1>10
    <2>3. \A k \in 1..Len(items) : Back(t, read, items[k], results[k].value, results[k].wire)
      BY <1>5, <1>11
    <2> QED
      BY <1>10, <2>1, <2>2, <2>3, ReadAllBack
  <1>13. /\ done.error = "none" /\ Same(done.value, results, 6) /\ done.next = 3 + Len(f[6])
    BY <1>5, <1>12 DEF ReadBack
  <1>14. ByName(layout, Values(done.value)) = H.fields
    <2>1. IsSeq(done.value) /\ Len(done.value) = 6
      BY <1>13 DEF Same
    <2>2. \A k \in 1..6 : done.value[k].value = PartValue(H, k)
      BY <1>4, <1>13 DEF Same
    <2> QED
      BY <2>1, <2>2, HeaderValues
  <1> HIDE DEF done, layout
  <1> DEFINE v == ReadLayout(read, layout, 3)
  <1>15. v = Got(H.fields, done.wire, done.next)
    BY <1>13, <1>14 DEF ReadLayout, Then, done, items
  <1> DEFINE g == Got(H.fields, done.wire, done.next)
  <1>16. g.error = "none" /\ g.value = H.fields /\ g.wire = done.wire /\ g.next = done.next
    BY GotFacts
  <1> HIDE DEF g
  <1>17. v.error = "none" /\ v.value = H.fields /\ v.next = done.next
    BY <1>15, <1>16 DEF g
  <1> DEFINE flags == ReadFlags(NetMessageHeader, t, 2)
             h == Got(H.flags, << <<"flags32", H.flags>> >>, 2 + 1)
  <1>18. flags = h
    <2>1. Holds(t, 2, << <<"flags32", H.flags>> >>)
      BY <1>9 DEF a
    <2> QED
      BY <2>1, HeaderFlagsBack
  <1>19. h.error = "none" /\ h.value = H.flags /\ h.next = 2 + 1
    BY GotFacts
  <1> HIDE DEF h
  <1>20. flags.error = "none" /\ flags.value = H.flags /\ flags.next = 3
    BY <1>18, <1>19
  <1> HIDE DEF flags, v
  <1> DEFINE r == ReadFlagged(read, NetMessageHeader, t, 2)
  <1>21. r = Got([flags |-> H.flags, fields |-> H.fields], flags.wire \o v.wire, v.next)
    BY <1>17, <1>20 DEF ReadFlagged, Then, flags, v, layout, HeaderItems
  <1>22. r.error = "none" /\ r.value = [flags |-> H.flags, fields |-> H.fields] /\ r.next = v.next
    BY <1>21, GotFacts
  <1>23. HeaderOf(t) = r
    <2>1. NetMessageHeader \in Items /\ NetMessageHeader.kind = "flagged"
      BY ItemsAssumption DEF ItemsAssumption, Items, NetMessageHeader, Flagged
    <2>2. HeaderOf(t) = ReadItem(read, NetMessageHeader, t, 2)
      BY <2>1, ReaderDef DEF HeaderOf, read
    <2> QED
      BY <2>1, <2>2, ReadItemOf
  <1> HIDE DEF r
  <1>24. r.value = H
    BY <1>22 DEF IsHeader
  <1>25. r.next = 2 + Len(whole)
    BY <1>1, <1>9, <1>13, <1>17, <1>22
  <1> QED
    BY <1>9, <1>22, <1>23, <1>24, <1>25 DEF whole

-----------------------------------------------------------------------------
LEMMA NothingAt ==
    ASSUME NEW s, IsStream(s), NEW n \in Nat, NEW m, m = n + 1, NEW value,
           ReadAt(s, m, Nothing, value)
    PROVE  value = <<>>
  <1>1. Len(s) \in Nat
    BY StreamFacts
  <1>2. PICK p \in Places(s) : Readers(s)[m][<<Nothing, p>>].value = value
    BY DEF ReadAt
  <1>3. Back(s, Readers(s)[m], Nothing, <<>>, <<>>)
    BY <1>1, NothingBack
  <1>4. Holds(s, p, <<>>)
    BY <1>1, Empty DEF Holds, Places
  <1>5. Readers(s)[m][<<Nothing, p>>] = Got(<<>>, <<>>, p + Len(<<>>))
    BY <1>3, <1>4 DEF Back
  <1> QED
    BY <1>2, <1>5, GotFacts

\* The header of a message that was read is one.
LEMMA ReceivedHeader ==
    ASSUME NEW s, IsStream(s), 2 \in Places(s), HeaderOf(s).error = "none",
           NEW h, h = HeaderOf(s).value
    PROVE  IsHeader(h)
  <1> DEFINE flags == ReadFlags(NetMessageHeader, s, 2)
             layout == Present(HeaderItems, flags.value)
             v == ReadLayout(Readers(s)[Nesting - 1], layout, flags.next)
             all == ReadAll(Readers(s)[Nesting - 1], ItemsOf(layout), flags.next)
  <1>1. /\ flags.error = "none" /\ v.error = "none"
        /\ h = [flags |-> flags.value, fields |-> v.value]
    BY HeaderParts
  <1>2. Len(s) \in Nat
    BY StreamFacts
  <1>3. flags.next \in Places(s)
    <2>1. NetMessageHeader.code \notin Failures
      BY DEF NetMessageHeader, Flagged, Failures
    <2> QED
      BY <1>1, <1>2, <2>1, FlagsResult
  <1> DEFINE chosen == flags.value
  <1>4. /\ IsSeq(layout) /\ Len(layout) = 6 /\ DOMAIN layout = 1..6
        /\ \A k \in 1..6 : layout[k][1] = HeaderItems[k][2] /\ Place(layout, HeaderItems[k][2]) = k
        /\ {layout[k][1] : k \in DOMAIN layout} = HeaderFields
    <2>1. layout = Present(HeaderItems, chosen)
      OBVIOUS
    <2> HIDE DEF layout, chosen
    <2> QED
      BY <2>1, HeaderNames
  <1>5. Fields(layout) \subseteq Items
    <2>1. NetMessageHeader \in Items /\ NetMessageHeader.kind = "flagged"
      BY ItemsAssumption DEF ItemsAssumption, Items, NetMessageHeader, Flagged
    <2>2. Fields(Present(NetMessageHeader.fields, chosen)) \subseteq Parts(NetMessageHeader)
      BY <2>1, HeaderItemsFacts, FieldsOfPresent DEF HeaderItems
    <2>3. Parts(NetMessageHeader) \subseteq Items
      BY <2>1, ItemFacts
    <2> QED
      BY <2>2, <2>3 DEF HeaderItems
  <1>6. v.value = [name \in HeaderFields |-> v.value[name]]
    <2>1. v.value = ByName(layout, Values(all.value))
      BY <1>1, LayoutDone
    <2> HIDE DEF layout, all, v, flags
    <2> QED
      BY <1>4, <2>1 DEF ByName
  <1>7. ASSUME NEW k \in 1..6, HeaderItems[k][1] \notin chosen
        PROVE  v.value[HeaderItems[k][2]] = <<>>
    <2> DEFINE n == Nesting - 1
               name == HeaderItems[k][2]
    <2>1. n \in Nat /\ n - 1 \in Nat /\ n = (n - 1) + 1
      BY StreamsAssumption DEF StreamsAssumption, MaxRank
    <2>2. layout[k][2] = Nothing
      <3>1. HeaderItems[k][1] # Always
        <4>1. k = 1 \/ k = 2 \/ k = 3 \/ k = 4 \/ k = 5 \/ k = 6
          OBVIOUS
        <4> QED
          BY <4>1, HeaderItemsFacts DEF Always
      <3> QED
        BY <1>7, <3>1, HeaderItemsFacts DEF Present
    <2>3. \E l \in 1..Len(layout) : layout[l][1] = name
      BY <1>4
    <2>4. \A l \in 1..Len(layout) : layout[l][1] = name => layout[l][2] = Nothing
      <3> TAKE l \in 1..Len(layout)
      <3> HAVE layout[l][1] = name
      <3>1. l \in 1..6 /\ k \in 1..6 /\ HeaderItems[l][2] = HeaderItems[k][2]
        BY <1>4
      <3>2. l = k
        BY <1>4, <3>1
      <3> QED
        BY <2>2, <3>2
    <2>5. v = ReadLayout(Readers(s)[n], layout, flags.next) /\ v.error = "none"
      BY <1>1
    <2> DEFINE i == flags.next
    <2>6. i \in Places(s) /\ v = ReadLayout(Readers(s)[n], layout, i)
      BY <1>3, <2>5
    <2> HIDE DEF n, name, v, i, layout
    <2>7. ReadAt(s, n, Nothing, v.value[name])
      BY <1>4, <1>5, <2>1, <2>3, <2>4, <2>5, <2>6, LayoutField
    <2>8. v.value[name] = <<>>
      BY <2>1, <2>7, NothingAt
    <2> QED
      BY <2>8 DEF name
  <1> HIDE DEF v
  <1>8. /\ h.flags = chosen /\ h.fields = v.value
        /\ h = [flags |-> h.flags, fields |-> h.fields]
    BY <1>1
  <1> QED
    BY <1>6, <1>7, <1>8 DEF IsHeader

LEMMA ServerHeaders == IsHeader(Header) /\ IsHeader(SystemHeader)
  <1>1. \A k \in 1..6 : HeaderItems[k][2] \in HeaderFields
    <2> TAKE k \in 1..6
    <2>1. k = 1 \/ k = 2 \/ k = 3 \/ k = 4 \/ k = 5 \/ k = 6
      OBVIOUS
    <2> QED
      BY <2>1, HeaderItemsFacts DEF HeaderFields
  <1> DEFINE none == [name \in HeaderFields |-> <<>>]
  <1>2. none = [name \in HeaderFields |-> none[name]] /\ \A name \in HeaderFields : none[name] = <<>>
    OBVIOUS
  <1>3. Header = [flags |-> {"needs_reliable_send"}, fields |-> none]
    BY DEF Header
  <1> HIDE DEF none
  <1>4. \A flags : IsHeader([flags |-> flags, fields |-> none])
    BY <1>1, <1>2 DEF IsHeader
  <1>5. SystemHeader = [flags |-> Header.flags \cup {"is_system_message"}, fields |-> none]
    BY <1>3 DEF SystemHeader
  <1> QED
    BY <1>3, <1>4, <1>5

-----------------------------------------------------------------------------
(* Messages that the server writes.                                        *)

LEMMA HeaderWire ==
    ASSUME NEW H, HasNow(H)
    PROVE  IsSeq(WriteHeader(H))
  <1> DEFINE b == << <<"flags32", H.flags>> >>
             w1 == PartWire(H, 1)
             w2 == PartWire(H, 2)
             w3 == PartWire(H, 3)
             w4 == PartWire(H, 4)
             w5 == PartWire(H, 5)
             w6 == PartWire(H, 6)
  <1>1. IsSeq(b)
    BY Single
  <1>2. IsSeq(w1) /\ IsSeq(w2) /\ IsSeq(w3) /\ IsSeq(w4) /\ IsSeq(w5) /\ IsSeq(w6)
    BY PartWires
  <1>3. WriteHeader(H) = (((((b \o w1) \o w2) \o w3) \o w4) \o w5) \o w6
    <2>1. WriteHeader(H) = AllParts(H)
      BY PartWires
    <2> QED
      BY <2>1 DEF AllParts
  <1> HIDE DEF b, w1, w2, w3, w4, w5, w6
  <1>4. IsSeq(b \o w1)
    BY <1>1, <1>2, Concat
  <1>5. IsSeq((b \o w1) \o w2)
    BY <1>2, <1>4, Concat
  <1>6. IsSeq(((b \o w1) \o w2) \o w3)
    BY <1>2, <1>5, Concat
  <1>7. IsSeq((((b \o w1) \o w2) \o w3) \o w4)
    BY <1>2, <1>6, Concat
  <1>8. IsSeq(((((b \o w1) \o w2) \o w3) \o w4) \o w5)
    BY <1>2, <1>7, Concat
  <1> QED
    BY <1>2, <1>3, <1>8, Concat

\* The class and the header are read, and then there is the rest.
IsWritten(t, class, header, rest) ==
    /\ IsSeq(t) /\ Len(t) \in Nat /\ 1 \in 1..Len(t) /\ t[1] = <<"class", class>>
    /\ 2 \in Places(t)
    /\ HeaderOf(t).error = "none" /\ HeaderOf(t).value = Stamped(header)
    /\ HeaderOf(t).next \in Places(t) /\ Holds(t, HeaderOf(t).next, rest)
    /\ HeaderOf(t).next + Len(rest) = Len(t) + 1

LEMMA WrittenBack ==
    ASSUME NEW class, NEW header, IsHeader(header), NEW rest, IsSeq(rest),
           NEW t, t = Written(class, header, rest)
    PROVE  IsWritten(t, class, header, rest)
  <1> DEFINE a == << <<"class", class>> >>
             H == Stamped(header)
             w == WriteHeader(H)
             u == a \o w
             token == <<"class", class>>
  <1>1. IsHeader(H) /\ HasNow(H)
    BY StampedFacts
  <1>2. IsSeq(w)
    BY <1>1, HeaderWire
  <1>3. IsSeq(a) /\ Len(a) = 1 /\ a[1] = token
    BY Single
  <1> HIDE DEF a, w
  <1>4. IsSeq(u)
    BY <1>2, <1>3, Concat
  <1> HIDE DEF u
  <1>5. t = u \o rest
    BY DEF Written, u, a, w
  <1>6. IsSeq(t) /\ Len(t) \in Nat
    BY <1>4, <1>5, Concat, SeqFacts
  <1> DEFINE p == 1
             q == 1 + 1
  <1>7. p \in Places(t) /\ Holds(t, p, t)
    BY <1>6 DEF Holds, Places
  <1> HIDE DEF p
  <1>8. Apart(t, p, u, rest, t)
    BY <1>4, <1>5, <1>6, <1>7, HeldApart
  <1>9. Holds(t, p, u)
    BY <1>8 DEF Apart
  <1>10. u = a \o w
    BY DEF u
  <1>11. Apart(t, p, a, w, u)
    BY <1>2, <1>3, <1>6, <1>7, <1>9, <1>10, HeldApart
  <1>12. /\ 2 \in Places(t) /\ Holds(t, 2, w) /\ Holds(t, 1, a)
         /\ 1 + Len(u) = 2 + Len(w)
    BY <1>3, <1>11 DEF Apart, p
  <1>13. t[1] = token /\ 1 \in 1..Len(t)
    BY <1>3, <1>6, <1>12 DEF Holds, Places
  <1>14. /\ HeaderOf(t).error = "none" /\ HeaderOf(t).value = H
         /\ HeaderOf(t).next = 2 + Len(w)
    BY <1>1, <1>6, <1>12, HeaderBack DEF w
  <1>15. 2 + Len(w) \in Places(t) /\ Holds(t, 2 + Len(w), rest)
    BY <1>8, <1>12 DEF Apart, p
  <1>16. (2 + Len(w)) + Len(rest) = Len(t) + 1
    BY <1>6, <1>8, <1>12 DEF Apart, p
  <1> QED
    BY <1>6, <1>12, <1>13, <1>14, <1>15, <1>16 DEF IsWritten

\* What is then read of a message.
LEMMA BufferBack ==
    ASSUME NEW t, NEW class, NEW header, NEW rest, IsWritten(t, class, header, rest),
           AllOf(t).error = "none", AllOf(t).next = HeaderOf(t).next + Len(rest),
           NEW r, r = ReadBuffer([type |-> t[1][2], tokens |-> t])
    PROVE  r.error = "none" /\ r.value = MessageOf(t)
  <1> DEFINE buffer == [type |-> t[1][2], tokens |-> t]
             v == Take("class", t, 1)
             token == <<"class", class>>
  <1>1. Len(t) \in Nat /\ 1 \in 1..Len(t) /\ t[1] = token
    BY DEF IsWritten
  <1>2. v.error = "none"
    <2> DEFINE p == 1
    <2>1. p \in 1..Len(t) /\ t[p] = token
      BY <1>1
    <2>2. token = <<"class", class>>
      OBVIOUS
    <2> HIDE DEF p, token
    <2>3. TakesAt(t, p, "class", class)
      BY <1>1, <2>1, <2>2, TakeAt
    <2> QED
      BY <2>3 DEF TakesAt, p
  <1>3. ~(AllOf(t).next <= Len(t))
    BY <1>1 DEF IsWritten
  <1>4. HeaderOf(t).error = "none"
    BY DEF IsWritten
  <1>5. buffer.tokens = t /\ buffer.type = t[1][2]
    OBVIOUS
  <1> HIDE DEF v
  <1> HIDE DEF buffer
  <1>6. ReadBuffer(buffer) = Got(MessageOf(t), <<>>, AllOf(t).next)
    BY <1>1, <1>2, <1>3, <1>4, <1>5, BufferDef DEF v
  <1> QED
    BY <1>6, GotFacts DEF buffer

-----------------------------------------------------------------------------
(* The fields of a message that is echoed.                                 *)

Echoed == GameMessages \cup SDLStates \cup {"NetMessageVoice"}

LEMMA EchoedLayout ==
    ASSUME NEW class \in Echoed, NEW layout, layout = NetMessageLayout(class),
           NEW k \in 1..Len(layout), NEW item, item = layout[k][2]
    PROVE  \/ item \in Plain
           \/ item \in Items /\ item.kind \in {"delivery", "stream"}
  <1>1. class \in DOMAIN NetMessages
    BY DEF Echoed, GameMessages, SDLStates, NetMessages
  <1>2. layout = NetMessages[class]
    BY <1>1 DEF NetMessageLayout, LayoutIn
  <1>3. IsSeq(layout) /\ item \in NetItems
    BY LayoutFacts
  <1>4. k \in DOMAIN NetMessages[class]
    BY <1>2, <1>3, SeqFacts
  <1>5. item.kind \notin {"time", "rest"} /\ item # NetMessageHeader
    BY <1>1, <1>2, <1>4, FieldsAssumption DEF FieldsAssumption
  <1>6. item \in Items
    BY <1>3 DEF Items
  <1> QED
    BY <1>3, <1>5, <1>6 DEF Plain

LEMMA DeliveryFits ==
    ASSUME NEW time \in Nat \X (0..(Second - 1)), Writes(WriteDelivery(time), Failures)
    PROVE  time[1] < Eternity
  <1>1. Eternity \in Nat \ {0} /\ time[1] \in Nat
    BY StreamsAssumption DEF StreamsAssumption
  <1>2. CASE time = Start
    BY <1>1, <1>2 DEF Start
  <1>3. CASE time # Start
    <2> SUFFICES ASSUME ~(time[1] < Eternity) PROVE FALSE
      OBVIOUS
    <2> DEFINE a == << <<"u8", 1>> >>
               b == WriteTime(time)
               token == <<"struct.error", 0>>
    <2>1. b = <<token>>
      BY DEF WriteTime, Failure
    <2>2. IsSeq(a) /\ IsSeq(b) /\ Len(b) = 1 /\ b[1] = token
      BY <2>1, Single
    <2>3. WriteDelivery(time) = a \o b
      BY <1>3 DEF WriteDelivery
    <2>4. token[1] \in Failures
      BY DEF Failures
    <2> HIDE DEF a, b, token
    <2>5. Writes(a \o b, Failures)
      BY <2>3
    <2>6. Writes(b, Failures)
      BY <2>2, <2>5, WritesTwice
    <2> QED
      BY <2>2, <2>4, <2>6 DEF Writes
  <1> QED
    BY <1>2, <1>3

\* Every field of such a message is read back.
LEMMA EchoedBack ==
    ASSUME NEW s, IsStream(s), NEW t, Len(t) \in Nat, NEW p \in Places(s),
           NEW item, item \in Plain \/ (item \in Items /\ item.kind \in {"delivery", "stream"}),
           NEW r, r = Reader(s)[<<item, p>>], r.error = "none", Writes(r.wire, Failures)
    PROVE  Back(t, Reader(t), item, r.value, r.wire)
  <1>1. Len(s) \in Nat
    BY StreamFacts
  <1>2. CASE item \in Plain
    <2>1. Nesting \in Nat /\ Rank[item] <= Nesting
      BY <1>2, PlainFacts, StreamsAssumption DEF StreamsAssumption, MaxRank
    <2>2. Returns(s, Readers(s)[Nesting], t, Readers(t)[Nesting], item)
      BY <1>2, <2>1, NetBack
    <2>3. r = Readers(s)[Nesting][<<item, p>>]
      BY DEF Reader
    <2>4. Back(t, Readers(t)[Nesting], item, r.value, r.wire)
      BY <2>2, <2>3 DEF Returns
    <2> QED
      BY <2>4 DEF Reader
  <1>3. CASE item \in Items /\ item.kind = "stream"
    <2>1. r = ReadStream(s, p)
      BY <1>3, ReaderDef, ReadItemOf
    <2> DEFINE length == s[p][2]
               type == s[p + 1][2]
               data == s[p + 2][2]
    <2>2. /\ type \in {0, 2, 3} /\ r.value = [length |-> length, type |-> type, data |-> data]
          /\ r.wire = WriteStream(r.value)
      BY <1>1, <2>1, StreamRead
    <2> HIDE DEF length, type, data
    <2>3. ASSUME NEW q \in Places(t), Holds(t, q, r.wire)
          PROVE  Reader(t)[<<item, q>>] = Got(r.value, r.wire, q + Len(r.wire))
      <3>1. Reader(t)[<<item, q>>] = ReadStream(t, q)
        BY <1>3, ReaderDef, ReadItemOf
      <3>2. ReadStream(t, q) = Got(r.value, r.wire, q + Len(r.wire))
        BY <2>2, <2>3, StreamBack
      <3> QED
        BY <3>1, <3>2
    <2> QED
      BY <2>3 DEF Back
  <1>4. CASE item \in Items /\ item.kind = "delivery"
    <2>1. r = ReadDelivery(s, p)
      BY <1>4, ReaderDef, ReadItemOf
    <2> DEFINE time == r.value
    <2>2. r.wire = WriteDelivery(time) /\ time \in Nat \X (0..(Second - 1))
      BY <2>1, DeliveryTime
    <2> HIDE DEF time
    <2>3. time[1] < Eternity
      BY <2>2, DeliveryFits
    <2>4. ASSUME NEW q \in Places(t), Holds(t, q, r.wire)
          PROVE  Reader(t)[<<item, q>>] = Got(time, r.wire, q + Len(r.wire))
      <3>1. Reader(t)[<<item, q>>] = ReadDelivery(t, q)
        BY <1>4, ReaderDef, ReadItemOf
      <3>2. ReadDelivery(t, q) = Got(time, r.wire, q + Len(r.wire))
        BY <2>2, <2>3, <2>4, DeliveryBack
      <3> QED
        BY <3>1, <3>2
    <2> QED
      BY <2>4 DEF Back, time
  <1> QED
    BY <1>2, <1>3, <1>4

LEMMA WroteAll ==
    ASSUME NEW u, NEW v, IsSeq(u), IsSeq(v), Wrote(u \o v)
    PROVE  Writes(v, Failures)
  <1> DEFINE t == u \o v
  <1>1. IsSeq(t)
    BY Concat
  <1>2. Wrote(t)
    OBVIOUS
  <1> HIDE DEF t
  <1>3. DOMAIN t = 1..Len(t)
    BY <1>1, SeqFacts
  <1>4. Writes(t, Failures)
    BY <1>1, <1>2, <1>3 DEF Writes, Wrote
  <1> QED
    BY <1>4, WritesTwice DEF t

-----------------------------------------------------------------------------
\* What was read of all fields of a message that can be written.
LEMMA AllWritten ==
    ASSUME NEW s, WasRead(s), NEW all, all = AllOf(s), Writes(all.wire, Failures)
    PROVE  /\ ReadsOf(s, Reader(s), LayoutOf(s), HeaderOf(s).next, all.value)
           /\ \A k \in 1..Len(LayoutOf(s)) : Writes(all.value[k].wire, Failures)
  <1> DEFINE layout == LayoutOf(s)
             items == ItemsOf(layout)
             read == Reader(s)
             i == HeaderOf(s).next
             n == Len(items)
  <1>1. IsStream(s) /\ 2 \in Places(s) /\ HeaderOf(s).error = "none" /\ all.error = "none"
    BY DEF WasRead
  <1>2. ReadsOf(s, read, layout, i, all.value)
    BY <1>1, AllRead
  <1>3. IsSeq(layout)
    BY LayoutFacts DEF LayoutOf
  <1>4. n = Len(layout) /\ n \in Nat
    <2>1. DOMAIN layout = 1..Len(layout) /\ Len(layout) \in Nat
      BY <1>3, SeqFacts
    <2>2. items = [k \in 1..Len(layout) |-> layout[k][2]]
      BY <2>1 DEF ItemsOf
    <2> QED
      BY <2>1, <2>2
  <1>5. all = ReadAll(read, items, i)
    BY DEF AllOf
  <1>6. \A r : r \in {all.value[k] : k \in 1..n} => IsSeq(r.wire)
    <2>1. ASSUME NEW k \in 1..n PROVE IsSeq(all.value[k].wire)
      <3>1. PICK p \in i..(Len(s) + 1) : all.value[k] = read[<<layout[k][2], p>>]
        BY <1>2, <1>4 DEF ReadsOf
      <3>2. p \in Places(s) /\ i \in Places(s)
        BY <1>1, HeaderRead, StreamFacts DEF Places
      <3>3. layout[k][2] \in NetItems
        BY <1>4, LayoutFacts DEF LayoutOf
      <3>4. Result(s, p, read[<<layout[k][2], p>>], Basic, {})
        BY <1>1, <3>2, <3>3, NetReaderResult
      <3>5. all.value[k].error = "none"
        BY <1>2, <1>4 DEF ReadsOf
      <3> QED
        BY <3>1, <3>4, <3>5, NoneIsNoError, ResultError DEF Writes
    <2> QED
      BY <2>1
  <1> HIDE DEF items, read, layout, i, n
  <1>7. \E f : Joins(f, all.value, n) /\ f[n] = all.wire
    <2>1. Len(items) \in Nat /\ all.error = "none"
      BY <1>1, <1>4 DEF n
    <2>2. \A r : r \in {all.value[k] : k \in 1..Len(items)} => IsSeq(r.wire)
      BY <1>6 DEF n
    <2>3. \E f : Joins(f, all.value, Len(items)) /\ f[Len(items)] = all.wire
      BY <1>5, <2>1, <2>2, ReadAllJoins
    <2> QED
      BY <2>3 DEF n
  <1>8. PICK f : Joins(f, all.value, n) /\ f[n] = all.wire
    BY <1>7
  <1>9. \A k \in 1..n : Writes(all.value[k].wire, Failures)
    <2>1. Writes(f[n], Failures)
      BY <1>8
    <2> DEFINE never == Failures
    <2> HIDE DEF never
    <2>2. \A k \in 1..n : Writes(all.value[k].wire, never)
      BY <1>4, <1>8, <2>1, JoinsWrites DEF never
    <2> QED
      BY <2>2 DEF never
  <1> QED
    BY <1>2, <1>4, <1>9 DEF layout, read, i

\* The client reads an echo, and finds what the server had read.
LEMMA EchoBack ==
    ASSUME NEW s, WasRead(s), NEW m, m = MessageOf(s), m.class \in Echoed,
           NEW t, t = Written(m.class, m.header, m.wire), Wrote(t),
           NEW r, r = ReadBuffer([type |-> t[1][2], tokens |-> t])
    PROVE  /\ r.error = "none" /\ r.value.class = m.class
           /\ r.value.header = Stamped(m.header) /\ r.value.fields = m.fields
  <1> DEFINE all == AllOf(s)
             layout == LayoutOf(s)
             items == ItemsOf(layout)
             source == Reader(s)
             read == Reader(t)
             i == HeaderOf(s).next
             header == HeaderOf(s).value
             class == s[1][2]
             rest == all.wire
  <1>1. m.class = class /\ m.header = header /\ m.wire = rest
        /\ m.fields = ByName(layout, Values(all.value))
    BY DEF MessageOf
  <1>2. /\ IsStream(s) /\ Len(s) \in Nat /\ 2 \in Places(s) /\ HeaderOf(s).error = "none"
        /\ all.error = "none" /\ i \in Places(s)
    BY StreamFacts, HeaderRead DEF WasRead
  <1>3. IsHeader(header)
    BY <1>2, ReceivedHeader
  <1>4. IsSeq(rest)
    <2>1. Result(s, i, all, Basic, {})
      BY <1>2, AllRead
    <2> QED
      BY <1>2, <2>1, NoneIsNoError, ResultError DEF Writes
  <1>5. t = Written(class, header, rest)
    BY <1>1
  <1>6. Writes(rest, Failures)
    <2> DEFINE a == << <<"class", class>> >>
               w == WriteHeader(Stamped(header))
               u == a \o w
    <2>1. IsSeq(a)
      BY Single
    <2>2. IsSeq(w)
      BY <1>3, StampedFacts, HeaderWire
    <2>3. t = u \o rest
      BY <1>5 DEF Written
    <2> HIDE DEF a, w, rest
    <2>4. IsSeq(u)
      BY <2>1, <2>2, Concat
    <2> HIDE DEF u
    <2> QED
      BY <1>4, <2>3, <2>4, WroteAll DEF rest
  <1> HIDE DEF rest, header, class
  <1>7. IsWritten(t, class, header, rest)
    BY <1>3, <1>4, <1>5, WrittenBack
  <1>8. /\ Len(t) \in Nat /\ t[1][2] = class /\ 2 \in Places(t)
        /\ HeaderOf(t).value = Stamped(header)
    BY <1>7 DEF IsWritten
  <1> DEFINE p == HeaderOf(t).next
  <1>9. p \in Places(t) /\ Holds(t, p, rest)
    BY <1>7 DEF IsWritten
  <1>10. LayoutOf(t) = layout
    BY <1>8 DEF LayoutOf, class
  <1>11. AllOf(t) = ReadAll(read, items, p)
    BY <1>10 DEF AllOf
  <1>12. /\ ReadsOf(s, source, layout, i, all.value)
         /\ \A k \in 1..Len(layout) : Writes(all.value[k].wire, Failures)
    <2>1. Writes(all.wire, Failures)
      BY <1>6 DEF rest
    <2> QED
      BY <2>1, AllWritten
  <1>13. IsSeq(layout)
    BY LayoutFacts DEF LayoutOf
  <1>14. Len(items) = Len(layout) /\ Len(items) \in Nat /\ \A k \in 1..Len(layout) : items[k] = layout[k][2]
    <2>1. DOMAIN layout = 1..Len(layout) /\ Len(layout) \in Nat
      BY <1>13, SeqFacts
    <2>2. items = [k \in 1..Len(layout) |-> layout[k][2]]
      BY <2>1 DEF ItemsOf
    <2> QED
      BY <2>1, <2>2
  <1>15. all = ReadAll(source, items, i)
    BY DEF AllOf
  <1> HIDE DEF items, source, read, i, p, all
  <1>16. ASSUME NEW k \in 1..Len(items)
         PROVE  /\ Back(t, read, items[k], all.value[k].value, all.value[k].wire)
                /\ IsSeq(all.value[k].wire)
    <2>1. k \in 1..Len(layout) /\ items[k] = layout[k][2]
      BY <1>14
    <2>2. PICK q \in i..(Len(s) + 1) : all.value[k] = source[<<layout[k][2], q>>]
      BY <1>12, <2>1 DEF ReadsOf
    <2>3. q \in Places(s)
      BY <1>2 DEF Places, i
    <2>4. all.value[k].error = "none"
      BY <1>12, <2>1 DEF ReadsOf
    <2> DEFINE item == layout[k][2]
               v == all.value[k]
    <2>5. item \in Plain \/ (item \in Items /\ item.kind \in {"delivery", "stream"})
      <3>1. layout = NetMessageLayout(class) /\ class \in Echoed
        BY <1>1 DEF LayoutOf, class
      <3> HIDE DEF layout
      <3> QED
        BY <2>1, <3>1, EchoedLayout
    <2>6. v = Reader(s)[<<item, q>>] /\ v.error = "none"
      BY <2>2, <2>4 DEF source
    <2>7. Writes(v.wire, Failures)
      BY <1>12, <2>1
    <2> HIDE DEF item, v
    <2>8. Back(t, Reader(t), item, v.value, v.wire)
      BY <1>2, <1>8, <2>3, <2>5, <2>6, <2>7, EchoedBack
    <2> QED
      BY <2>1, <2>7, <2>8 DEF item, v, read, Writes
  <1>17. Again(all, ReadAll(read, items, p), p)
    <2>1. IsSeq(all.value) /\ Len(all.value) = Len(items)
      BY <1>12, <1>14 DEF ReadsOf
    <2>2. \A k \in 1..Len(items) : IsSeq(all.value[k].wire)
      BY <1>16
    <2>3. \A k \in 1..Len(items) :
             Back(t, read, items[k], all.value[k].value, all.value[k].wire)
      BY <1>16
    <2>4. Holds(t, p, all.wire) /\ p \in Places(t)
      BY <1>9 DEF rest, p
    <2>5. Len(t) \in Nat /\ Len(items) \in Nat /\ all.error = "none"
      BY <1>2, <1>8, <1>14 DEF all
    <2> QED
      BY <1>15, <2>1, <2>2, <2>3, <2>4, <2>5, AllBack
  <1>18. /\ AllOf(t).error = "none" /\ AllOf(t).next = p + Len(rest)
         /\ Values(AllOf(t).value) = Values(all.value)
    <2>1. AllOf(t) = ReadAll(read, items, p)
      BY <1>11 DEF read, items, p
    <2> QED
      BY <1>17, <2>1 DEF Again, rest
  <1>19. r.error = "none" /\ r.value = MessageOf(t)
    BY <1>7, <1>18, BufferBack DEF p
  <1>20. /\ MessageOf(t).class = class /\ MessageOf(t).header = Stamped(header)
         /\ MessageOf(t).fields = ByName(layout, Values(all.value))
    BY <1>8, <1>10, <1>18 DEF MessageOf
  <1> QED
    BY <1>1, <1>19, <1>20 DEF all, class, header, layout

-----------------------------------------------------------------------------
(* The answers.                                                            *)

\* What was read of one after another, at those places.
IsRead(all, v, n, q) ==
    /\ all.error = "none" /\ IsSeq(all.value) /\ Len(all.value) = n
    /\ \A k \in 1..n : all.value[k].value = v[k]
    /\ all.next = q[n + 1]

LEMMA AllAt ==
    ASSUME NEW read, NEW items, NEW n \in Nat, Len(items) = n, NEW q, NEW v, NEW w,
           NEW i, q[1] = i,
           \A k \in 1..n : read[<<items[k], q[k]>>] = Got(v[k], w[k], q[k + 1])
    PROVE  IsRead(ReadAll(read, items, i), v, n, q)
  <1> DEFINE first == First(read, items, i)
             Good(k) == k <= n => IsRead(first[k], v, k, q)
  <1>1. first[0] = Got(<<>>, <<>>, i) /\ \A k \in Nat : first[k + 1] = Step(read, items, first[k], k + 1)
    BY FirstDef
  <1> HIDE DEF first
  <1>2. Good(0)
    BY <1>1, GotFacts, Empty DEF IsRead
  <1>3. ASSUME NEW k \in Nat, Good(k)
        PROVE  Good(k + 1)
    <2> SUFFICES ASSUME k + 1 <= n PROVE IsRead(first[k + 1], v, k + 1, q)
      OBVIOUS
    <2> DEFINE done == first[k]
               l == k + 1
               r == read[<<items[l], done.next>>]
    <2>1. /\ done.error = "none" /\ IsSeq(done.value) /\ Len(done.value) = k
          /\ \A j \in 1..k : done.value[j].value = v[j]
          /\ done.next = q[l]
      BY <1>3 DEF IsRead
    <2>2. l \in 1..n
      OBVIOUS
    <2>3. r = Got(v[l], w[l], q[l + 1])
      BY <2>1, <2>2
    <2>4. r.error = "none" /\ r.value = v[l] /\ r.next = q[l + 1]
      BY <2>3, GotFacts
    <2>5. first[l] = Step(read, items, done, l)
      BY <1>1
    <2> HIDE DEF r, l, done
    <2> DEFINE more == Append(done.value, r)
               g == Got(more, done.wire \o r.wire, r.next)
    <2>6. Step(read, items, done, l) = g
      BY <2>1, <2>4 DEF Step, r, Then
    <2> HIDE DEF more
    <2>7. g.error = "none" /\ g.value = more /\ g.next = r.next
      BY GotFacts
    <2> HIDE DEF g
    <2>8. /\ IsSeq(more) /\ Len(more) = k + 1
          /\ \A j \in 1..k : more[j] = done.value[j]
          /\ more[k + 1] = r
      BY <2>1, Appended DEF more
    <2>9. \A j \in 1..(k + 1) : more[j].value = v[j]
      <3> TAKE j \in 1..(k + 1)
      <3>1. j \in 1..k \/ j = k + 1
        OBVIOUS
      <3> QED
        BY <2>1, <2>4, <2>8, <3>1 DEF l
    <2>10. first[l] = g
      BY <2>5, <2>6
    <2> QED
      BY <2>4, <2>7, <2>8, <2>9, <2>10 DEF IsRead, l
  <1> DEFINE S == {k \in Nat : Good(k)}
  <1>4. 0 \in S
    BY <1>2
  <1>5. \A k \in Nat : k \in S => k + 1 \in S
    BY <1>3
  <1> HIDE DEF S
  <1>6. Nat \subseteq S
    BY <1>4, <1>5, Induction
  <1>7. Good(n)
    BY <1>6 DEF S
  <1> QED
    BY <1>7, FirstIs DEF first

\* A layout of one item.
LEMMA OneRead ==
    ASSUME NEW read, NEW name, NEW item, NEW layout, layout = << <<name, item>> >>,
           NEW i, NEW v, NEW w, NEW next, read[<<item, i>>] = Got(v, w, next),
           NEW r, r = ReadLayout(read, layout, i)
    PROVE  r.error = "none" /\ r.value[name] = v /\ r.next = next
  <1> DEFINE items == ItemsOf(layout)
             all == ReadAll(read, items, i)
             q == <<i, next>>
             vs == <<v>>
             ws == <<w>>
  <1>1. Len(items) = 1 /\ items[1] = item
    BY DEF ItemsOf
  <1>2. q[1] = i /\ q[2] = next /\ vs[1] = v /\ ws[1] = w
    OBVIOUS
  <1> HIDE DEF q, vs, ws, items
  <1>3. \A k \in 1..1 : read[<<items[k], q[k]>>] = Got(vs[k], ws[k], q[k + 1])
    <2> TAKE k \in 1..1
    <2>1. k = 1 /\ k + 1 = 2
      OBVIOUS
    <2> QED
      BY <1>1, <1>2, <2>1
  <1>4. IsRead(all, vs, 1, q)
    BY <1>1, <1>2, <1>3, AllAt
  <1>5. all.error = "none" /\ IsSeq(all.value) /\ Len(all.value) = 1 /\ all.value[1].value = v
        /\ all.next = next
    BY <1>2, <1>4 DEF IsRead
  <1> HIDE DEF all
  <1> DEFINE fields == ByName(layout, Values(all.value))
  <1>6. r = Got(fields, all.wire, all.next)
    BY <1>5 DEF ReadLayout, Then, all, items
  <1>7. r.error = "none" /\ r.value = fields /\ r.next = all.next
    BY <1>6, GotFacts
  <1>8. fields[name] = v
    <2>1. IsSeq(layout) /\ Len(layout) = 1 /\ layout[1] = <<name, item>> /\ layout[1][1] = name
      BY Single
    <2>2. name \in DOMAIN fields
      BY <1>5, <2>1, FieldRead
    <2> DEFINE k == Place(layout, name)
    <2>3. k \in 1..1 /\ fields[name] = all.value[k].value
      BY <1>5, <2>1, <2>2, FieldRead
    <2> HIDE DEF k, fields
    <2>4. k = 1
      BY <2>3
    <2> QED
      BY <1>5, <2>3, <2>4
  <1> QED
    BY <1>5, <1>7, <1>8

-----------------------------------------------------------------------------
\* A choice, and how many and what they are.
LEMMA ChoiceAt ==
    ASSUME NEW t, Len(t) \in Nat, NEW p \in Places(t), NEW yes \in BOOLEAN,
           Holds(t, p, WriteBool(yes)), NEW read, NEW item,
           NEW layout, layout = (IF yes THEN item.yes ELSE item.no),
           NEW v, v = ReadLayout(read, layout, p + 1), v.error = "none",
           NEW r, r = ReadChoice(read, item, t, p)
    PROVE  r = Got([there |-> yes, value |-> v.value], r.wire, v.next)
  <1> DEFINE there == ReadBool(t, p)
  <1>1. there.error = "none" /\ there.value = yes /\ there.next = p + 1
    BY BoolBack
  <1> HIDE DEF there
  <1>2. r = Got([there |-> yes, value |-> v.value], there.wire \o v.wire, v.next)
    BY <1>1 DEF ReadChoice, Then, there
  <1> DEFINE value == [there |-> yes, value |-> v.value]
             wire == there.wire \o v.wire
  <1> HIDE DEF value, wire
  <1>3. r = Got(value, wire, v.next)
    BY <1>2 DEF value, wire
  <1>4. r.wire = wire
    BY <1>3, GotFacts
  <1> QED
    BY <1>3, <1>4 DEF value

IsManyOf(r, n, v, next) ==
    /\ r = Got(r.value, r.wire, next)
    /\ IsSeq(r.value) /\ Len(r.value) = n /\ \A k \in 1..n : r.value[k] = v[k]

LEMMA ManyAt ==
    ASSUME NEW t, Len(t) \in Nat, NEW p \in Places(t), NEW item, NEW code, code = item.code,
           NEW n \in Nat, Holds(t, p, << <<code, n>> >>), NEW read, NEW v, NEW q, NEW w,
           q[1] = p + 1,
           \A k \in 1..n : read[<<item.item, q[k]>>] = Got(v[k], w[k], q[k + 1]),
           NEW r, r = ReadMany(read, item, t, p)
    PROVE  IsManyOf(r, n, v, q[n + 1])
  <1> DEFINE count == Take(code, t, p)
             one == << <<code, n>> >>
  <1>1. count = Got(n, one, p + 1)
    BY TakeBack
  <1> HIDE DEF one
  <1>2. count.error = "none" /\ count.value = n /\ count.next = p + 1
    BY <1>1, GotFacts
  <1> DEFINE items == [k \in 1..n |-> item.item]
             all == ReadAll(read, items, p + 1)
  <1>3. Len(items) = n /\ \A k \in 1..n : items[k] = item.item
    OBVIOUS
  <1> HIDE DEF items, count
  <1> DEFINE i == p + 1
  <1>4. q[1] = i
    OBVIOUS
  <1>5. IsRead(all, v, n, q)
    <2>1. \A k \in 1..n : read[<<items[k], q[k]>>] = Got(v[k], w[k], q[k + 1])
      BY <1>3
    <2>2. all = ReadAll(read, items, i)
      OBVIOUS
    <2> HIDE DEF all, i
    <2> QED
      BY <1>3, <1>4, <2>1, <2>2, AllAt
  <1>6. all.error = "none" /\ all.next = q[n + 1] /\ IsSeq(all.value) /\ Len(all.value) = n
        /\ \A k \in 1..n : all.value[k].value = v[k]
    BY <1>5 DEF IsRead
  <1> HIDE DEF all
  <1> DEFINE values == Values(all.value)
             wire == << <<item.code, Len(all.value)>> >> \o all.wire
  <1>7. r = Got(values, wire, all.next)
    BY <1>2, <1>6 DEF ReadMany, Then, count, items, all
  <1>8. values = [k \in 1..n |-> all.value[k].value]
    BY <1>6, SeqFacts DEF Values
  <1> HIDE DEF wire
  <1>9. IsSeq(values) /\ Len(values) = n /\ \A k \in 1..n : values[k] = v[k]
    <2>1. values = [k \in 1..n |-> values[k]]
      BY <1>8
    <2>2. \A k \in 1..n : values[k] = v[k]
      BY <1>6, <1>8
    <2> HIDE DEF values
    <2> QED
      BY <2>1, <2>2, FunctionIsSeq
  <1> HIDE DEF values
  <1>10. r.value = values /\ r.wire = wire
    BY <1>7, GotFacts
  <1> QED
    BY <1>6, <1>7, <1>9, <1>10 DEF IsManyOf

\* The answer to a MembersListRequest is understood.
LEMMA MembersBack ==
    ASSUME NEW t, t = Written("NetMessageMembersList", SystemHeader, << <<"i16", 0>> >>),
           NEW r, r = ReadBuffer([type |-> t[1][2], tokens |-> t])
    PROVE  r.error = "none"
  <1> DEFINE class == "NetMessageMembersList"
             rest == << <<"i16", 0>> >>
             item == Many("i16", MemberInfo)
             layout == << <<"members", item>> >>
  <1>1. IsSeq(rest) /\ Len(rest) = 1
    BY Single
  <1>2. IsWritten(t, class, SystemHeader, rest)
    BY <1>1, WrittenBack, ServerHeaders
  <1> DEFINE p == HeaderOf(t).next
  <1>3. /\ Len(t) \in Nat /\ t[1][2] = class /\ 2 \in Places(t)
        /\ p \in Places(t) /\ Holds(t, p, rest)
    BY <1>2 DEF IsWritten
  <1>4. NetMessageLayout(class) = layout
    BY DEF NetMessageLayout, LayoutIn, NetMessages, NetMessageMembersList
  <1>5. LayoutOf(t) = layout
    BY <1>3, <1>4 DEF LayoutOf
  <1>6. item \in Items
    <2>1. layout[1][2] = item /\ Len(layout) = 1
      OBVIOUS
    <2> HIDE DEF layout, item
    <2> QED
      BY <1>4, <2>1, LayoutFacts DEF Items
  <1>7. item.kind = "many" /\ item.code = "i16" /\ item.item = MemberInfo
    BY DEF Many
  <1> HIDE DEF item, class
  <1> DEFINE read == Readers(t)[Nesting - 1]
             many == ReadMany(read, item, t, p)
             q == <<p + 1>>
  <1>8. Reader(t)[<<item, p>>] = many
    BY <1>3, <1>6, <1>7, ReaderDef, ReadItemOf
  <1>9. many = Got(many.value, many.wire, p + 1)
    <2> DEFINE n == 0
               none == <<>>
               code == "i16"
    <2>1. n \in Nat /\ Holds(t, p, << <<code, n>> >>) /\ code = item.code
      BY <1>3, <1>7
    <2>2. \A k \in 1..n : read[<<item.item, q[k]>>] = Got(none[k], none[k], q[k + 1])
      OBVIOUS
    <2>3. q[1] = p + 1 /\ n + 1 = 1
      OBVIOUS
    <2> DEFINE m == many
    <2>4. m = ReadMany(read, item, t, p)
      OBVIOUS
    <2> HIDE DEF n, none, q, many, read, m, p, code
    <2>5. IsManyOf(m, n, none, q[n + 1])
      BY <1>3, <2>1, <2>2, <2>3, <2>4, ManyAt
    <2> QED
      BY <2>3, <2>5 DEF m, IsManyOf
  <1> DEFINE v == many.value
             w == many.wire
             next == p + 1
             all == AllOf(t)
             items == ItemsOf(layout)
             source == Reader(t)
  <1>10. Reader(t)[<<item, p>>] = Got(v, w, next)
    BY <1>8, <1>9
  <1>11. all = ReadAll(source, items, p)
    BY <1>5 DEF AllOf
  <1> HIDE DEF v, w, many, next, all, source
  <1>12. all.error = "none" /\ all.next = next
    <2> DEFINE places == <<p, next>>
               vs == <<v>>
               ws == <<w>>
    <2>1. places[1] = p /\ places[2] = next /\ vs[1] = v /\ ws[1] = w /\ 1 + 1 = 2
      OBVIOUS
    <2>2. Len(items) = 1 /\ items[1] = item
      BY DEF ItemsOf
    <2> HIDE DEF places, vs, ws, p, items
    <2>3. \A k \in 1..1 : source[<<items[k], places[k]>>] = Got(vs[k], ws[k], places[k + 1])
      <3> TAKE k \in 1..1
      <3>1. k = 1 /\ k + 1 = 2
        OBVIOUS
      <3> QED
        BY <1>10, <2>1, <2>2, <3>1 DEF source
    <2>4. IsRead(all, vs, 1, places)
      BY <1>11, <2>1, <2>2, <2>3, AllAt
    <2> QED
      BY <2>1, <2>4 DEF IsRead
  <1> QED
    <2>1. AllOf(t).error = "none" /\ AllOf(t).next = HeaderOf(t).next + Len(rest)
      BY <1>1, <1>12 DEF all, next
    <2> QED
      BY <1>2, <2>1, BufferBack

-----------------------------------------------------------------------------
\* Where everything is in the answer to a TestAndSet.
IsReply(c, uoid, type) ==
    /\ IsSeq(c) /\ Len(c) \in Nat /\ Len(uoid) \in Nat
    /\ 1 \in 1..Len(c) /\ c[1] = <<"class", "ServerReplyMessage">>
    /\ 2 \in Places(c) /\ Holds(c, 2, WriteBool(FALSE))
    /\ 3 \in Places(c) /\ Holds(c, 3, << <<"i32", 1>> >>)
    /\ 4 \in Places(c) /\ Holds(c, 4, WriteBool(TRUE))
    /\ 5 \in Places(c) /\ Holds(c, 5, uoid)
    /\ 5 + Len(uoid) \in Places(c) /\ Holds(c, 5 + Len(uoid), << <<"f64", 0>> >>)
    /\ 6 + Len(uoid) \in Places(c) /\ Holds(c, 6 + Len(uoid), << <<"u32", 1>> >>)
    /\ 7 + Len(uoid) \in Places(c) /\ Holds(c, 7 + Len(uoid), << <<"i32", type>> >>)

LEMMA HoldsOne ==
    ASSUME NEW t, Len(t) \in Nat, NEW p \in 1..Len(t), NEW x, t[p] = x, NEW w, w = <<x>>
    PROVE  Holds(t, p, w)
  <1>1. IsSeq(w) /\ Len(w) = 1 /\ w[1] = x
    BY Single
  <1>2. \A k \in 1..Len(w) : t[p + k - 1] = w[k]
    <2> TAKE k \in 1..Len(w)
    <2>1. k = 1 /\ p + k - 1 = p
      BY <1>1
    <2> QED
      BY <1>1, <2>1
  <1>3. p + Len(w) <= Len(t) + 1
    BY <1>1
  <1> QED
    BY <1>1, <1>2, <1>3 DEF Holds

LEMMA ReplyWritten ==
    ASSUME NEW uoid, IsSeq(uoid), NEW type, NEW c, c = WriteServerReply(uoid, type)
    PROVE  IsReply(c, uoid, type)
  <1> DEFINE class == <<"class", "ServerReplyMessage">>
             z1 == <<"f64", 0>>
             z2 == <<"u32", 1>>
             z3 == <<"i32", type>>
             w1 == <<class>>
             w2 == WriteBool(FALSE)
             w3 == << <<"i32", 1>> >>
             w4 == WriteBool(TRUE)
             w6 == <<z1, z2, z3>>
             u2 == w1 \o w2
             u3 == u2 \o w3
             u4 == u3 \o w4
             u5 == u4 \o uoid
  <1>1. /\ IsSeq(w1) /\ Len(w1) = 1 /\ w1[1] = class
        /\ IsSeq(w3) /\ Len(w3) = 1
    BY Single
  <1>2. IsSeq(w2) /\ Len(w2) = 1 /\ IsSeq(w4) /\ Len(w4) = 1
    BY Single DEF WriteBool
  <1>3. IsSeq(w6) /\ Len(w6) = 3 /\ w6[1] = z1 /\ w6[2] = z2 /\ w6[3] = z3
    <2>1. w6 \in Seq({z1, z2, z3})
      OBVIOUS
    <2> QED
      BY <2>1 DEF IsSeq
  <1>4. c = u5 \o w6
    BY DEF WriteServerReply
  <1>5. Len(uoid) \in Nat
    BY SeqFacts
  <1> HIDE DEF w1, w2, w3, w4, w6, z1, z2, z3, class
  <1>6. IsSeq(u2) /\ IsSeq(u3) /\ IsSeq(u4) /\ IsSeq(u5)
    <2>1. IsSeq(u2)
      BY <1>1, <1>2, Concat
    <2> HIDE DEF u2
    <2>2. IsSeq(u3)
      BY <1>1, <2>1, Concat
    <2> HIDE DEF u3
    <2>3. IsSeq(u4)
      BY <1>2, <2>2, Concat
    <2> HIDE DEF u4
    <2>4. IsSeq(u5)
      BY <2>3, Concat
    <2> QED
      BY <2>1, <2>2, <2>3, <2>4
  <1>7. u2 = w1 \o w2 /\ u3 = u2 \o w3 /\ u4 = u3 \o w4 /\ u5 = u4 \o uoid
    OBVIOUS
  <1> DEFINE p == 1
  <1> HIDE DEF u2, u3, u4, u5
  <1>8. IsSeq(c) /\ Len(c) \in Nat
    BY <1>3, <1>4, <1>6, Concat, SeqFacts
  <1>9. p \in Places(c) /\ Holds(c, p, c)
    BY <1>8 DEF Holds, Places
  <1> HIDE DEF p
  <1>10. Apart(c, p, u5, w6, c)
    BY <1>3, <1>4, <1>6, <1>8, <1>9, HeldApart
  <1>11. Holds(c, p, u5)
    BY <1>10 DEF Apart
  <1>12. Apart(c, p, u4, uoid, u5)
    BY <1>6, <1>7, <1>8, <1>9, <1>11, HeldApart
  <1>13. Holds(c, p, u4)
    BY <1>12 DEF Apart
  <1>14. Apart(c, p, u3, w4, u4)
    BY <1>2, <1>6, <1>7, <1>8, <1>9, <1>13, HeldApart
  <1>15. Holds(c, p, u3)
    BY <1>14 DEF Apart
  <1>16. Apart(c, p, u2, w3, u3)
    BY <1>1, <1>6, <1>7, <1>8, <1>9, <1>15, HeldApart
  <1>17. Holds(c, p, u2)
    BY <1>16 DEF Apart
  <1>18. Apart(c, p, w1, w2, u2)
    BY <1>1, <1>2, <1>6, <1>7, <1>8, <1>9, <1>17, HeldApart
  <1>19. Len(u2) = 2 /\ Len(u3) = 3 /\ Len(u4) = 4 /\ Len(u5) = 4 + Len(uoid)
         /\ Len(c) = 7 + Len(uoid)
    BY <1>1, <1>2, <1>3, <1>10, <1>12, <1>14, <1>16, <1>18 DEF Apart
  <1>20. /\ 2 \in Places(c) /\ 3 \in Places(c) /\ 4 \in Places(c) /\ 5 \in Places(c)
         /\ 5 + Len(uoid) \in Places(c) /\ 6 + Len(uoid) \in Places(c)
         /\ 7 + Len(uoid) \in Places(c) /\ 1 \in 1..Len(c)
    BY <1>5, <1>19 DEF Places
  <1>21. Holds(c, 1, w1) /\ Holds(c, 2, w2)
    BY <1>1, <1>18 DEF Apart, p
  <1>22. Holds(c, 3, w3)
    BY <1>16, <1>19 DEF Apart, p
  <1>23. Holds(c, 4, w4)
    BY <1>14, <1>19 DEF Apart, p
  <1>24. Holds(c, 5, uoid)
    BY <1>12, <1>19 DEF Apart, p
  <1>25. Holds(c, 5 + Len(uoid), w6)
    <2>1. p + Len(u5) = 5 + Len(uoid)
      BY <1>5, <1>19 DEF p
    <2> QED
      BY <1>10, <2>1 DEF Apart
  <1>26. c[1] = class
    <2>1. 1 \in 1..Len(w1) /\ 1 + 1 - 1 = 1
      BY <1>1
    <2>2. c[1 + 1 - 1] = w1[1]
      BY <1>21, <2>1 DEF Holds
    <2> QED
      BY <1>1, <2>1, <2>2
  <1> DEFINE q == 5 + Len(uoid)
  <1>27. c[q] = z1 /\ c[q + 1] = z2 /\ c[q + 2] = z3
    <2>1. 1 \in 1..3 /\ 2 \in 1..3 /\ 3 \in 1..3 /\ q + 1 - 1 = q /\ q + 2 - 1 = q + 1
          /\ q + 3 - 1 = q + 2
      BY <1>5
    <2>2. \A k \in 1..3 : c[q + k - 1] = w6[k]
      BY <1>3, <1>25 DEF Holds
    <2> HIDE DEF q
    <2>3. c[q + 1 - 1] = w6[1] /\ c[q + 2 - 1] = w6[2] /\ c[q + 3 - 1] = w6[3]
      BY <2>1, <2>2
    <2> QED
      BY <1>3, <2>1, <2>3
  <1>28. q \in 1..Len(c) /\ q + 1 \in 1..Len(c) /\ q + 2 \in 1..Len(c)
         /\ q + 1 = 6 + Len(uoid) /\ q + 2 = 7 + Len(uoid)
    BY <1>5, <1>19
  <1> DEFINE q1 == q + 1
             q2 == q + 2
             o1 == <<z1>>
             o2 == <<z2>>
             o3 == <<z3>>
  <1>29. /\ q \in 1..Len(c) /\ c[q] = z1 /\ o1 = <<z1>>
         /\ q1 \in 1..Len(c) /\ c[q1] = z2 /\ o2 = <<z2>>
         /\ q2 \in 1..Len(c) /\ c[q2] = z3 /\ o3 = <<z3>>
    BY <1>27, <1>28
  <1> HIDE DEF q, q1, q2, o1, o2, o3
  <1>30. Holds(c, q, o1)
    BY <1>8, <1>29, HoldsOne
  <1>31. Holds(c, q1, o2)
    BY <1>8, <1>29, HoldsOne
  <1>32. Holds(c, q2, o3)
    BY <1>8, <1>29, HoldsOne
  <1>33. Holds(c, 5 + Len(uoid), << <<"f64", 0>> >>)
    BY <1>30 DEF q, o1, z1
  <1>34. Holds(c, 6 + Len(uoid), << <<"u32", 1>> >>)
    BY <1>28, <1>31 DEF q1, o2, z2
  <1>35. Holds(c, 7 + Len(uoid), << <<"i32", type>> >>)
    BY <1>28, <1>32 DEF q2, o3, z3
  <1>36. /\ c[1] = <<"class", "ServerReplyMessage">> /\ Holds(c, 2, WriteBool(FALSE))
         /\ Holds(c, 3, << <<"i32", 1>> >>) /\ Holds(c, 4, WriteBool(TRUE))
    BY <1>21, <1>22, <1>23, <1>26 DEF class, w2, w3, w4
  <1> QED
    BY <1>5, <1>8, <1>20, <1>24, <1>33, <1>34, <1>35, <1>36 DEF IsReply

-----------------------------------------------------------------------------
Receivers == Many("i32", Key)

ReplyType == Legal("i32", {-1, 0, 1})

\* What the answer consists of.
LEMMA ReplyLayout ==
    /\ "ServerReplyMessage" # "null"
    /\ LayoutIn(Classes.Message, "ServerReplyMessage", UnknownMessage) = ServerReplyMessage
    /\ IsLayout(ServerReplyMessage, EngineItems)
  <1>1. /\ "ServerReplyMessage" \in DOMAIN Classes.Message /\ "Message" \in DOMAIN Classes
        /\ Classes.Message["ServerReplyMessage"] = ServerReplyMessage
    BY DEF Classes
  <1>2. IsLayout(Classes["Message"]["ServerReplyMessage"], EngineItems)
    <2>1. \A family \in DOMAIN Classes : \A class \in DOMAIN Classes[family] :
            IsLayout(Classes[family][class], EngineItems)
      BY ItemsAssumption DEF ItemsAssumption
    <2> QED
      BY <1>1, <2>1
  <1> QED
    BY <1>1, <1>2 DEF LayoutIn

LEMMA ReplyItems ==
    /\ IsSeq(ServerReplyMessage) /\ Len(ServerReplyMessage) = 5
    /\ ServerReplyMessage[1] = <<"sender", Key>>
    /\ ServerReplyMessage[2] = <<"receivers", Receivers>>
    /\ ServerReplyMessage[3] = <<"timestamp", F64>>
    /\ ServerReplyMessage[4] = <<"flags", U32>>
    /\ ServerReplyMessage[5] = <<"type", ReplyType>>
    /\ {Key, Receivers, F64, U32, ReplyType} \subseteq Items
  <1> DEFINE last == <<"type", ReplyType>>
             tail == <<last>>
  <1>1. IsSeq(tail) /\ Len(tail) = 1 /\ tail[1] = last
    BY Single
  <1>2. /\ IsSeq(Message) /\ Len(Message) = 4
        /\ Message[1] = <<"sender", Key>> /\ Message[2] = <<"receivers", Receivers>>
        /\ Message[3] = <<"timestamp", F64>> /\ Message[4] = <<"flags", U32>>
    <2> DEFINE m1 == <<"sender", Key>>
               m2 == <<"receivers", Receivers>>
               m3 == <<"timestamp", F64>>
               m4 == <<"flags", U32>>
    <2>1. Message = <<m1, m2, m3, m4>>
      BY DEF Message, Receivers
    <2> HIDE DEF m1, m2, m3, m4
    <2>2. Message \in Seq({m1, m2, m3, m4}) /\ Len(Message) = 4
          /\ Message[1] = m1 /\ Message[2] = m2 /\ Message[3] = m3 /\ Message[4] = m4
      BY <2>1
    <2> QED
      BY <2>2 DEF IsSeq, m1, m2, m3, m4
  <1>3. ServerReplyMessage = Message \o tail
    BY DEF ServerReplyMessage, ReplyType
  <1> DEFINE whole == ServerReplyMessage
  <1>4. /\ IsSeq(whole) /\ Len(whole) = 5
        /\ whole[1] = Message[1] /\ whole[2] = Message[2] /\ whole[3] = Message[3]
        /\ whole[4] = Message[4] /\ whole[5] = last
    <2> HIDE DEF tail, last, whole
    <2>1. whole = Message \o tail
      BY <1>3 DEF whole
    <2>2. IsSeq(whole) /\ Len(whole) = Len(Message) + Len(tail)
      BY <1>1, <1>2, <2>1, Concat
    <2>3. \A k \in 1..Len(Message) : whole[k] = Message[k]
      BY <1>1, <1>2, <2>1, Concat
    <2>4. \A k \in 1..Len(tail) : whole[Len(Message) + k] = tail[k]
      <3>1. IsSeq(Message) /\ IsSeq(tail)
        BY <1>1, <1>2
      <3>2. \A k \in 1..Len(tail) : (Message \o tail)[Len(Message) + k] = tail[k]
        BY <3>1, Concat
      <3> QED
        BY <2>1, <3>2
    <2>5. 1 \in 1..Len(tail) /\ Len(Message) + 1 = 5
      BY <1>1, <1>2
    <2>6. whole[Len(Message) + 1] = tail[1]
      BY <2>4, <2>5
    <2>7. 1 \in 1..Len(Message) /\ 2 \in 1..Len(Message) /\ 3 \in 1..Len(Message)
          /\ 4 \in 1..Len(Message)
      BY <1>2
    <2> QED
      BY <1>1, <1>2, <2>2, <2>3, <2>5, <2>6, <2>7
  <1>5. \A k \in 1..5 : whole[k][2] \in Items
    <2>1. whole \in Seq(STRING \X EngineItems)
      BY ReplyLayout DEF IsLayout
    <2> HIDE DEF whole
    <2> DEFINE S == STRING \X EngineItems
    <2>2. \A k \in 1..5 : whole[k] \in S
      <3>1. whole \in Seq(S)
        BY <2>1
      <3>2. Len(whole) = 5
        BY <1>4
      <3> HIDE DEF S
      <3> QED
        BY <3>1, <3>2, ElementOfSeq
    <2> QED
      BY <2>2 DEF Items
  <1>6. Key \in Items /\ Receivers \in Items /\ F64 \in Items /\ U32 \in Items /\ ReplyType \in Items
    <2>1. 1 \in 1..5 /\ 2 \in 1..5 /\ 3 \in 1..5 /\ 4 \in 1..5 /\ 5 \in 1..5
      OBVIOUS
    <2>2. /\ whole[1][2] = Key /\ whole[2][2] = Receivers /\ whole[3][2] = F64
          /\ whole[4][2] = U32 /\ whole[5][2] = ReplyType
      BY <1>2, <1>4
    <2> HIDE DEF whole
    <2> QED
      BY <1>5, <2>1, <2>2
  <1> QED
    BY <1>2, <1>4, <1>6

\* The object is not in too many others for the recursion limit.
LEMMA UoidFacts ==
    /\ Uoid \in Plain /\ Rank[Uoid] \in Nat
    /\ Nesting \in Nat /\ Nesting - 1 \in Nat /\ Nesting - 2 \in Nat
    /\ Rank[Uoid] <= Nesting - 2
    /\ Key.kind = "choice" /\ Key.yes = << <<"uoid", Uoid>> >> /\ Key.no = <<>>
    /\ Receivers.kind = "many" /\ Receivers.code = "i32" /\ Receivers.item = Key
    /\ ReplyType.kind = "legal" /\ ReplyType.code = "i32" /\ ReplyType.legal = {-1, 0, 1}
    /\ F64.kind = "number" /\ F64.code = "f64" /\ U32.kind = "number" /\ U32.code = "u32"
  <1>1. /\ Key.kind = "choice" /\ Key.yes = << <<"uoid", Uoid>> >> /\ Key.no = <<>>
        /\ Receivers.kind = "many" /\ Receivers.code = "i32" /\ Receivers.item = Key
        /\ ReplyType.kind = "legal" /\ ReplyType.code = "i32" /\ ReplyType.legal = {-1, 0, 1}
        /\ F64.kind = "number" /\ F64.code = "f64" /\ U32.kind = "number" /\ U32.code = "u32"
    <2>1. Key.kind = "choice" /\ Key.yes = << <<"uoid", Uoid>> >> /\ Key.no = <<>>
      BY DEF Key, Maybe, Choice
    <2>2. Receivers.kind = "many" /\ Receivers.code = "i32" /\ Receivers.item = Key
      BY DEF Receivers, Many
    <2> QED
      BY <2>1, <2>2 DEF ReplyType, Legal, F64, U32, Number
  <1>2. Rank[Uoid] < Rank[Key] /\ Uoid \in Items /\ Rank[Uoid] \in 1..MaxRank
    <2>1. Key.yes \in LayoutsOf(Key)
      BY <1>1, PartsFacts
    <2> DEFINE one == <<"uoid", Uoid>>
    <2>2. Uoid \in Fields(Key.yes)
      <3>1. Key.yes = <<one>> /\ one[2] = Uoid
        BY <1>1
      <3>2. 1 \in DOMAIN Key.yes /\ Key.yes[1] = one
        BY <3>1, Single, SeqFacts
      <3> QED
        BY <3>1, <3>2 DEF Fields
    <2>3. Uoid \in Parts(Key)
      BY <2>1, <2>2, PartsFacts
    <2>4. ~IsObject(Key)
      BY <1>1 DEF IsObject
    <2> QED
      BY <2>3, <2>4, ReplyItems, ItemFacts
  <1>3. Rank[Key] < Rank[Receivers] /\ Rank[Receivers] \in 1..MaxRank /\ Rank[Key] \in 1..MaxRank
    <2>1. Key \in Parts(Receivers)
      BY <1>1, PartsFacts
    <2>2. ~IsObject(Receivers)
      BY <1>1 DEF IsObject
    <2> QED
      BY <2>1, <2>2, ReplyItems, ItemFacts
  <1>4. Nesting \in Nat /\ Nesting >= 7 /\ MaxRank = 7
    BY StreamsAssumption DEF StreamsAssumption, MaxRank
  <1>5. Rank[Uoid] <= Nesting - 2 /\ Nesting - 1 \in Nat /\ Nesting - 2 \in Nat /\ Rank[Uoid] \in Nat
    BY <1>2, <1>3, <1>4
  <1>6. Uoid \in NetItems
    <2>1. /\ "NetMessageObjectStateRequest" \in DOMAIN NetMessages
          /\ NetMessages["NetMessageObjectStateRequest"] = << <<"uoid", Uoid>> >>
      BY DEF NetMessages, NetMessageObjectStateRequest, NetMessageObject
    <2> DEFINE layout == << <<"uoid", Uoid>> >>
    <2>2. NetMessageLayout("NetMessageObjectStateRequest") = layout
      BY <2>1 DEF NetMessageLayout, LayoutIn
    <2>3. Len(layout) = 1 /\ layout[1][2] = Uoid
      OBVIOUS
    <2> HIDE DEF layout
    <2> QED
      BY <2>2, <2>3, LayoutFacts
  <1>7. Uoid.kind = "flagged" /\ Uoid # NetMessageHeader
    <2>1. Uoid.kind = "flagged" /\ Uoid.code = "flags8" /\ NetMessageHeader.code = "flags32"
      BY DEF Uoid, Flagged, NetMessageHeader
    <2> QED
      BY <2>1
  <1>8. Uoid \in Plain
    BY <1>6, <1>7 DEF Plain
  <1> QED
    BY <1>1, <1>4, <1>5, <1>8

-----------------------------------------------------------------------------
IsKey(r, value, next) ==
    r = Got(r.value, r.wire, next) /\ r.value.there = TRUE /\ r.value.value.uoid = value

\* The key of the object is read back.
LEMMA KeyAt ==
    ASSUME NEW s, IsStream(s), NEW i \in Places(s), NEW a, a = Reader(s)[<<Uoid, i>>],
           a.error = "none",
           NEW c, NEW type, IsReply(c, a.wire, type),
           NEW r, r = Readers(c)[Nesting - 1][<<Key, 4>>]
    PROVE  IsKey(r, a.value, 5 + Len(a.wire))
  <1> DEFINE L == 5 + Len(a.wire)
             read == Readers(c)[Nesting - 2]
  <1>1. /\ Len(c) \in Nat /\ 4 \in Places(c) /\ Holds(c, 4, WriteBool(TRUE))
        /\ 5 \in Places(c) /\ Holds(c, 5, a.wire)
    BY DEF IsReply
  <1>2. read[<<Uoid, 5>>] = Got(a.value, a.wire, L)
    <2>1. Nesting - 2 \in Nat /\ Nesting \in Nat /\ Rank[Uoid] <= Nesting - 2 /\ Uoid \in Plain
      BY UoidFacts
    <2>2. Returns(s, Readers(s)[Nesting], c, Readers(c)[Nesting - 2], Uoid)
      BY <1>1, <2>1, NetBack
    <2>3. a = Readers(s)[Nesting][<<Uoid, i>>]
      BY DEF Reader
    <2>4. Back(c, read, Uoid, a.value, a.wire)
      BY <2>2, <2>3 DEF Returns
    <2> HIDE DEF read
    <2> QED
      BY <1>1, <2>4 DEF Back
  <1> DEFINE layout == << <<"uoid", Uoid>> >>
             v == ReadLayout(read, layout, 4 + 1)
             wire == a.wire
             value == a.value
             name == "uoid"
  <1>3. v.error = "none" /\ v.value[name] = value /\ v.next = L
    <2>1. read[<<Uoid, 4 + 1>>] = Got(value, wire, L)
      BY <1>2
    <2> DEFINE p == 4 + 1
    <2>2. layout = << <<name, Uoid>> >> /\ v = ReadLayout(read, layout, p)
      OBVIOUS
    <2>3. read[<<Uoid, p>>] = Got(value, wire, L)
      BY <2>1
    <2> HIDE DEF L, read, wire, value, name, v, layout, p
    <2> QED
      BY <2>2, <2>3, OneRead
  <1>4. r = ReadChoice(read, Key, c, 4)
    <2>1. Nesting - 2 \in Nat /\ Nesting - 1 = (Nesting - 2) + 1 /\ Key \in Items
          /\ Key.kind = "choice"
      BY UoidFacts, ReplyItems
    <2>2. Readers(c)[(Nesting - 2) + 1][<<Key, 4>>] = ReadItem(read, Key, c, 4)
      BY <1>1, <2>1, ReadersDef
    <2> HIDE DEF read
    <2> QED
      BY <2>1, <2>2, ReadItemOf
  <1>5. r = Got([there |-> TRUE, value |-> v.value], r.wire, v.next)
    <2> DEFINE p == 4
               yes == TRUE
    <2>1. /\ p \in Places(c) /\ yes \in BOOLEAN /\ Holds(c, p, WriteBool(yes))
          /\ v = ReadLayout(read, layout, p + 1) /\ r = ReadChoice(read, Key, c, p)
      BY <1>1, <1>4
    <2>2. layout = (IF yes THEN Key.yes ELSE Key.no)
      BY UoidFacts
    <2>3. Len(c) \in Nat /\ v.error = "none"
      BY <1>1, <1>3
    <2> HIDE DEF p, yes, read, v, layout
    <2>4. r = Got([there |-> yes, value |-> v.value], r.wire, v.next)
      BY <2>1, <2>2, <2>3, ChoiceAt
    <2> QED
      BY <2>4 DEF yes
  <1> DEFINE both == [there |-> TRUE, value |-> v.value]
  <1>6. both.there = TRUE /\ both.value.uoid = value
    BY <1>3
  <1> HIDE DEF both, v
  <1>7. r = Got(both, r.wire, L)
    BY <1>3, <1>5 DEF both, v
  <1>8. r.value = both
    BY <1>7, GotFacts
  <1> QED
    BY <1>6, <1>7, <1>8 DEF IsKey

\* Numbers where they are.
LEMMA NumberAt ==
    ASSUME NEW c, Len(c) \in Nat, NEW p \in Places(c), NEW item \in Items,
           item.kind = "number", NEW code, code = item.code, NEW v,
           Holds(c, p, << <<code, v>> >>), NEW r, r = Reader(c)[<<item, p>>]
    PROVE  r = Got(v, << <<code, v>> >>, p + 1)
  <1>1. r = Take(code, c, p)
    BY ReaderDef, ReadItemOf
  <1> QED
    BY <1>1, TakeBack

\* The receiver of the answer is the object.
LEMMA ReplyRead ==
    ASSUME NEW s, IsStream(s), NEW i \in Places(s), NEW a, a = Reader(s)[<<Uoid, i>>],
           a.error = "none",
           NEW c, NEW type \in {0, 1}, IsReply(c, a.wire, type),
           NEW r, r = ReadLayout(Reader(c), ServerReplyMessage, 2)
    PROVE  r.error = "none" /\ r.value.receivers[1].value.uoid = a.value
  <1> DEFINE L == Len(a.wire)
             layout == ServerReplyMessage
             items == ItemsOf(layout)
             read == Reader(c)
             less == Readers(c)[Nesting - 1]
             r1 == read[<<Key, 2>>]
             r2 == read[<<Receivers, 3>>]
             key == less[<<Key, 4>>]
  <1>1. /\ Len(c) \in Nat /\ L \in Nat
        /\ 2 \in Places(c) /\ 3 \in Places(c) /\ 4 \in Places(c)
        /\ 5 + L \in Places(c) /\ 6 + L \in Places(c) /\ 7 + L \in Places(c)
    BY DEF IsReply
  <1>2. r1 = Got(r1.value, r1.wire, 3)
    <2> DEFINE p == 2
               yes == FALSE
               none == <<>>
               v == ReadLayout(less, none, p + 1)
    <2>1. Holds(c, 2, WriteBool(FALSE))
      BY DEF IsReply
    <2>2. r1 = ReadChoice(less, Key, c, 2)
      BY <1>1, UoidFacts, ReplyItems, ReaderDef, ReadItemOf
    <2>3. v = Got(<<>>, <<>>, p + 1)
      BY NothingRead
    <2>4. v.error = "none" /\ v.next = 3
      BY <2>3, GotFacts
    <2>5. none = (IF yes THEN Key.yes ELSE Key.no)
      BY UoidFacts
    <2>6. /\ p \in Places(c) /\ yes \in BOOLEAN /\ Holds(c, p, WriteBool(yes))
          /\ r1 = ReadChoice(less, Key, c, p) /\ v = ReadLayout(less, none, p + 1)
      BY <1>1, <2>1, <2>2
    <2> DEFINE both == [there |-> yes, value |-> v.value]
    <2> HIDE DEF p, yes, none, v, less, r1
    <2>7. r1 = Got(both, r1.wire, v.next)
      BY <1>1, <2>4, <2>5, <2>6, ChoiceAt
    <2> HIDE DEF both
    <2>8. r1.value = both
      BY <2>7, GotFacts
    <2> QED
      BY <2>4, <2>7, <2>8 DEF r1
  <1>3. /\ key = Got(key.value, key.wire, 5 + L)
        /\ key.value.there = TRUE /\ key.value.value.uoid = a.value
    <2>1. key = Readers(c)[Nesting - 1][<<Key, 4>>]
      OBVIOUS
    <2>2. IsReply(c, a.wire, type)
      OBVIOUS
    <2> HIDE DEF key
    <2>3. IsKey(key, a.value, 5 + Len(a.wire))
      BY <2>1, <2>2, KeyAt
    <2> QED
      BY <2>3 DEF IsKey
  <1>4. /\ r2 = Got(r2.value, r2.wire, 5 + L)
        /\ r2.value[1] = key.value
    <2> DEFINE p == 3
               n == 1
               code == "i32"
               v == <<key.value>>
               w == <<key.wire>>
               q == <<4, 5 + L>>
    <2>1. Holds(c, 3, << <<"i32", 1>> >>)
      BY DEF IsReply
    <2>2. r2 = ReadMany(less, Receivers, c, 3)
      BY <1>1, UoidFacts, ReplyItems, ReaderDef, ReadItemOf
    <2>3. q[1] = 4 /\ q[2] = 5 + L /\ v[1] = key.value /\ w[1] = key.wire
      OBVIOUS
    <2> HIDE DEF q, v, w, key, less, L
    <2>4. \A k \in 1..n : less[<<Receivers.item, q[k]>>] = Got(v[k], w[k], q[k + 1])
      <3> TAKE k \in 1..n
      <3>1. k = 1 /\ k + 1 = 2 /\ Receivers.item = Key
        BY UoidFacts
      <3> QED
        BY <1>3, <2>3, <3>1 DEF key
    <2>5. /\ p \in Places(c) /\ n \in Nat /\ Holds(c, p, << <<code, n>> >>)
          /\ code = Receivers.code /\ q[1] = p + 1 /\ n + 1 = 2 /\ 1 \in 1..n
          /\ r2 = ReadMany(less, Receivers, c, p)
      BY <1>1, <2>1, <2>2, <2>3, UoidFacts
    <2> HIDE DEF p, n, code, r2
    <2>6. Len(c) \in Nat
      BY <1>1
    <2> DEFINE next == q[n + 1]
    <2>7. IsManyOf(r2, n, v, next)
      BY <2>4, <2>5, <2>6, ManyAt
    <2> QED
      BY <2>3, <2>5, <2>7 DEF r2, key, L, IsManyOf
  <1> DEFINE w3 == << <<"f64", 0>> >>
             w4 == << <<"u32", 1>> >>
             w5 == << <<"i32", type>> >>
  <1>5. read[<<F64, 5 + L>>] = Got(0, w3, 6 + L)
    <2> DEFINE p == 5 + L
    <2>1. Holds(c, p, << <<"f64", 0>> >>) /\ p \in Places(c) /\ p + 1 = 6 + L
      BY <1>1 DEF IsReply
    <2> HIDE DEF p
    <2>2. F64 \in Items /\ F64.kind = "number" /\ F64.code = "f64"
      BY UoidFacts, ReplyItems
    <2>3. Reader(c)[<<F64, p>>] = Got(0, << <<"f64", 0>> >>, p + 1)
      BY <1>1, <2>1, <2>2, NumberAt
    <2> QED
      BY <2>1, <2>3 DEF p
  <1>6. read[<<U32, 6 + L>>] = Got(1, w4, 7 + L)
    <2> DEFINE p == 6 + L
    <2>1. Holds(c, p, << <<"u32", 1>> >>) /\ p \in Places(c) /\ p + 1 = 7 + L
      BY <1>1 DEF IsReply
    <2> HIDE DEF p
    <2>2. U32 \in Items /\ U32.kind = "number" /\ U32.code = "u32"
      BY UoidFacts, ReplyItems
    <2>3. Reader(c)[<<U32, p>>] = Got(1, << <<"u32", 1>> >>, p + 1)
      BY <1>1, <2>1, <2>2, NumberAt
    <2> QED
      BY <2>1, <2>3 DEF p
  <1>7. read[<<ReplyType, 7 + L>>] = Got(type, w5, 8 + L)
    <2> DEFINE p == 7 + L
               t == Take("i32", c, p)
    <2>1. Holds(c, p, w5) /\ p \in Places(c) /\ p + 1 = 8 + L
      BY <1>1 DEF IsReply
    <2> HIDE DEF p
    <2>2. t = Got(type, w5, p + 1)
      BY <1>1, <2>1, TakeBack
    <2> HIDE DEF w5
    <2>3. t.error = "none" /\ t.value \in {-1, 0, 1}
      BY <2>2, GotFacts
    <2>4. ReplyType \in Items /\ ReplyType.kind = "legal" /\ ReplyType.code = "i32"
          /\ ReplyType.legal = {-1, 0, 1}
      BY UoidFacts, ReplyItems
    <2>5. read[<<ReplyType, p>>] = Only(t, ReplyType.legal)
      <3>1. read[<<ReplyType, p>>] = ReadItem(less, ReplyType, c, p)
        BY <2>1, <2>4, ReaderDef
      <3>2. ReadItem(less, ReplyType, c, p) = Only(Take(ReplyType.code, c, p), ReplyType.legal)
        BY <2>4, ReadItemAs
      <3> QED
        BY <2>4, <3>1, <3>2
    <2>6. Only(t, ReplyType.legal) = t
      BY <2>3, <2>4, OnlyRead
    <2> QED
      BY <2>1, <2>2, <2>5, <2>6 DEF p, w5
  <1> DEFINE q == <<2, 3, 5 + L, 6 + L, 7 + L, 8 + L>>
             v == <<r1.value, r2.value, 0, 1, type>>
             w == <<r1.wire, r2.wire, w3, w4, w5>>
             all == ReadAll(read, items, 2)
  <1>8. /\ Len(items) = 5 /\ items[1] = Key /\ items[2] = Receivers /\ items[3] = F64
        /\ items[4] = U32 /\ items[5] = ReplyType
    <2>1. DOMAIN layout = 1..5
      BY ReplyItems, SeqFacts
    <2>2. items = [k \in 1..5 |-> layout[k][2]]
      BY <2>1 DEF ItemsOf
    <2>3. Len(items) = 5 /\ \A k \in 1..5 : items[k] = layout[k][2]
      BY <2>2
    <2>4. 1 \in 1..5 /\ 2 \in 1..5 /\ 3 \in 1..5 /\ 4 \in 1..5 /\ 5 \in 1..5
      OBVIOUS
    <2> HIDE DEF items
    <2> QED
      BY <2>3, <2>4, ReplyItems
  <1>9. /\ q[1] = 2 /\ q[2] = 3 /\ q[3] = 5 + L /\ q[4] = 6 + L /\ q[5] = 7 + L /\ q[6] = 8 + L
        /\ v[1] = r1.value /\ v[2] = r2.value /\ v[3] = 0 /\ v[4] = 1 /\ v[5] = type
        /\ w[1] = r1.wire /\ w[2] = r2.wire /\ w[3] = w3 /\ w[4] = w4 /\ w[5] = w5
    OBVIOUS
  <1> HIDE DEF q, v, w, w3, w4, w5, items
  <1>10. \A k \in 1..5 : read[<<items[k], q[k]>>] = Got(v[k], w[k], q[k + 1])
    <2>1. read[<<items[1], q[1]>>] = Got(v[1], w[1], q[2])
      BY <1>2, <1>8, <1>9
    <2>2. read[<<items[2], q[2]>>] = Got(v[2], w[2], q[3])
      BY <1>4, <1>8, <1>9
    <2>3. read[<<items[3], q[3]>>] = Got(v[3], w[3], q[4])
      BY <1>5, <1>8, <1>9
    <2>4. read[<<items[4], q[4]>>] = Got(v[4], w[4], q[5])
      BY <1>6, <1>8, <1>9
    <2>5. read[<<items[5], q[5]>>] = Got(v[5], w[5], q[6])
      BY <1>7, <1>8, <1>9
    <2> HIDE DEF read, r1, r2
    <2> TAKE k \in 1..5
    <2>6. k = 1 \/ k = 2 \/ k = 3 \/ k = 4 \/ k = 5
      OBVIOUS
    <2>7. 1 + 1 = 2 /\ 2 + 1 = 3 /\ 3 + 1 = 4 /\ 4 + 1 = 5 /\ 5 + 1 = 6
      OBVIOUS
    <2> QED
      BY <2>1, <2>2, <2>3, <2>4, <2>5, <2>6, <2>7
  <1>11. IsRead(all, v, 5, q)
    <2> DEFINE n == 5
    <2>1. n \in Nat /\ Len(items) = n /\ q[1] = 2
          /\ \A k \in 1..n : read[<<items[k], q[k]>>] = Got(v[k], w[k], q[k + 1])
      BY <1>8, <1>9, <1>10
    <2> HIDE DEF n, read
    <2>2. IsRead(ReadAll(read, items, 2), v, n, q)
      BY <2>1, AllAt
    <2> QED
      BY <2>2 DEF n
  <1>12. all.error = "none" /\ IsSeq(all.value) /\ Len(all.value) = 5
         /\ all.value[2].value = r2.value
    <2>1. 2 \in 1..5
      OBVIOUS
    <2> HIDE DEF all, r2
    <2> QED
      BY <1>9, <1>11, <2>1 DEF IsRead
  <1> HIDE DEF r2, key
  <1> DEFINE fields == ByName(layout, Values(all.value))
  <1>13. r = Got(fields, all.wire, all.next)
    <2> HIDE DEF layout, read
    <2>1. r = ReadLayout(read, layout, 2)
      BY DEF layout, read
    <2> QED
      BY <1>12, <2>1 DEF ReadLayout, Then, items
  <1> HIDE DEF all
  <1>14. r.error = "none" /\ r.value = fields
    BY <1>13, GotFacts
  <1>15. fields["receivers"] = all.value[2].value
    <2> DEFINE name == "receivers"
               k == Place(layout, name)
    <2>1. IsSeq(layout) /\ Len(layout) = 5 /\ layout[2][1] = name /\ 2 \in 1..5
      BY ReplyItems
    <2>2. name \in DOMAIN fields
      BY <1>12, <2>1, FieldRead
    <2>3. k \in 1..5 /\ layout[k][1] = name /\ fields[name] = all.value[k].value
      BY <1>12, <2>1, <2>2, FieldRead
    <2> HIDE DEF k, fields
    <2>4. k = 2
      <3>1. k = 1 \/ k = 2 \/ k = 3 \/ k = 4 \/ k = 5
        BY <2>3
      <3> QED
        BY <2>3, <3>1, ReplyItems
    <2> QED
      BY <2>3, <2>4
  <1> HIDE DEF fields
  <1>16. fields.receivers[1] = key.value
    BY <1>4, <1>12, <1>15 DEF r2, key
  <1>17. key.value.value.uoid = a.value
    BY <1>3 DEF key
  <1> QED
    BY <1>14, <1>16, <1>17

-----------------------------------------------------------------------------
IsJoined(u, v, w) ==
    /\ IsSeq(w) /\ Len(w) = Len(u) + Len(v)
    /\ \A k \in 1..Len(u) : w[k] = u[k]
    /\ \A k \in 1..Len(v) : w[Len(u) + k] = v[k]

LEMMA Joined ==
    ASSUME NEW u, NEW v, IsSeq(u), IsSeq(v), NEW w, w = u \o v
    PROVE  IsJoined(u, v, w)
  <1>1. IsSeq(u \o v) /\ Len(u \o v) = Len(u) + Len(v)
    BY Concat
  <1>2. \A k \in 1..Len(u) : (u \o v)[k] = u[k]
    BY Concat
  <1>3. \A k \in 1..Len(v) : (u \o v)[Len(u) + k] = v[k]
    BY Concat
  <1> QED
    BY <1>1, <1>2, <1>3 DEF IsJoined

\* The layouts of the request and of the answer.
LEMMA RequestObject ==
    ASSUME NEW layout, layout = NetMessageLayout("NetMessageTestAndSet")
    PROVE  1 \in 1..Len(layout) /\ layout[1] = <<"uoid", Uoid>>
  <1> DEFINE first == <<"uoid", Uoid>>
             u == <<first>>
             v == StreamFields
             w == << <<"lock_request", Bool>> >>
  <1>1. layout = (u \o v) \o w
    BY DEF NetMessageLayout, LayoutIn, NetMessages, NetMessageTestAndSet,
           NetMessageStreamedObject, NetMessageObject
  <1>2. IsSeq(u) /\ Len(u) = 1 /\ u[1] = first /\ IsSeq(v) /\ Len(v) = 1 /\ IsSeq(w) /\ Len(w) = 1
    BY Single DEF StreamFields
  <1> HIDE DEF u, v, w, first
  <1> DEFINE both == u \o v
  <1>3. IsSeq(both) /\ Len(both) = 2 /\ \A k \in 1..Len(u) : both[k] = u[k]
    <2>1. both = u \o v
      OBVIOUS
    <2> HIDE DEF both
    <2>2. IsJoined(u, v, both)
      BY <1>2, <2>1, Joined
    <2> QED
      BY <1>2, <2>2 DEF IsJoined
  <1>4. both[1] = first
    BY <1>2, <1>3
  <1> HIDE DEF both
  <1>5. layout = both \o w
    BY <1>1 DEF both
  <1>6. Len(layout) = 3 /\ \A k \in 1..Len(both) : layout[k] = both[k]
    <2>1. IsJoined(both, w, layout)
      BY <1>2, <1>3, <1>5, Joined
    <2> QED
      BY <1>2, <1>3, <2>1 DEF IsJoined
  <1>7. layout[1] = both[1]
    BY <1>3, <1>6
  <1> QED
    BY <1>4, <1>6, <1>7 DEF first

LEMMA AnswerLayout ==
    ASSUME NEW layout, layout = NetMessageLayout("NetMessageGameMessage")
    PROVE  /\ IsSeq(layout) /\ Len(layout) = 2
           /\ layout[1] = <<"stream", [kind |-> "stream"]>>
           /\ layout[2] = <<"delivery_time", [kind |-> "delivery"]>>
           /\ {layout[1][2], layout[2][2]} \subseteq Items
  <1> DEFINE first == <<"stream", [kind |-> "stream"]>>
             second == <<"delivery_time", [kind |-> "delivery"]>>
             u == <<first>>
             v == <<second>>
  <1>1. layout = u \o v
    BY DEF NetMessageLayout, LayoutIn, NetMessages, NetMessageGameMessage, NetMessageStream,
           StreamFields
  <1>2. IsSeq(u) /\ Len(u) = 1 /\ u[1] = first /\ IsSeq(v) /\ Len(v) = 1 /\ v[1] = second
    BY Single
  <1> HIDE DEF u, v, first, second
  <1>10. IsJoined(u, v, layout)
    BY <1>1, <1>2, Joined
  <1>3. IsSeq(layout) /\ Len(layout) = 2 /\ \A k \in 1..Len(u) : layout[k] = u[k]
    BY <1>2, <1>10 DEF IsJoined
  <1>4. \A k \in 1..Len(v) : layout[Len(u) + k] = v[k]
    BY <1>10 DEF IsJoined
  <1>5. layout[1] = first
    BY <1>2, <1>3
  <1>6. layout[2] = second
    <2>1. 1 \in 1..Len(v) /\ Len(u) + 1 = 2
      BY <1>2
    <2> QED
      BY <1>2, <1>4, <2>1
  <1>7. \A k \in 1..Len(layout) : layout[k][2] \in NetItems
    BY LayoutFacts
  <1>8. layout[1][2] \in Items /\ layout[2][2] \in Items
    BY <1>3, <1>7 DEF Items
  <1> QED
    BY <1>3, <1>5, <1>6, <1>8 DEF first, second

\* A game message of the server has the stream that was put into it.
LEMMA AnswerBack ==
    ASSUME NEW content, NEW long \in BOOLEAN,
           NEW stream, stream = compress_and_set_data(content, long),
           NEW t, t = Written("NetMessageGameMessage", Header,
                              WriteStream(stream) \o WriteDelivery(Start)),
           NEW r, r = ReadBuffer([type |-> t[1][2], tokens |-> t])
    PROVE  r.error = "none" /\ r.value.fields.stream = stream
  <1> DEFINE class == "NetMessageGameMessage"
             w1 == WriteStream(stream)
             w2 == WriteDelivery(Start)
             rest == w1 \o w2
             layout == NetMessageLayout(class)
             item1 == layout[1][2]
             item2 == layout[2][2]
             length == stream.length
             type == stream.type
             data == stream.data
  <1>1. type \in {0, 2, 3} /\ stream = [length |-> length, type |-> type, data |-> data]
    BY DEF compress_and_set_data
  <1>2. IsSeq(w1) /\ IsSeq(w2)
    BY StreamWritten, DeliveryWritten DEF Writes
  <1>3. IsSeq(rest)
    BY <1>2, Concat
  <1> HIDE DEF length, type, data
  <1>4. IsWritten(t, class, Header, rest)
    BY <1>3, WrittenBack, ServerHeaders
  <1> DEFINE p == HeaderOf(t).next
             p2 == p + Len(w1)
             p3 == p2 + Len(w2)
  <1>5. /\ Len(t) \in Nat /\ t[1][2] = class /\ 2 \in Places(t)
        /\ p \in Places(t) /\ Holds(t, p, rest)
    BY <1>4 DEF IsWritten
  <1> HIDE DEF p
  <1>6. Apart(t, p, w1, w2, rest)
    <2>1. rest = w1 \o w2
      OBVIOUS
    <2> HIDE DEF rest, w1, w2
    <2> QED
      BY <1>2, <1>5, <2>1, HeldApart
  <1>7. Holds(t, p, w1) /\ p2 \in Places(t) /\ Holds(t, p2, w2) /\ p + Len(rest) = p3
    BY <1>6 DEF Apart
  <1>8. LayoutOf(t) = layout
    BY <1>5 DEF LayoutOf
  <1>9. /\ IsSeq(layout) /\ Len(layout) = 2 /\ layout[1][1] = "stream"
        /\ item1 \in Items /\ item1.kind = "stream" /\ item2 \in Items /\ item2.kind = "delivery"
        /\ layout[2][1] # "stream"
    BY AnswerLayout
  <1> HIDE DEF layout, rest, w1, w2
  <1> DEFINE read == Reader(t)
  <1>10. read[<<item1, p>>] = Got(stream, w1, p2)
    <2>1. read[<<item1, p>>] = ReadStream(t, p)
      BY <1>5, <1>9, ReaderDef, ReadItemOf
    <2>2. ReadStream(t, p) = Got(stream, w1, p + Len(w1))
      BY <1>1, <1>5, <1>7, StreamBack DEF w1
    <2> QED
      BY <2>1, <2>2
  <1>11. read[<<item2, p2>>] = Got(Start, w2, p3)
    <2>1. read[<<item2, p2>>] = ReadDelivery(t, p2)
      BY <1>7, <1>9, ReaderDef, ReadItemOf
    <2>2. Start \in Nat \X (0..(Second - 1)) /\ Start[1] < Eternity
      BY StreamsAssumption DEF StreamsAssumption, Start
    <2>3. w2 = WriteDelivery(Start)
      BY DEF w2
    <2> HIDE DEF p2
    <2>4. ReadDelivery(t, p2) = Got(Start, w2, p2 + Len(w2))
      BY <1>5, <1>7, <2>2, <2>3, DeliveryBack
    <2> QED
      BY <2>1, <2>4
  <1> HIDE DEF p2, p3, item1, item2, read
  <1> DEFINE all == AllOf(t)
             items == ItemsOf(layout)
  <1>12. all = ReadAll(read, items, p)
    BY <1>8 DEF AllOf, read, p
  <1>13. Len(items) = 2 /\ items[1] = item1 /\ items[2] = item2
    <2>1. DOMAIN layout = 1..2
      BY <1>9, SeqFacts
    <2>2. items = [k \in 1..2 |-> layout[k][2]]
      BY <2>1 DEF ItemsOf
    <2> QED
      BY <2>2 DEF item1, item2
  <1> DEFINE q == <<p, p2, p3>>
             vs == <<stream, Start>>
             ws == <<w1, w2>>
  <1>14. /\ q[1] = p /\ q[2] = p2 /\ q[3] = p3 /\ vs[1] = stream /\ vs[2] = Start
         /\ ws[1] = w1 /\ ws[2] = w2
    OBVIOUS
  <1> HIDE DEF q, vs, ws, items, all
  <1>15. IsRead(all, vs, 2, q)
    <2> DEFINE n == 2
    <2>1. \A k \in 1..n : read[<<items[k], q[k]>>] = Got(vs[k], ws[k], q[k + 1])
      <3> TAKE k \in 1..n
      <3>1. k = 1 \/ k = 2
        OBVIOUS
      <3>2. 1 + 1 = 2 /\ 2 + 1 = 3
        OBVIOUS
      <3> QED
        BY <1>10, <1>11, <1>13, <1>14, <3>1, <3>2
    <2>2. n \in Nat /\ Len(items) = n
      BY <1>13
    <2> HIDE DEF n
    <2>3. IsRead(all, vs, n, q)
      BY <1>12, <1>14, <2>1, <2>2, AllAt
    <2> QED
      BY <2>3 DEF n
  <1>16. /\ all.error = "none" /\ IsSeq(all.value) /\ Len(all.value) = 2
         /\ all.value[1].value = stream /\ all.next = p3
    <2>1. 1 \in 1..2 /\ 2 + 1 = 3
      OBVIOUS
    <2> QED
      BY <1>14, <1>15, <2>1 DEF IsRead
  <1>17. r.error = "none" /\ r.value = MessageOf(t)
    <2>1. AllOf(t).error = "none" /\ AllOf(t).next = HeaderOf(t).next + Len(rest)
      BY <1>7, <1>16 DEF all, p
    <2> QED
      BY <1>4, <2>1, BufferBack
  <1> DEFINE fields == ByName(layout, Values(all.value))
             name == "stream"
             k == Place(layout, name)
  <1>18. MessageOf(t).fields = fields
    BY <1>8 DEF MessageOf, all
  <1>19. fields[name] = stream
    <2>1. 1 \in 1..Len(layout) /\ layout[1][1] = name
      BY <1>9
    <2>2. name \in DOMAIN fields
      BY <1>9, <1>16, <2>1, FieldRead
    <2>3. k \in 1..2 /\ layout[k][1] = name /\ fields[name] = all.value[k].value
      BY <1>9, <1>16, <2>2, FieldRead
    <2> HIDE DEF k, fields
    <2>4. k = 1
      BY <1>9, <2>3
    <2> QED
      BY <1>16, <2>3, <2>4
  <1> HIDE DEF fields
  <1> QED
    BY <1>17, <1>18, <1>19

-----------------------------------------------------------------------------
LEMMA Unpacked ==
    ASSUME NEW content, NEW long \in BOOLEAN
    PROVE  decompress_data(compress_and_set_data(content, long)) = Got(content, <<>>, 1)
  <1> DEFINE stream == compress_and_set_data(content, long)
  <1>1. CASE long
    <2>1. stream.length = 1 /\ stream.type = 2 /\ stream.data.packing = "zlib"
          /\ stream.data.content = content
      BY <1>1 DEF compress_and_set_data
    <2> HIDE DEF stream
    <2> QED
      BY <2>1 DEF decompress_data, stream
  <1>2. CASE ~long
    <2>1. stream.length = 0 /\ stream.type = 0 /\ stream.data.packing = "plain"
          /\ stream.data.content = content
      BY <1>2 DEF compress_and_set_data
    <2> HIDE DEF stream
    <2> QED
      BY <2>1 DEF decompress_data, stream
  <1> QED
    BY <1>1, <1>2

\* The answer to a TestAndSet, and how a client understands it.
IsLockReply(t, m) ==
    \E type \in {0, 1}, long \in BOOLEAN :
      \E content \in {WriteServerReply(m.wires.uoid, type)} :
        t = Written("NetMessageGameMessage", Header,
                    WriteStream(compress_and_set_data(content, long)) \o WriteDelivery(Start))

IsForObject(r, m) ==
    /\ r.error = "none"
    /\ ReadWrapped(r.value).value.fields.receivers[1].value.uoid = m.fields.uoid

\* The answer to a TestAndSet is read, and its receiver is the object.
LEMMA TestAndSetBack ==
    ASSUME NEW s, WasRead(s), NEW m, m = MessageOf(s), m.class = "NetMessageTestAndSet",
           NEW t, IsLockReply(t, m),
           NEW r, r = ReadBuffer([type |-> t[1][2], tokens |-> t])
    PROVE  IsForObject(r, m)
  <1> SUFFICES ASSUME NEW type \in {0, 1}, NEW long \in BOOLEAN,
                      NEW content, content = WriteServerReply(m.wires.uoid, type),
                      t = Written("NetMessageGameMessage", Header,
                                  WriteStream(compress_and_set_data(content, long))
                                    \o WriteDelivery(Start))
               PROVE  IsForObject(r, m)
    BY DEF IsLockReply
  <1>1. PICK p \in Places(s) : FieldOf(s, "uoid", 1, p)
    <2>1. m.class = s[1][2]
      BY DEF MessageOf
    <2> DEFINE layout == LayoutOf(s)
    <2>2. layout = NetMessageLayout("NetMessageTestAndSet")
      BY <2>1 DEF LayoutOf
    <2> HIDE DEF layout
    <2>3. 1 \in 1..Len(layout) /\ layout[1] = <<"uoid", Uoid>>
      BY <2>2, RequestObject
    <2>4. LayoutOf(s)[1][1] = "uoid" /\ 1 \in 1..Len(LayoutOf(s))
      BY <2>3 DEF layout
    <2>5. \E p : FieldOf(s, LayoutOf(s)[1][1], 1, p)
      BY <2>4, FieldFacts
    <2> QED
      BY <2>4, <2>5 DEF FieldOf
  <1> DEFINE a == Reader(s)[<<Uoid, p>>]
  <1>2. a.error = "none" /\ m.fields.uoid = a.value /\ m.wires.uoid = a.wire
    <2>1. LayoutOf(s)[1][2] = Uoid
      <3> DEFINE layout == LayoutOf(s)
      <3>1. layout = NetMessageLayout("NetMessageTestAndSet")
        BY DEF LayoutOf, MessageOf
      <3> HIDE DEF layout
      <3>2. layout[1] = <<"uoid", Uoid>>
        BY <3>1, RequestObject
      <3> QED
        BY <3>2 DEF layout
    <2> QED
      BY <1>1, <2>1 DEF FieldOf
  <1>3. IsStream(s) /\ Uoid \in NetItems
    BY UoidFacts, PlainFacts DEF WasRead
  <1>4. IsSeq(a.wire)
    <2>1. Result(s, p, a, Basic, {})
      BY <1>3, NetReaderResult
    <2> HIDE DEF a
    <2> QED
      BY <1>2, <2>1, NoneIsNoError, ResultError DEF Writes
  <1>5. IsReply(content, a.wire, type)
    <2>1. content = WriteServerReply(a.wire, type)
      BY <1>2
    <2> HIDE DEF a
    <2> QED
      BY <1>4, <2>1, ReplyWritten
  <1> DEFINE stream == compress_and_set_data(content, long)
             class == Take("class", content, 1)
             v == ReadLayout(Reader(content), ServerReplyMessage, 2)
             n == r.value
             w == ReadWrapped(n)
  <1>6. r.error = "none" /\ n.fields.stream = stream
    BY AnswerBack
  <1>7. decompress_data(n.fields.stream) = Got(content, <<>>, 1)
    BY <1>6, Unpacked
  <1>8. class.error = "none" /\ class.value = "ServerReplyMessage" /\ class.next = 2
    <2> DEFINE i == 1
               name == "ServerReplyMessage"
               token == <<"class", name>>
    <2>1. Len(content) \in Nat /\ i \in 1..Len(content) /\ content[i] = token /\ i + 1 = 2
      BY <1>5 DEF IsReply
    <2>2. token = <<"class", name>>
      OBVIOUS
    <2> HIDE DEF i, token
    <2>3. TakesAt(content, i, "class", name)
      BY <2>1, <2>2, TakeAt
    <2> QED
      BY <2>1, <2>3 DEF TakesAt, i
  <1>9. v.error = "none" /\ v.value.receivers[1].value.uoid = a.value
    <2>1. a = Reader(s)[<<Uoid, p>>]
      OBVIOUS
    <2> HIDE DEF a
    <2> QED
      BY <1>2, <1>3, <1>5, <2>1, ReplyRead
  <1> HIDE DEF n, stream, class, v
  <1> DEFINE data == decompress_data(n.fields.stream)
  <1>10. data.error = "none" /\ data.value = content
    BY <1>7, GotFacts
  <1> HIDE DEF data
  <1> DEFINE both == [class |-> class.value, fields |-> v.value]
  <1>11. w = Got(both, <<>>, v.next)
    <2>1. LayoutIn(Classes.Message, class.value, UnknownMessage) = ServerReplyMessage
          /\ class.value # "null"
      BY <1>8, ReplyLayout
    <2>2. class = Take("class", data.value, 1)
      BY <1>10 DEF class
    <2>3. v = ReadLayout(Reader(data.value),
                         LayoutIn(Classes.Message, class.value, UnknownMessage), class.next)
      BY <1>8, <1>10, <2>1 DEF v
    <2> HIDE DEF both
    <2>4. Then(class, LAMBDA c :
            IF c.value = "null" THEN Raises("ValueError")
            ELSE Then(ReadLayout(Reader(data.value),
                                 LayoutIn(Classes.Message, c.value, UnknownMessage), c.next),
                      LAMBDA l : Got([class |-> c.value, fields |-> l.value], <<>>, l.next)))
          = Got(both, <<>>, v.next)
      BY <1>8, <1>9, <2>1, <2>3 DEF Then, both
    <2> QED
      BY <1>10, <2>2, <2>4 DEF ReadWrapped, Then, data
  <1>12. w.value = both
    <2> HIDE DEF both, w
    <2> QED
      BY <1>11, GotFacts
  <1>13. both.fields = v.value
    OBVIOUS
  <1>14. w.value.fields.receivers[1].value.uoid = a.value
    <2> HIDE DEF w, both
    <2> QED
      BY <1>9, <1>12, <1>13
  <1> QED
    BY <1>2, <1>6, <1>14 DEF n, IsForObject

-----------------------------------------------------------------------------
\* There is no reply, or one that the client understands.
IsUnderstood(m) ==
    \/ replies' = <<>>
    \/ \E tokens :
         /\ replies' = <<Reply(tokens)>>
         /\ Understood(ReadBuffer([type |-> tokens[1][2], tokens |-> tokens]), m)

LEMMA EchoUnderstood ==
    ASSUME NEW s, WasRead(s), NEW m, m = MessageOf(s), m.class \in Echoed,
           NEW error, Echo(m, error)
    PROVE  IsUnderstood(m)
  <1>1. CASE ~Echoes(m) /\ Handles(error, <<>>)
    BY <1>1 DEF Handles, IsUnderstood
  <1>2. ASSUME NEW tokens, tokens = Written(m.class, m.header, m.wire), Wrote(tokens),
               Handles(error, <<Reply(tokens)>>)
        PROVE  IsUnderstood(m)
    <2> DEFINE r == ReadBuffer([type |-> tokens[1][2], tokens |-> tokens])
    <2>1. r = ReadBuffer([type |-> tokens[1][2], tokens |-> tokens])
      OBVIOUS
    <2> HIDE DEF r
    <2>2. /\ r.error = "none" /\ r.value.class = m.class
          /\ r.value.header = Stamped(m.header) /\ r.value.fields = m.fields
      BY <1>2, <2>1, EchoBack
    <2>3. m.class # "NetMessageTestAndSet"
      BY DEF Echoed, GameMessages, SDLStates
    <2>4. Understood(r, m)
      BY <2>2, <2>3 DEF Understood, Answers
    <2>5. replies' = <<Reply(tokens)>>
      BY <1>2 DEF Handles
    <2> QED
      BY <2>1, <2>4, <2>5 DEF IsUnderstood
  <1>3. CASE Handles("struct.error", <<>>)
    BY <1>3 DEF Handles, IsUnderstood
  <1> QED
    BY <1>1, <1>2, <1>3 DEF Echo

LEMMA TestAndSetUnderstood ==
    ASSUME NEW s, WasRead(s), NEW m, m = MessageOf(s), m.class = "NetMessageTestAndSet",
           HandleTestAndSet(m)
    PROVE  IsUnderstood(m)
  <1>1. CASE replies' = <<>>
    BY <1>1 DEF IsUnderstood
  <1>2. ASSUME NEW tokens, IsLockReply(tokens, m), replies' = <<Reply(tokens)>>
        PROVE  IsUnderstood(m)
    <2> DEFINE r == ReadBuffer([type |-> tokens[1][2], tokens |-> tokens])
    <2>1. r = ReadBuffer([type |-> tokens[1][2], tokens |-> tokens])
      OBVIOUS
    <2> HIDE DEF r
    <2>2. IsForObject(r, m)
      BY <1>2, <2>1, TestAndSetBack
    <2>3. Understood(r, m)
      BY <2>2 DEF IsForObject, Understood, Answers
    <2> QED
      BY <1>2, <2>1, <2>3 DEF IsUnderstood
  <1>3. replies' = <<>> \/ \E tokens : IsLockReply(tokens, m) /\ replies' = <<Reply(tokens)>>
    BY DEF HandleTestAndSet, Handles, IsLockReply
  <1> QED
    BY <1>1, <1>2, <1>3

LEMMA MembersUnderstood ==
    ASSUME NEW m, m.class = "NetMessageMembersListRequest", HandleMembersListRequest
    PROVE  IsUnderstood(m)
  <1> DEFINE tokens == Written("NetMessageMembersList", SystemHeader, << <<"i16", 0>> >>)
             r == ReadBuffer([type |-> tokens[1][2], tokens |-> tokens])
  <1>1. replies' = <<Reply(tokens)>>
    BY DEF HandleMembersListRequest, Handles
  <1>2. tokens = Written("NetMessageMembersList", SystemHeader, << <<"i16", 0>> >>)
    OBVIOUS
  <1> HIDE DEF tokens
  <1>3. r = ReadBuffer([type |-> tokens[1][2], tokens |-> tokens])
    OBVIOUS
  <1> HIDE DEF r
  <1>4. r.error = "none"
    BY <1>2, <1>3, MembersBack
  <1>5. Understood(r, m)
    BY <1>4 DEF Understood, Answers
  <1> QED
    BY <1>1, <1>3, <1>5 DEF IsUnderstood

LEMMA HandleUnderstood ==
    ASSUME NEW s, WasRead(s), NEW m, m = MessageOf(s), Handle(m)
    PROVE  IsUnderstood(m)
  <1>1. CASE replies' = <<>>
    BY <1>1 DEF IsUnderstood
  <1>2. CASE m.class \in GameMessages /\ HandleGameMessage(m)
    <2>1. replies' = <<>> \/ Echo(m, "none")
      BY <1>2 DEF HandleGameMessage, Handles
    <2>2. m.class \in Echoed
      BY <1>2 DEF Echoed
    <2> QED
      BY <1>1, <2>1, <2>2, EchoUnderstood
  <1>3. CASE m.class \in SDLStates /\ HandleSDLState(m)
    <2>1. m.class \in Echoed
      BY <1>3 DEF Echoed
    <2> DEFINE error == decompress_data(m.fields.stream).error
    <2>2. Echo(m, error)
      BY <1>3 DEF HandleSDLState
    <2> HIDE DEF error
    <2> QED
      BY <2>1, <2>2, EchoUnderstood
  <1>4. CASE m.class = "NetMessageVoice" /\ Echo(m, "none")
    <2>1. m.class \in Echoed
      BY <1>4 DEF Echoed
    <2> QED
      BY <1>4, <2>1, EchoUnderstood
  <1>5. CASE m.class = "NetMessageTestAndSet" /\ HandleTestAndSet(m)
    BY <1>5, TestAndSetUnderstood
  <1>6. CASE m.class = "NetMessageMembersListRequest" /\ HandleMembersListRequest
    BY <1>6, MembersUnderstood
  <1> QED
    BY <1>1, <1>2, <1>3, <1>4, <1>5, <1>6 DEF Handle, Handles

-----------------------------------------------------------------------------
LEMMA AgreeKept ==
    ASSUME client \in Clients, Promised
    PROVE  Agree.on = (client = "crypt")
  <1> DEFINE a == [error |-> IF config.encryption = "force" THEN "ProtocolError" ELSE "none",
                   on |-> FALSE]
             b == [error |-> "none", on |-> FALSE]
             c == [error |-> IF client = "short" THEN "ProtocolError" ELSE "none",
                   on |-> client # "short"]
  <1>1. Agree = IF client = "plain" THEN a ELSE IF ~HasKeys THEN b ELSE c
    BY DEF Agree
  <1>2. a.on = FALSE /\ b.on = FALSE /\ c.on = (client # "short")
    OBVIOUS
  <1> HIDE DEF a, b, c
  <1> QED
    BY <1>1, <1>2 DEF Promised, HasKeys, Clients

\* Before messages are read there are none, and after that the cipher is there for
\* the clients that expect it.
EchoInv ==
    /\ EchoFaithful
    /\ config \in Configs /\ client \in Clients
    /\ stage \notin {"answered", "closed"} => message = <<>> /\ replies = <<>>
    /\ stage \in {"messages", "answered"} /\ Promised => cipher = (client = "crypt")

\* A step after which there is no message, or no reply.
Silent ==
    /\ UNCHANGED <<config, client, cipher>>
    /\ message' = <<>> \/ replies' = <<>>
    /\ \/ /\ stage' \in {"header", "data", "setup", "messages"}
          /\ message' = <<>> /\ replies' = <<>>
       \/ stage' \in {"answered", "closed"}
    /\ stage \in {"messages", "answered"} \/ stage' \notin {"messages", "answered"}

LEMMA SilentStep ==
    ASSUME EchoInv, Silent
    PROVE  EchoInv'
  <1>1. EchoFaithful'
    BY DEF EchoFaithful, Silent
  <1>2. Promised' = Promised
    BY DEF Promised, Silent
  <1> QED
    BY <1>1, <1>2 DEF EchoInv, Silent

LEMMA EchoInit == Init => EchoInv
  BY DEF Init, EchoInv, EchoFaithful

LEMMA EchoStep == EchoInv /\ [Next]_vars => EchoInv'
  <1> SUFFICES ASSUME EchoInv, [Next]_vars PROVE EchoInv'
    OBVIOUS
  <1>1. CASE UNCHANGED vars
    <2>1. UNCHANGED <<config, client, stage, cipher, message, replies>>
      BY <1>1 DEF vars
    <2>2. Promised' = Promised
      BY <2>1 DEF Promised
    <2>3. EchoFaithful'
      BY <2>1, <2>2 DEF EchoInv, EchoFaithful, ClientReads
    <2> QED
      BY <2>1, <2>2, <2>3 DEF EchoInv
  <1>2. stage \notin {"answered", "closed"} => message = <<>> /\ replies = <<>>
    BY DEF EchoInv
  <1>3. CASE ConnectionType
    <2>1. Silent
      BY <1>2, <1>3 DEF ConnectionType, Goes, End, Silent
    <2> QED
      BY <2>1, SilentStep
  <1>4. CASE read_connect_packet_header
    <2>1. Silent
      BY <1>2, <1>4 DEF read_connect_packet_header, Goes, End, Silent
    <2> QED
      BY <2>1, SilentStep
  <1>5. CASE read_connect_packet_data
    <2>1. Silent
      BY <1>2, <1>5 DEF read_connect_packet_data, Goes, End, Silent
    <2> QED
      BY <2>1, SilentStep
  <1>6. CASE NotSetup
    <2>1. Silent
      BY <1>2, <1>6 DEF NotSetup, End, Silent
    <2> QED
      BY <2>1, SilentStep
  <1>7. CASE setup_encryption
    <2>1. /\ UNCHANGED <<config, client, message, replies>> /\ cipher' = Agree.on
          /\ stage = "setup" /\ stage' \in {"messages", "closed"}
      BY <1>7 DEF setup_encryption, Goes, End
    <2>2. Promised' = Promised
      BY <2>1 DEF Promised
    <2>3. Promised => cipher' = (client = "crypt")
      BY <2>1, AgreeKept DEF EchoInv
    <2>4. message' = <<>> /\ replies' = <<>>
      BY <1>2, <2>1
    <2>5. EchoFaithful'
      BY <2>4 DEF EchoFaithful
    <2> QED
      BY <2>1, <2>2, <2>3, <2>4, <2>5 DEF EchoInv
  <1>8. ASSUME NEW buffer \in Buffers(config, client), receive_propagate_buffer(buffer)
        PROVE  EchoInv'
    <2> DEFINE s == buffer.tokens
               r == ReadBuffer(buffer)
               m == r.value
    <2>1. buffer \in Sent
      BY DEF Sent, EchoInv
    <2>2. IsStream(s)
      BY <2>1, BuffersAssumption DEF BuffersAssumption
    <2>3. r.error = "none" => WasRead(s) /\ m = MessageOf(s)
      BY <2>2, BufferErrors DEF WasRead
    <2>4. /\ UNCHANGED <<config, client, cipher>> /\ stage = "messages"
          /\ \/ r.error # "none" /\ End(r.error) /\ UNCHANGED <<hook, message, replies>>
             \/ r.error = "none" /\ message' = <<m>> /\ Handle(m)
      BY <1>8 DEF receive_propagate_buffer
    <2> HIDE DEF r, s
    <2>5. CASE r.error # "none"
      <3>1. Silent
        BY <1>2, <2>4, <2>5 DEF End, Silent
      <3> QED
        BY <3>1, SilentStep
    <2>6. CASE r.error = "none"
      <3>1. IsUnderstood(m) /\ message' = <<m>>
        BY <2>3, <2>4, <2>6, HandleUnderstood
      <3>2. stage' \in {"answered", "closed"}
        BY <2>4, <2>6 DEF Handle, HandleGameMessage, HandleSDLState, HandleTestAndSet,
           HandleMembersListRequest, Echo, Handles, Goes, End
      <3>3. Promised' = Promised
        BY <2>4 DEF Promised
      <3>4. CASE replies' = <<>>
        <4>1. Silent
          BY <2>4, <3>2, <3>4 DEF Silent
        <4> QED
          BY <4>1, SilentStep
      <3>5. ASSUME NEW tokens, replies' = <<Reply(tokens)>>,
                   Understood(ReadBuffer([type |-> tokens[1][2], tokens |-> tokens]), m)
            PROVE  EchoInv'
        <4> DEFINE reply == Reply(tokens)
        <4>1. reply.cipher = cipher /\ reply.tokens = tokens
          BY DEF Reply
        <4>2. replies' = <<reply>>
          BY <3>5
        <4> HIDE DEF reply
        <4>3. replies'[1] = reply /\ message'[1] = m
          BY <3>1, <4>2, Single
        <4>4. Understood(ClientReads(reply), m)
          BY <3>5, <4>1 DEF ClientReads
        <4>5. Promised => reply.cipher = (client = "crypt")
          BY <2>4, <4>1 DEF EchoInv
        <4>6. EchoFaithful'
          BY <2>4, <3>3, <4>3, <4>4, <4>5 DEF EchoFaithful
        <4> QED
          BY <2>4, <3>2, <3>3, <4>6 DEF EchoInv
      <3> QED
        BY <3>1, <3>4, <3>5 DEF IsUnderstood
    <2> QED
      BY <2>5, <2>6
  <1>9. CASE Next_message
    <2>1. Silent
      BY <1>9 DEF Next_message, Silent
    <2> QED
      BY <2>1, SilentStep
  <1>10. CASE ping_request
    <2>1. Silent
      BY <1>2, <1>10 DEF ping_request, Handles, Goes, End, Silent
    <2> QED
      BY <2>1, SilentStep
  <1>11. CASE handle_unknown_message
    <2>1. Silent
      BY <1>2, <1>11 DEF handle_unknown_message, End, Silent
    <2> QED
      BY <2>1, SilentStep
  <1>12. CASE Gone
    <2>1. Silent
      BY <1>2, <1>12 DEF Gone, End, Silent
    <2> QED
      BY <2>1, SilentStep
  <1> QED
    BY <1>1, <1>3, <1>4, <1>5, <1>6, <1>7, <1>8, <1>9, <1>10, <1>11, <1>12 DEF Next

\* For a client that the configuration promises to serve, whatever comes back over
\* the wire is encrypted as the client expects and can be read by it: an echo is the
\* message that was sent, with all its fields, except for the time; the answer to a
\* TestAndSet is for the object that was to be locked.  (send_propagate_buffer, the
\* read and write methods)
THEOREM EchoesAreFaithful == Spec => []EchoFaithful
  <1>1. Init => EchoInv
    BY EchoInit
  <1>2. EchoInv /\ [Next]_vars => EchoInv'
    BY EchoStep
  <1>3. EchoInv => EchoFaithful
    BY DEF EchoInv
  <1> QED
    BY <1>1, <1>2, <1>3, PTL DEF Spec
=============================================================================
