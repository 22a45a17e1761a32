--------------------------- MODULE RequestProofs ---------------------------
(***************************************************************************)
(* Proofs about the requests that are kept (Library) and those that are    *)
(* sent (JsonSchema, Exchange), for any requests, collections, instances   *)
(* and files, and for any schemas, variables, headers and answers.         *)
(***************************************************************************)
EXTENDS Library, Exchange, TLAPS, WellFoundedInduction, FiniteSetTheorems

---------------------------------------------------------------------------
(* Sequences.  An induction is an argument about the least number that     *)
(* refutes the claim.                                                      *)

LEMMA HasLeast ==
    ASSUME NEW S, S \subseteq Nat, S # {}
    PROVE  \E k \in S : \A j \in S : k <= j
<1>1. PICK k \in S : \A j \in S : ~(<<j, k>> \in OpToRel(<, Nat))
  BY NatLessThanWellFounded, WFMin
<1>2. ASSUME NEW j \in S PROVE k <= j
  <2>1. j \in Nat /\ k \in Nat
    OBVIOUS
  <2>2. <<j, k>> \in Nat \X Nat /\ <<j, k>>[1] = j /\ <<j, k>>[2] = k
    BY <2>1
  <2>3. ~(j < k)
    BY <1>1, <2>2, Zenon DEF OpToRel
  <2> QED BY <2>1, <2>3
<1> QED BY <1>2

(* A set of numbers with 0 and with the successor of each of its members   *)
(* below top holds all of them up to top.                                  *)
LEMMA Climb ==
    ASSUME NEW top \in Nat, NEW S, 0 \in S,
           \A n \in 0..top : n > 0 /\ n - 1 \in S => n \in S
    PROVE  0..top \subseteq S
<1> DEFINE B == (0..top) \ S
<1>1. SUFFICES ASSUME B # {} PROVE FALSE
  OBVIOUS
<1>2. PICK k \in B : \A j \in B : k <= j
  <2>1. B \subseteq Nat
    OBVIOUS
  <2> HIDE DEF B
  <2> QED BY <1>1, <2>1, HasLeast
<1>3. k \in 0..top /\ k \notin S /\ k > 0
  BY <1>2
<1>4. k - 1 \in 0..top /\ k - 1 \notin B
  BY <1>2, <1>3
<1> QED BY <1>3, <1>4

(* The table whose last entry is what is picked.                           *)
Picks(seq, P, f) ==
    f = [k \in 0..Len(seq) |->
            IF k = 0 THEN <<>>
            ELSE IF k \in P THEN Append(f[k - 1], seq[k]) ELSE f[k - 1]]

LEMMA PicksExist == ASSUME NEW seq, Len(seq) \in Nat, NEW P PROVE \E f : Picks(seq, P, f)
<1> DEFINE Good(m, f) ==
      f = [k \in 0..m |->
              IF k = 0 THEN <<>>
              ELSE IF k \in P THEN Append(f[k - 1], seq[k]) ELSE f[k - 1]]
    S == {m \in Nat : \E f : Good(m, f)}
<1>1. 0 \in S
  <2>1. Good(0, [k \in 0..0 |-> <<>>])
    OBVIOUS
  <2> QED BY <2>1
<1>2. ASSUME NEW m \in 0..Len(seq), m > 0, m - 1 \in S PROVE m \in S
  <2>1. PICK f : Good(m - 1, f)
    BY <1>2
  <2> DEFINE g == [k \in 0..m |-> IF k = m
                                  THEN IF m \in P THEN Append(f[m - 1], seq[m]) ELSE f[m - 1]
                                  ELSE f[k]]
  <2>2. m \in Nat /\ m - 1 \in Nat
    BY <1>2
  <2>3. \A k \in 0..(m - 1) :
           f[k] = IF k = 0 THEN <<>>
                  ELSE IF k \in P THEN Append(f[k - 1], seq[k]) ELSE f[k - 1]
    BY <2>1
  <2>4. \A k \in 0..m :
           g[k] = IF k = 0 THEN <<>>
                  ELSE IF k \in P THEN Append(g[k - 1], seq[k]) ELSE g[k - 1]
    BY <1>2, <2>2, <2>3
  <2>5. Good(m, g)
    BY <2>4
  <2> QED BY <2>2, <2>5
<1>3. Len(seq) \in S
  <2>1. Len(seq) \in Nat
    OBVIOUS
  <2> HIDE DEF S
  <2>2. 0..Len(seq) \subseteq S
    BY <1>1, <1>2, <2>1, Climb
  <2> QED BY <2>1, <2>2
<1> QED BY <1>3 DEF Picks

PickSteps(seq, P, f) ==
    /\ f[0] = <<>>
    /\ \A k \in 0..Len(seq) : k > 0 =>
          f[k] = IF k \in P THEN Append(f[k - 1], seq[k]) ELSE f[k - 1]

LEMMA PickedSteps ==
    ASSUME NEW seq, Len(seq) \in Nat, NEW P
    PROVE  \E f : Picked(seq, P) = f[Len(seq)] /\ PickSteps(seq, P, f)
<1> DEFINE f == CHOOSE f : Picks(seq, P, f)
           Step(k) == IF k = 0 THEN <<>>
                      ELSE IF k \in P THEN Append(f[k - 1], seq[k]) ELSE f[k - 1]
<1>1. Picks(seq, P, f)
  BY PicksExist
<1>2. Picked(seq, P) = f[Len(seq)]
  BY DEF Picked, Picks
<1> HIDE DEF f
<1>3. f = [k \in 0..Len(seq) |-> Step(k)]
  BY <1>1 DEF Picks
<1> HIDE DEF Step
<1>4. \A k \in 0..Len(seq) : f[k] = Step(k)
  BY <1>3
<1>5. PickSteps(seq, P, f)
  BY <1>4 DEF PickSteps, Step
<1> QED BY <1>2, <1>5

(* What is picked is a sequence of members at positions that are picked,   *)
(* without repetition if there is none at those positions.                 *)
LEMMA PickedIsPart ==
    ASSUME NEW T, NEW seq \in Seq(T), NEW P
    PROVE  /\ Picked(seq, P) \in Seq(T)
           /\ \A i \in 1..Len(Picked(seq, P)) :
                 \E k \in 1..Len(seq) : k \in P /\ Picked(seq, P)[i] = seq[k]
           /\ (\A j, k \in 1..Len(seq) : j \in P /\ k \in P /\ seq[j] = seq[k] => j = k)
                 => \A i, j \in 1..Len(Picked(seq, P)) :
                       Picked(seq, P)[i] = Picked(seq, P)[j] => i = j
<1> DEFINE Once == \A j, k \in 1..Len(seq) : j \in P /\ k \in P /\ seq[j] = seq[k] => j = k
<1>0. PICK f : Picked(seq, P) = f[Len(seq)] /\ PickSteps(seq, P, f)
  <2>1. Len(seq) \in Nat
    OBVIOUS
  <2> QED BY <2>1, PickedSteps
<1>1. /\ Picked(seq, P) = f[Len(seq)] /\ f[0] = <<>>
      /\ \A k \in 0..Len(seq) : k > 0 =>
            f[k] = IF k \in P THEN Append(f[k - 1], seq[k]) ELSE f[k - 1]
  BY <1>0 DEF PickSteps
<1> DEFINE Part(n) ==
      /\ f[n] \in Seq(T)
      /\ \A i \in 1..Len(f[n]) : \E k \in 1..n : k \in P /\ f[n][i] = seq[k]
      /\ Once => \A i, j \in 1..Len(f[n]) : f[n][i] = f[n][j] => i = j
    S == {n \in 0..Len(seq) : Part(n)}
<1>2. 0 \in S
  <2>1. f[0] \in Seq(T) /\ Len(f[0]) = 0 /\ 1..Len(f[0]) = {} /\ 0 \in 0..Len(seq)
    <3>1. <<>> \in Seq(T) /\ Len(<<>>) = 0 /\ Len(seq) \in Nat /\ 1..0 = {}
      OBVIOUS
    <3> QED BY <1>1, <3>1
  <2>2. Part(0)
    BY <2>1
  <2> QED BY <2>1, <2>2
<1>3. ASSUME NEW n \in 0..Len(seq), n > 0, n - 1 \in S PROVE n \in S
  <2>1. Part(n - 1) /\ n \in 1..Len(seq) /\ 1..(n - 1) \subseteq 1..n /\ seq[n] \in T
    <3>1. Part(n - 1)
      <4> HIDE DEF Part
      <4> QED BY <1>3
    <3>2. Len(seq) \in Nat /\ \A k \in 1..Len(seq) : seq[k] \in T
      OBVIOUS
    <3> HIDE DEF Part
    <3>3. n \in 1..Len(seq) /\ 1..(n - 1) \subseteq 1..n
      <4> HIDE DEF S
      <4> QED BY <1>3, <3>2
    <3> QED BY <3>1, <3>2, <3>3
  <2>2. CASE n \notin P
    <3>1. f[n] = f[n - 1]
      BY <1>1, <1>3, <2>2
    <3>2. Part(n)
      BY <2>1, <3>1
    <3> QED BY <3>2
  <2>3. CASE n \in P
    <3> DEFINE old == f[n - 1]
    <3>1. f[n] = Append(old, seq[n])
      BY <1>1, <1>3, <2>3
    <3>2. /\ old \in Seq(T)
          /\ \A i \in 1..Len(old) : \E k \in 1..(n - 1) : k \in P /\ old[i] = seq[k]
          /\ Once => \A i, j \in 1..Len(old) : old[i] = old[j] => i = j
      BY <2>1
    <3> HIDE DEF old
    <3>3. /\ f[n] \in Seq(T) /\ Len(f[n]) = Len(old) + 1 /\ Len(old) \in Nat
          /\ \A i \in 1..Len(old) : f[n][i] = old[i]
          /\ f[n][Len(old) + 1] = seq[n]
      BY <2>1, <3>1, <3>2
    <3>4. \A i \in 1..Len(f[n]) : \E k \in 1..n : k \in P /\ f[n][i] = seq[k]
      <4> TAKE i \in 1..Len(f[n])
      <4>1. CASE i \in 1..Len(old)
        BY <2>1, <3>2, <3>3, <4>1
      <4>2. CASE i = Len(old) + 1
        BY <2>1, <2>3, <3>3, <4>2
      <4> QED BY <3>3, <4>1, <4>2
    <3>5. ASSUME Once PROVE \A i, j \in 1..Len(f[n]) : f[n][i] = f[n][j] => i = j
      <4>1. \A i \in 1..Len(old) : old[i] # seq[n]
        BY <2>1, <2>3, <3>2, <3>5
      <4>2. \A i, j \in 1..Len(old) : old[i] = old[j] => i = j
        BY <3>2, <3>5
      <4> SUFFICES ASSUME NEW i \in 1..Len(f[n]), NEW j \in 1..Len(f[n]), f[n][i] = f[n][j]
                   PROVE  i = j
        OBVIOUS
      <4>3. CASE i \in 1..Len(old) /\ j \in 1..Len(old)
        BY <3>3, <4>2, <4>3
      <4>4. (i \in 1..Len(old) \/ i = Len(old) + 1) /\ (j \in 1..Len(old) \/ j = Len(old) + 1)
        BY <3>3
      <4>5. CASE i = Len(old) + 1 \/ j = Len(old) + 1
        BY <3>3, <4>1, <4>4, <4>5
      <4> QED BY <4>3, <4>4, <4>5
    <3>6. Part(n)
      BY <3>3, <3>4, <3>5
    <3> QED BY <3>6
  <2> QED BY <2>2, <2>3
<1>4. Len(seq) \in S
  <2>1. Len(seq) \in Nat
    OBVIOUS
  <2> HIDE DEF S
  <2>2. 0..Len(seq) \subseteq S
    BY <1>2, <1>3, <2>1, Climb
  <2> QED BY <2>1, <2>2
<1> QED BY <1>1, <1>4

(* Everything is picked.                                                   *)
LEMMA PickedIsAll ==
    ASSUME NEW T, NEW seq \in Seq(T), NEW P, 1..Len(seq) \subseteq P
    PROVE  Picked(seq, P) = seq
<1>0. PICK f : Picked(seq, P) = f[Len(seq)] /\ PickSteps(seq, P, f)
  <2>1. Len(seq) \in Nat
    OBVIOUS
  <2> QED BY <2>1, PickedSteps
<1>1. /\ Picked(seq, P) = f[Len(seq)] /\ f[0] = <<>>
      /\ \A k \in 0..Len(seq) : k > 0 =>
            f[k] = IF k \in P THEN Append(f[k - 1], seq[k]) ELSE f[k - 1]
  BY <1>0 DEF PickSteps
<1> DEFINE All(n) == f[n] \in Seq(T) /\ Len(f[n]) = n /\ \A i \in 1..n : f[n][i] = seq[i]
           S == {n \in 0..Len(seq) : All(n)}
<1>2. 0 \in S
  <2>1. f[0] \in Seq(T) /\ Len(f[0]) = 0 /\ 1..Len(f[0]) = {} /\ 0 \in 0..Len(seq)
    <3>1. <<>> \in Seq(T) /\ Len(<<>>) = 0 /\ Len(seq) \in Nat /\ 1..0 = {}
      OBVIOUS
    <3> QED BY <1>1, <3>1
  <2>2. All(0)
    BY <2>1
  <2> QED BY <2>1, <2>2
<1>3. ASSUME NEW n \in 0..Len(seq), n > 0, n - 1 \in S PROVE n \in S
  <2>1. f[n] = Append(f[n - 1], seq[n]) /\ seq[n] \in T
    <3>1. n \in 1..Len(seq)
      BY <1>3
    <3>2. n \in P /\ seq[n] \in T
      BY <3>1
    <3>3. f[n] = IF n \in P THEN Append(f[n - 1], seq[n]) ELSE f[n - 1]
      BY <1>1, <1>3
    <3> QED BY <3>2, <3>3
  <2>2. All(n)
    BY <1>3, <2>1
  <2> QED BY <2>2
<1>4. Len(seq) \in S
  <2>1. Len(seq) \in Nat
    OBVIOUS
  <2> HIDE DEF S
  <2>2. 0..Len(seq) \subseteq S
    BY <1>2, <1>3, <2>1, Climb
  <2> QED BY <2>1, <2>2
<1> QED BY <1>1, <1>4

(* Everything is picked but one.                                           *)
LEMMA PickedIsAllButOne ==
    ASSUME NEW T, NEW seq \in Seq(T), NEW P, NEW p \in 1..Len(seq), p \notin P,
           \A k \in 1..Len(seq) : k # p => k \in P
    PROVE  /\ Picked(seq, P) \in Seq(T) /\ Len(Picked(seq, P)) = Len(seq) - 1
           /\ \A i \in 1..(Len(seq) - 1) :
                 Picked(seq, P)[i] = IF i < p THEN seq[i] ELSE seq[i + 1]
<1>0. PICK f : Picked(seq, P) = f[Len(seq)] /\ PickSteps(seq, P, f)
  <2>1. Len(seq) \in Nat
    OBVIOUS
  <2> QED BY <2>1, PickedSteps
<1>1. /\ Picked(seq, P) = f[Len(seq)] /\ f[0] = <<>>
      /\ \A k \in 0..Len(seq) : k > 0 =>
            f[k] = IF k \in P THEN Append(f[k - 1], seq[k]) ELSE f[k - 1]
  BY <1>0 DEF PickSteps
<1> DEFINE Far(n) == IF n < p THEN n ELSE n - 1
           Most(n) == /\ f[n] \in Seq(T) /\ Len(f[n]) = Far(n)
                      /\ \A i \in 1..Far(n) : f[n][i] = IF i < p THEN seq[i] ELSE seq[i + 1]
           S == {n \in 0..Len(seq) : Most(n)}
<1>2. 0 \in S
  <2>1. f[0] \in Seq(T) /\ Len(f[0]) = 0 /\ 1..Len(f[0]) = {} /\ 0 \in 0..Len(seq)
    <3>1. <<>> \in Seq(T) /\ Len(<<>>) = 0 /\ Len(seq) \in Nat /\ 1..0 = {}
      OBVIOUS
    <3> QED BY <1>1, <3>1
  <2>2. Most(0)
    BY <2>1
  <2> QED BY <2>1, <2>2
<1>3. ASSUME NEW n \in 0..Len(seq), n > 0, n - 1 \in S PROVE n \in S
  <2>1. f[n] = (IF n # p THEN Append(f[n - 1], seq[n]) ELSE f[n - 1]) /\ seq[n] \in T
    BY <1>1, <1>3
  <2>2. CASE n = p
    <3>1. Most(n)
      BY <1>3, <2>1, <2>2
    <3> QED BY <3>1
  <2>3. CASE n < p
    <3>1. Most(n)
      BY <1>3, <2>1, <2>3
    <3> QED BY <3>1
  <2>4. CASE n > p
    <3>1. Most(n)
      BY <1>3, <2>1, <2>4
    <3> QED BY <3>1
  <2> QED BY <2>2, <2>3, <2>4
<1>4. Len(seq) \in S
  <2>1. Len(seq) \in Nat
    OBVIOUS
  <2> HIDE DEF S
  <2>2. 0..Len(seq) \subseteq S
    BY <1>2, <1>3, <2>1, Climb
  <2> QED BY <2>1, <2>2
<1>5. Most(Len(seq))
  <2> HIDE DEF Most
  <2> QED BY <1>4
<1>6. Far(Len(seq)) = Len(seq) - 1
  <2>1. Len(seq) \in Nat /\ p \in Nat /\ p <= Len(seq)
    OBVIOUS
  <2> QED BY <2>1
<1> HIDE DEF Far
<1>7. /\ f[Len(seq)] \in Seq(T) /\ Len(f[Len(seq)]) = Len(seq) - 1
      /\ \A i \in 1..(Len(seq) - 1) : f[Len(seq)][i] = IF i < p THEN seq[i] ELSE seq[i + 1]
  <2>1. /\ f[Len(seq)] \in Seq(T) /\ Len(f[Len(seq)]) = Far(Len(seq))
        /\ \A i \in 1..Far(Len(seq)) :
              f[Len(seq)][i] = IF i < p THEN seq[i] ELSE seq[i + 1]
    BY <1>5
  <2> HIDE DEF Most
  <2> QED BY ONLY <2>1, <1>6
<1> HIDE DEF Most, S
<1>8. Picked(seq, P) = f[Len(seq)]
  BY <1>1
<1> QED BY <1>7, <1>8

---------------------------------------------------------------------------
(* What the operators on the index return.                                 *)
LEMMA ConstantFacts ==
    /\ IsFiniteSet(Id) /\ Inst # {} /\ MaxChanges \in Nat
    /\ \A n \in Name : IdsOf[n] \in Seq(Id)
    /\ Coll \in Seq(Range(Coll))
    /\ \A l \in Libraries : l.files \in [Id -> Record \cup {Nothing}] /\ IsIndex(l.index)
    /\ Nothing \notin Record /\ Nothing \notin Range(Coll) /\ Nothing \notin Batch
BY LibraryAssumption

LEMMA IndexFacts ==
    ASSUME NEW x, IsIndex(x)
    PROVE  /\ x \in Seq(Group) /\ Len(x) \in Nat /\ DOMAIN x = 1..Len(x)
           /\ \A k \in 1..Len(x) : x[k] \in Group /\ x[k].requests \in Seq(Id)
<1>1. x \in Seq(Group)
  BY DEF IsIndex
<1>2. Len(x) \in Nat /\ DOMAIN x = 1..Len(x) /\ \A k \in 1..Len(x) : x[k] \in Group
  BY <1>1
<1> QED BY <1>1, <1>2 DEF Group

LEMMA IsSequence ==
    ASSUME NEW T, NEW n \in Nat, NEW y, y \in [1..n -> T]
    PROVE  y \in Seq(T) /\ Len(y) = n
OBVIOUS

(* y is the index x with the lists replaced.                               *)
Relists(x, y, list) ==
    /\ y = [k \in 1..Len(x) |-> y[k]]
    /\ \A k \in 1..Len(x) :
          list[k] \in Seq(Id) /\ y[k] = [x[k] EXCEPT !.requests = list[k]]

LEMMA Relisted ==
    ASSUME NEW x, IsIndex(x), NEW y, NEW list, Relists(x, y, list)
    PROVE  /\ IsIndex(y) /\ Len(y) = Len(x)
           /\ \A k \in 1..Len(x) : y[k].id = x[k].id /\ y[k].requests = list[k]
<1>1. \A k \in 1..Len(x) : y[k] \in Group /\ y[k].id = x[k].id /\ y[k].requests = list[k]
  <2> TAKE k \in 1..Len(x)
  <2>1. x[k] \in Group
    BY IndexFacts
  <2> QED BY <2>1 DEF Group, Relists
<1>2. y \in [1..Len(x) -> Group]
  BY <1>1 DEF Relists
<1>3. y \in Seq(Group) /\ Len(y) = Len(x)
  BY <1>2, IndexFacts, IsSequence
<1> QED BY <1>1, <1>3 DEF IsIndex

LEMMA KeptFacts ==
    ASSUME NEW list \in Seq(Id), NEW S
    PROVE  /\ Kept(list, S) \in Seq(Id)
           /\ Range(Kept(list, S)) \subseteq Range(list) \cap S
<1> DEFINE P == {k \in DOMAIN list : list[k] \in S}
           new == Picked(list, P)
<1>1. /\ new \in Seq(Id)
      /\ \A i \in 1..Len(new) : \E k \in 1..Len(list) : k \in P /\ new[i] = list[k]
  <2> HIDE DEF P
  <2> QED BY PickedIsPart
<1>2. Kept(list, S) = new
  BY DEF Kept
<1> HIDE DEF new
<1> QED BY <1>1, <1>2 DEF Range

LEMMA WithoutFacts ==
    ASSUME NEW x, IsIndex(x), NEW id \in Id
    PROVE  /\ IsIndex(Without(x, id)) /\ Len(Without(x, id)) = Len(x)
           /\ \A k \in 1..Len(x) :
                 /\ Without(x, id)[k].id = x[k].id
                 /\ Without(x, id)[k].requests = Kept(x[k].requests, Id \ {id})
           /\ Members(Without(x, id)) \subseteq Members(x) \ {id}
<1> DEFINE y == Without(x, id)
           list == [k \in 1..Len(x) |-> Kept(x[k].requests, Id \ {id})]
<1>1. /\ y = [k \in 1..Len(x) |-> [x[k] EXCEPT !.requests = Kept(@, Id \ {id})]]
      /\ \A k \in 1..Len(x) : list[k] \in Seq(Id) /\ x[k].requests \in Seq(Id)
  BY IndexFacts, KeptFacts DEF Without
<1>2. /\ IsIndex(y) /\ Len(y) = Len(x)
      /\ \A k \in 1..Len(x) : y[k].id = x[k].id /\ y[k].requests = list[k]
  <2>1. \A k \in 1..Len(x) : y[k] = [x[k] EXCEPT !.requests = list[k]]
    BY <1>1, IndexFacts DEF Group
  <2>2. Relists(x, y, list)
    BY <1>1, <2>1 DEF Relists
  <2> HIDE DEF y, list
  <2> QED BY <2>2, Relisted
<1>3. Members(y) \subseteq Members(x) \ {id}
  <2>1. \A k \in 1..Len(x) : Range(y[k].requests) \subseteq Range(x[k].requests) \ {id}
    BY <1>1, <1>2, KeptFacts
  <2>2. DOMAIN y = 1..Len(x) /\ DOMAIN x = 1..Len(x)
    BY <1>2, IndexFacts
  <2> HIDE DEF y
  <2> QED BY <2>1, <2>2 DEF Members
<1> QED BY <1>2, <1>3

LEMMA LeastFacts ==
    ASSUME NEW n \in Nat, NEW I \in SUBSET (1..n), I # {}
    PROVE  Min(I) \in I /\ \A j \in I : Min(I) <= j
<1>1. \E k \in I : \A j \in I : k <= j
  <2>1. I \subseteq Nat
    OBVIOUS
  <2> QED BY <2>1, HasLeast
<1> QED BY <1>1 DEF Min

LEMMA PlaceFacts ==
    ASSUME NEW x, IsIndex(x), NEW c
    PROVE  /\ Place(x, c) \in 0..Len(x)
           /\ Place(x, c) # 0 => x[Place(x, c)].id = c
           /\ Place(x, c) = 0 => \A k \in 1..Len(x) : x[k].id # c
<1> DEFINE I == {i \in 1..Len(x) : x[i].id = c}
<1>1. Place(x, c) = IF I # {} THEN Min(I) ELSE 0
  BY DEF Place, SelectInSeq
<1>2. Len(x) \in Nat
  BY IndexFacts
<1>3. I # {} => Min(I) \in I
  <2>1. I \in SUBSET (1..Len(x))
    OBVIOUS
  <2> HIDE DEF I
  <2> QED BY <1>2, <2>1, LeastFacts
<1>4. \A i \in I : i \in 1..Len(x) /\ x[i].id = c
  OBVIOUS
<1>5. I = {} => \A k \in 1..Len(x) : x[k].id # c
  OBVIOUS
<1> HIDE DEF I
<1> QED BY <1>1, <1>2, <1>3, <1>4, <1>5

LEMMA Joined ==
    ASSUME NEW T, NEW s \in Seq(T), NEW t \in Seq(T)
    PROVE  /\ s \o t \in Seq(T) /\ Len(s \o t) = Len(s) + Len(t)
           /\ \A i \in 1..(Len(s) + Len(t)) :
                 (s \o t)[i] = IF i <= Len(s) THEN s[i] ELSE t[i - Len(s)]
OBVIOUS

(* new is the list with id put in at p.                                    *)
Inserted(list, p, id, new) ==
    /\ new \in Seq(Id) /\ Len(new) = Len(list) + 1
    /\ \A i \in 1..(Len(list) + 1) :
          new[i] = IF i < p THEN list[i] ELSE IF i = p THEN id ELSE list[i - 1]

LEMMA InsertIs ==
    ASSUME NEW list \in Seq(Id), NEW p \in 1..(Len(list) + 1), NEW id \in Id
    PROVE  Inserted(list, p, id, InsertAt(list, p, id))
<1> DEFINE a == SubSeq(list, 1, p - 1)
           b == SubSeq(list, p, Len(list))
<1>1. /\ a \in Seq(Id) /\ Len(a) = p - 1 /\ \A i \in 1..(p - 1) : a[i] = list[i]
      /\ b \in Seq(Id) /\ Len(b) = Len(list) + 1 - p
      /\ \A i \in 1..(Len(list) + 1 - p) : b[i] = list[p + i - 1]
  OBVIOUS
<1>2. InsertAt(list, p, id) = (a \o <<id>>) \o b
  BY DEF InsertAt
<1> HIDE DEF a, b
<1>3. /\ a \o <<id>> \in Seq(Id) /\ Len(a \o <<id>>) = p
      /\ \A i \in 1..(p - 1) : (a \o <<id>>)[i] = list[i]
      /\ (a \o <<id>>)[p] = id
  <2> DEFINE one == <<id>>
  <2>1. one \in Seq(Id) /\ Len(one) = 1 /\ one[1] = id
    OBVIOUS
  <2>2. Len(list) \in Nat
    OBVIOUS
  <2> HIDE DEF one
  <2>3. /\ a \o one \in Seq(Id) /\ Len(a \o one) = Len(a) + 1
        /\ \A i \in 1..(Len(a) + 1) : (a \o one)[i] = IF i <= Len(a) THEN a[i] ELSE one[i - Len(a)]
    <3>1. a \in Seq(Id)
      BY <1>1
    <3>2. /\ a \o one \in Seq(Id) /\ Len(a \o one) = Len(a) + Len(one)
          /\ \A i \in 1..(Len(a) + Len(one)) :
                (a \o one)[i] = IF i <= Len(a) THEN a[i] ELSE one[i - Len(a)]
      BY <2>1, <3>1, Joined
    <3> QED BY <2>1, <3>2
  <2>4. Len(a) = p - 1 /\ p \in Nat /\ p > 0
    BY <1>1, <2>2
  <2>5. Len(a \o one) = p /\ (a \o one)[p] = id
    BY <2>1, <2>3, <2>4
  <2>6. \A i \in 1..(p - 1) : (a \o one)[i] = list[i]
    BY <1>1, <2>3, <2>4
  <2> QED BY <2>3, <2>5, <2>6 DEF one
<1> DEFINE front == a \o <<id>>
           new == front \o b
<1> HIDE DEF front
<1>4. /\ new \in Seq(Id) /\ Len(new) = Len(front) + Len(b)
      /\ \A i \in 1..(Len(front) + Len(b)) :
            new[i] = IF i <= Len(front) THEN front[i] ELSE b[i - Len(front)]
  <2>1. front \in Seq(Id)
    BY <1>3 DEF front
  <2> QED BY <1>1, <2>1, Joined
<1> HIDE DEF new
<1>5. Len(front) = p /\ Len(list) \in Nat /\ Len(front) + Len(b) = Len(list) + 1
  <2>1. Len(front) = p
    BY <1>3 DEF front
  <2>2. Len(list) \in Nat
    OBVIOUS
  <2> QED BY <1>1, <2>1, <2>2
<1>6. \A i \in 1..(Len(list) + 1) :
         new[i] = IF i < p THEN list[i] ELSE IF i = p THEN id ELSE list[i - 1]
  <2> TAKE i \in 1..(Len(list) + 1)
  <2>1. CASE i <= p
    <3>1. new[i] = front[i]
      BY <1>4, <1>5, <2>1
    <3> QED BY <1>3, <2>1, <3>1 DEF front
  <2>2. CASE i > p
    <3> DEFINE j == i - p
    <3>1. p \in Nat /\ j \in 1..(Len(list) + 1 - p) /\ p + j - 1 = i - 1
      BY <1>5, <2>2
    <3>2. new[i] = b[j]
      BY <1>4, <1>5, <2>2
    <3>3. ~(i < p) /\ i # p
      BY <1>5, <2>2, <3>1
    <3> HIDE DEF j
    <3> QED BY <1>1, <3>1, <3>2, <3>3
  <2> QED BY <2>1, <2>2
<1> QED BY <1>2, <1>4, <1>5, <1>6 DEF new, front, Inserted

LEMMA AssignedFacts ==
    ASSUME NEW x, IsIndex(x), NEW id \in Id, NEW c, NEW at \in Nat
    PROVE  /\ IsIndex(Assigned(x, id, c, at))
           /\ Members(Assigned(x, id, c, at)) \subseteq (Members(x) \ {id}) \cup {id}
           /\ ~Known(x, c) => Members(Assigned(x, id, c, at)) \subseteq Members(x) \ {id}
<1> DEFINE y == Assigned(x, id, c, at)
           w == Without(x, id)
           n(k) == IF at > Len(w[k].requests) THEN Len(w[k].requests) ELSE at
           list == [k \in 1..Len(x) |->
                      IF k = Place(x, c) THEN InsertAt(w[k].requests, n(k) + 1, id)
                      ELSE w[k].requests]
<1>1. /\ IsIndex(w) /\ Len(w) = Len(x) /\ Len(x) \in Nat
      /\ DOMAIN w = 1..Len(x) /\ DOMAIN x = 1..Len(x)
      /\ \A k \in 1..Len(x) : w[k] \in Group /\ w[k].requests \in Seq(Id)
      /\ Members(w) \subseteq Members(x) \ {id}
  BY WithoutFacts, IndexFacts
<1>2. y = [k \in 1..Len(x) |->
             IF k = Place(x, c) THEN [w[k] EXCEPT !.requests = InsertAt(@, n(k) + 1, id)] ELSE w[k]]
  BY <1>1 DEF Assigned
<1> HIDE DEF w
<1>3. \A k \in 1..Len(x) : n(k) + 1 \in 1..(Len(w[k].requests) + 1)
  BY <1>1
<1>4. \A k \in 1..Len(x) :
         /\ list[k] \in Seq(Id)
         /\ y[k] = [w[k] EXCEPT !.requests = list[k]]
         /\ Range(list[k]) \subseteq
               Range(w[k].requests) \cup (IF k = Place(x, c) THEN {id} ELSE {})
  <2> TAKE k \in 1..Len(x)
  <2> DEFINE old == w[k].requests
             new == InsertAt(old, n(k) + 1, id)
  <2>1. CASE k = Place(x, c)
    <3>1. /\ new \in Seq(Id) /\ Len(new) = Len(old) + 1
          /\ \A i \in 1..(Len(old) + 1) :
                new[i] = IF i < n(k) + 1 THEN old[i] ELSE IF i = n(k) + 1 THEN id ELSE old[i - 1]
      <4>1. n(k) + 1 \in 1..(Len(old) + 1)
        BY <1>3
      <4>2. old \in Seq(Id)
        BY <1>1
      <4> HIDE DEF n, old
      <4>3. id \in Id
        OBVIOUS
      <4>4. Inserted(old, n(k) + 1, id, InsertAt(old, n(k) + 1, id))
        BY <4>1, <4>2, <4>3, InsertIs
      <4> QED BY <4>4 DEF Inserted
    <3>2. list[k] = new /\ y[k] = [w[k] EXCEPT !.requests = new]
      BY <1>1, <1>2, <2>1
    <3>3. n(k) \in Nat /\ old \in Seq(Id) /\ Len(old) \in Nat /\ n(k) <= Len(old)
      BY <1>1
    <3> HIDE DEF n, old, new, list, y
    <3>4. Range(new) \subseteq Range(old) \cup {id}
      <4>1. \A i \in 1..Len(new) : new[i] \in Range(old) \cup {id}
        <5> TAKE i \in 1..Len(new)
        <5>1. CASE i < n(k) + 1
          <6>1. i \in 1..Len(old) /\ i \in 1..(Len(old) + 1)
            BY <3>1, <3>3, <5>1
          <6>2. new[i] = old[i]
            BY <3>1, <5>1, <6>1
          <6> QED BY <3>3, <6>1, <6>2, SMTT(30) DEF Range
        <5>2. CASE i > n(k) + 1
          <6>1. i - 1 \in 1..Len(old) /\ i \in 1..(Len(old) + 1) /\ ~(i < n(k) + 1) /\ i # n(k) + 1
            BY <3>1, <3>3, <5>2
          <6>2. new[i] = old[i - 1]
            BY <3>1, <6>1
          <6> QED BY <3>3, <6>1, <6>2, SMTT(30) DEF Range
        <5> QED BY <3>1, <3>3, <5>1, <5>2
      <4>2. DOMAIN new = 1..Len(new)
        BY <3>1
      <4> QED BY <4>1, <4>2 DEF Range
    <3> QED BY <2>1, <3>1, <3>2, <3>4 DEF old
  <2>2. CASE k # Place(x, c)
    <3>1. list[k] = old /\ y[k] = w[k] /\ w[k] \in Group /\ old \in Seq(Id)
      BY <1>1, <1>2, <2>2
    <3>2. [w[k] EXCEPT !.requests = old] = w[k]
      BY <3>1 DEF Group
    <3> QED BY <2>2, <3>1, <3>2
  <2> QED BY <2>1, <2>2
<1>5. /\ IsIndex(y) /\ Len(y) = Len(x)
      /\ \A k \in 1..Len(x) : y[k].requests = list[k]
  <2>1. y = [k \in 1..Len(w) |-> y[k]]
    BY <1>1, <1>2
  <2>2. Relists(w, y, list)
    <3> HIDE DEF y, list
    <3> QED BY <1>1, <1>4, <2>1 DEF Relists
  <2> HIDE DEF y, list
  <2>3. /\ IsIndex(y) /\ Len(y) = Len(w)
        /\ \A k \in 1..Len(w) : y[k].requests = list[k]
    BY <1>1, <2>2, Relisted
  <2> QED BY <1>1, <2>3
<1>6. DOMAIN y = 1..Len(x)
  BY <1>2
<1> HIDE DEF y, list
<1>7. Members(y) \subseteq Members(w) \cup {id}
  BY <1>1, <1>4, <1>5, <1>6 DEF Members
<1>8. ASSUME ~Known(x, c) PROVE Members(y) \subseteq Members(w)
  <2>1. \A k \in 1..Len(x) : k # Place(x, c)
    BY <1>8 DEF Known
  <2> QED BY <1>1, <1>4, <1>5, <1>6, <2>1 DEF Members
<1> QED BY <1>1, <1>5, <1>7, <1>8 DEF y

(* A grouping is an index whose lists repeat nothing.                      *)
LEMMA GroupedFacts ==
    ASSUME NEW x, IsIndex(x), NEW f
    PROVE  /\ IsIndex(Grouped(x, f).collections) /\ Grouped(x, f).ungrouped \subseteq Id
           /\ \A k \in DOMAIN Grouped(x, f).collections :
                 IsInjective(Grouped(x, f).collections[k].requests)
<1> DEFINE claimed(k) == UNION {Range(x[l].requests) : l \in 1..(k - 1)}
           first(seq) == {j \in DOMAIN seq : \A i \in 1..(j - 1) : seq[i] # seq[j]}
           P(k) == {j \in first(x[k].requests) : x[k].requests[j] \in Saved(f) \ claimed(k)}
           list == [k \in 1..Len(x) |-> Picked(x[k].requests, P(k))]
           y == [k \in 1..Len(x) |-> [x[k] EXCEPT !.requests = list[k]]]
<1>1. /\ Grouped(x, f).collections = y /\ Grouped(x, f).ungrouped = Saved(f) \ Members(x)
      /\ Len(x) \in Nat
  <2>1. DOMAIN x = 1..Len(x) /\ Len(x) \in Nat /\ \A k \in 1..Len(x) : x[k] \in Group
    BY IndexFacts
  <2> QED BY <2>1 DEF Grouped, Group
<1>2. ASSUME NEW k \in 1..Len(x)
      PROVE  list[k] \in Seq(Id) /\ IsInjective(list[k])
  <2> DEFINE seq == x[k].requests
  <2>1. seq \in Seq(Id)
    BY IndexFacts
  <2>2. \A i, j \in 1..Len(seq) : i \in P(k) /\ j \in P(k) /\ seq[i] = seq[j] => i = j
    <3> TAKE i, j \in 1..Len(seq)
    <3>1. i \in P(k) => \A l \in 1..(i - 1) : seq[l] # seq[i]
      OBVIOUS
    <3>2. j \in P(k) => \A l \in 1..(j - 1) : seq[l] # seq[j]
      OBVIOUS
    <3>3. i < j \/ j < i \/ i = j
      OBVIOUS
    <3> HIDE DEF P, seq
    <3> QED BY <3>1, <3>2, <3>3
  <2>3. list[k] = Picked(seq, P(k))
    OBVIOUS
  <2> HIDE DEF P, seq, list
  <2> DEFINE new == Picked(seq, P(k))
  <2>4. new \in Seq(Id) /\ \A i, j \in 1..Len(new) : new[i] = new[j] => i = j
    BY <2>1, <2>2, PickedIsPart
  <2> HIDE DEF new
  <2>5. DOMAIN new = 1..Len(new)
    BY <2>4
  <2> QED BY <2>3, <2>4, <2>5 DEF new, IsInjective
<1> HIDE DEF list
<1>3. IsIndex(y) /\ DOMAIN y = 1..Len(x) /\ \A k \in 1..Len(x) : y[k].requests = list[k]
  <2>1. Relists(x, y, list)
    BY <1>2 DEF Relists
  <2>2. DOMAIN y = 1..Len(x)
    OBVIOUS
  <2> HIDE DEF y
  <2> QED BY <2>1, <2>2, Relisted
<1> HIDE DEF y
<1>4. Saved(f) \subseteq Id
  BY DEF Saved
<1> QED BY <1>1, <1>2, <1>3, <1>4

LEMMA SlotFacts ==
    ASSUME NEW n \in Name, HasSlot(n) PROVE Slot(n) \in Id /\ Takes(Slot(n), n)
<1> DEFINE ids == IdsOf[n]
           I == {i \in 1..Len(ids) : Takes(ids[i], n)}
<1>1. ids \in Seq(Id) /\ Len(ids) \in Nat /\ DOMAIN ids = 1..Len(ids)
  BY ConstantFacts
<1>2. I # {}
  BY <1>1 DEF HasSlot, Range
<1>3. Slot(n) = ids[Min(I)]
  BY <1>2 DEF Slot, SelectInSeq
<1>4. Min(I) \in I
  <2>1. I \in SUBSET (1..Len(ids))
    OBVIOUS
  <2> HIDE DEF I
  <2> QED BY <1>1, <1>2, <2>1, LeastFacts
<1>5. Min(I) \in 1..Len(ids) /\ Takes(ids[Min(I)], n)
  BY <1>4
<1> HIDE DEF ids, I
<1> QED BY <1>1, <1>3, <1>5

LEMMA CreatedFacts ==
    ASSUME NEW x, IsIndex(x), \E c \in Range(Coll) : ~Known(x, c)
    PROVE  IsIndex(Created(x)) /\ Members(Created(x)) = Members(x)
<1> DEFINE I == {k \in 1..Len(Coll) : ~Known(x, Coll[k])}
           g == [id |-> Coll[Min(I)], requests |-> <<>>]
<1>1. Len(Coll) \in Nat /\ DOMAIN Coll = 1..Len(Coll)
  BY ConstantFacts
<1>2. I # {}
  BY <1>1 DEF Range
<1>3. Created(x) = Append(x, g)
  BY <1>2 DEF Created, SelectInSeq
<1>4. Min(I) \in 1..Len(Coll)
  <2>1. I \in SUBSET (1..Len(Coll))
    OBVIOUS
  <2>2. Min(I) \in I
    <3> HIDE DEF I
    <3> QED BY <1>1, <1>2, <2>1, LeastFacts
  <2> QED BY <2>1, <2>2
<1>5. g \in Group /\ g.requests = <<>> /\ Range(g.requests) = {}
  <2>1. Coll[Min(I)] \in Range(Coll)
    BY <1>1, <1>4 DEF Range
  <2> HIDE DEF I
  <2> QED BY <2>1 DEF Group, Range
<1> HIDE DEF g, I
<1>6. /\ Append(x, g) \in Seq(Group) /\ DOMAIN Append(x, g) = 1..(Len(x) + 1)
      /\ Append(x, g)[Len(x) + 1] = g /\ \A k \in 1..Len(x) : Append(x, g)[k] = x[k]
  BY <1>5, IndexFacts
<1> DEFINE y == Append(x, g)
<1>7. /\ DOMAIN y = (DOMAIN x) \cup {Len(x) + 1} /\ y[Len(x) + 1] = g
      /\ \A k \in DOMAIN x : y[k] = x[k]
  BY <1>6, IndexFacts
<1> HIDE DEF y
<1>8. Members(y) = Members(x)
  BY <1>5, <1>7 DEF Members
<1> QED BY <1>3, <1>6, <1>8 DEF IsIndex, y

LEMMA UncollectedFacts ==
    ASSUME NEW x, IsIndex(x), NEW c
    PROVE  IsIndex(Uncollected(x, c)) /\ Members(Uncollected(x, c)) \subseteq Members(x)
<1> DEFINE P == {k \in DOMAIN x : x[k].id # c}
           y == Picked(x, P)
<1>1. /\ y \in Seq(Group)
      /\ \A i \in 1..Len(y) : \E k \in 1..Len(x) : k \in P /\ y[i] = x[k]
  <2> HIDE DEF P
  <2> QED BY IndexFacts, PickedIsPart
<1>2. Uncollected(x, c) = y
  BY DEF Uncollected
<1> HIDE DEF y
<1>3. DOMAIN y = 1..Len(y) /\ DOMAIN x = 1..Len(x)
  BY <1>1, IndexFacts
<1>4. Members(y) \subseteq Members(x)
  BY <1>1, <1>3 DEF Members
<1> QED BY <1>1, <1>2, <1>4 DEF IsIndex

---------------------------------------------------------------------------
(* The invariant, by parts: what is on disk, what the screen was given,    *)
(* and the run with the rows that follow it.                               *)
ShelfInv ==
    /\ files \in [Id -> Record \cup {Nothing}]
    /\ IsIndex(index)
    /\ live \subseteq Inst /\ placed \subseteq Id /\ changes \in 0..MaxChanges
    /\ Members(index) \subseteq placed

GivenInv ==
    /\ IsIndex(data.collections) /\ data.ungrouped \subseteq Id
    /\ \A k \in DOMAIN data.collections : IsInjective(data.collections[k].requests)

RunInv ==
    /\ run = Nothing \/ (run \in Batch /\ run.sent # <<>>)
    /\ rows \in [Id -> {"", "queued", "running", "done", "failed"}]
    /\ RunsOnce
    /\ RowsTellTheRun

LibraryInv == ShelfInv /\ GivenInv /\ RunInv

LEMMA MembersAreIds == ASSUME NEW x, IsIndex(x) PROVE Members(x) \subseteq Id
BY IndexFacts DEF Members, Range

LEMMA SavedIsRecord ==
    ASSUME ShelfInv, NEW id \in Id, files[id] # Nothing
    PROVE  files[id] \in Record /\ files[id].name \in Name /\ files[id].inst \in Inst
BY DEF ShelfInv, Record

LEMMA RowFacts ==
    ASSUME RunInv, run' = run, NEW cleared \in SUBSET Id,
           rows' = [id \in Id |-> IF id \in cleared THEN "" ELSE rows[id]]
    PROVE  RunInv'
BY DEF RunInv, RunsOnce, RowsTellTheRun

LEMMA RowsStay == ASSUME RunInv, UNCHANGED <<run, rows>> PROVE RunInv'
BY DEF RunInv, RunsOnce, RowsTellTheRun

LEMMA GivenStays == ASSUME GivenInv, UNCHANGED data PROVE GivenInv'
BY DEF GivenInv

(* Every change counts, up to the bound.                                   *)
LEMMA ChangeCounts == ASSUME ShelfInv, Change PROVE changes' \in 0..MaxChanges
BY ConstantFacts DEF ShelfInv, Change

LEMMA SaveShelf ==
    ASSUME ShelfInv, NEW n \in Name, NEW i \in Inst, NEW c, Save(n, i, c)
    PROVE  ShelfInv'
<1>1. Slot(n) \in Id /\ changes' \in 0..MaxChanges
  BY SlotFacts, ChangeCounts DEF Save
<1>2. files' \in [Id -> Record \cup {Nothing}] /\ live' \subseteq Inst
  BY <1>1 DEF Save, ShelfInv, Record
<1>3. IsIndex(index') /\ Members(index') \subseteq placed' /\ placed' \subseteq Id
  <2>1. CASE Known(index, c)
    <3>1. End \in Nat
      BY ConstantFacts, FS_CardinalityType DEF End
    <3>2. index' = Assigned(index, Slot(n), c, End) /\ placed' = placed \cup {Slot(n)}
      BY <2>1 DEF Save
    <3>3. IsIndex(index') /\ Members(index') \subseteq (Members(index) \ {Slot(n)}) \cup {Slot(n)}
      BY <1>1, <3>1, <3>2, AssignedFacts DEF ShelfInv
    <3> QED BY <1>1, <3>2, <3>3 DEF ShelfInv
  <2>2. CASE ~Known(index, c)
    BY <2>2 DEF Save, ShelfInv
  <2> QED BY <2>1, <2>2
<1> QED BY <1>1, <1>2, <1>3 DEF ShelfInv

LEMMA DeleteShelf ==
    ASSUME ShelfInv, NEW id \in Id, NEW here, Delete(id, here) \/ DeleteDies(id)
    PROVE  ShelfInv'
<1>1. /\ changes' \in 0..MaxChanges /\ live' \subseteq Inst
      /\ files' \in [Id -> Record \cup {Nothing}]
  BY ChangeCounts DEF Delete, DeleteDies, ShelfInv
<1>2. CASE Delete(id, here)
  <2>1. IsIndex(Without(index, id)) /\ Members(Without(index, id)) \subseteq Members(index) \ {id}
    BY WithoutFacts DEF ShelfInv
  <2>2. index' = Without(index, id) /\ placed' = placed \ {id}
    BY <1>2 DEF Delete, Forgotten
  <2> QED BY <1>1, <2>1, <2>2 DEF ShelfInv
<1>3. CASE DeleteDies(id)
  BY <1>1, <1>3 DEF DeleteDies, ShelfInv
<1> QED BY <1>2, <1>3

LEMMA PatchShelf == ASSUME ShelfInv, NEW id \in Id, Patch(id) PROVE ShelfInv'
<1>1. files[id] \in Record /\ Slot(files[id].name) \in Id /\ changes' \in 0..MaxChanges
  BY SavedIsRecord, SlotFacts, ChangeCounts DEF Patch
<1> QED BY <1>1 DEF Patch, ShelfInv

LEMMA CollectionShelf ==
    ASSUME ShelfInv, CreateCollection \/ \E c \in Range(Coll) : RemoveCollection(c)
    PROVE  ShelfInv'
<1>1. changes' \in 0..MaxChanges /\ UNCHANGED <<files, live, placed>>
  BY ChangeCounts DEF CreateCollection, RemoveCollection
<1>2. IsIndex(index') /\ Members(index') \subseteq Members(index)
  <2>1. CASE CreateCollection
    BY <2>1, CreatedFacts DEF CreateCollection, ShelfInv
  <2>2. CASE \E c \in Range(Coll) : RemoveCollection(c)
    BY <2>2, UncollectedFacts DEF RemoveCollection, ShelfInv
  <2> QED BY <2>1, <2>2
<1> QED BY <1>1, <1>2 DEF ShelfInv

LEMMA AssignShelf ==
    ASSUME ShelfInv, NEW id \in Id, NEW c, NEW at \in Nat, Assign(id, c, at)
    PROVE  ShelfInv'
<1>1. changes' \in 0..MaxChanges /\ UNCHANGED <<files, live>>
  BY ChangeCounts DEF Assign
<1>2. index' = Assigned(index, id, c, at) /\ IsIndex(index)
  BY DEF Assign, ShelfInv
<1>3. IsIndex(index') /\ Members(index') \subseteq (Members(index) \ {id}) \cup {id}
  BY <1>2, AssignedFacts
<1>4. CASE c = Nothing
  <2>1. ~Known(index, c)
    <3>1. \A k \in 1..Len(index) : index[k].id # c
      BY <1>2, <1>4, IndexFacts, ConstantFacts DEF Group
    <3> QED BY <1>2, <3>1, PlaceFacts DEF Known
  <2>2. Members(index') \subseteq Members(index) \ {id}
    BY <1>2, <2>1, AssignedFacts
  <2> QED BY <1>1, <1>3, <1>4, <2>2 DEF Assign, ShelfInv
<1>5. CASE c # Nothing
  BY <1>1, <1>3, <1>5 DEF Assign, ShelfInv
<1> QED BY <1>4, <1>5

LEMMA InstanceShelf ==
    ASSUME ShelfInv, NEW i \in Inst, RemoveInstance(i) \/ \E j \in Inst : RenameInstance(i, j)
    PROVE  ShelfInv'
<1>1. changes' \in 0..MaxChanges /\ UNCHANGED <<index, placed>>
  BY ChangeCounts DEF RemoveInstance, RenameInstance
<1>2. live' \subseteq Inst
  BY DEF RemoveInstance, RenameInstance, ShelfInv
<1>3. files' \in [Id -> Record \cup {Nothing}]
  <2>1. CASE RemoveInstance(i)
    BY <2>1 DEF RemoveInstance, ShelfInv
  <2>2. ASSUME NEW j \in Inst, RenameInstance(i, j) PROVE files' \in [Id -> Record \cup {Nothing}]
    <3>1. \A id \in Id : files[id] \in Record => [files[id] EXCEPT !.inst = j] \in Record
      BY DEF Record
    <3>2. \A id \in Saved(files) : files[id] \in Record
      BY SavedIsRecord DEF Saved
    <3> QED BY <2>2, <3>1, <3>2 DEF RenameInstance, ShelfInv
  <2> QED BY <2>1, <2>2
<1> QED BY <1>1, <1>2, <1>3 DEF ShelfInv

LEMMA DropAssigns ==
    ASSUME GivenInv, NEW id \in Id, NEW r \in Id, NEW c \in Range(Coll),
           NEW half \in {"before", "after"}, NEW shown \in SUBSET Id, Drop(id, c, r, half, shown)
    PROVE  \E at \in Nat : Assign(id, c, at)
<1> DEFINE own == ListOf(data.collections, c)
           visible == Kept(own, shown)
           row == SelectInSeq(visible, LAMBDA x : x = r)
           p == IF half = "before" THEN row - 1 ELSE row
           a == SelectInSeq(own, LAMBDA x : x = id)
           at == DropIndex(id, c, p)
<1>1. row # 0 /\ Assign(id, c, at)
  BY DEF Drop
<1>2. own \in Seq(Id)
  <2>1. Place(data.collections, c) \in 1..Len(data.collections)
    BY PlaceFacts, IndexFacts DEF GivenInv, Drop, Known
  <2> QED BY <2>1, IndexFacts DEF GivenInv, ListOf
<1>3. row \in 0..Len(visible) /\ visible \in Seq(Id)
  <2> DEFINE I == {i \in 1..Len(visible) : visible[i] = r}
  <2>1. visible \in Seq(Id) /\ Len(visible) \in Nat
    BY <1>2, KeptFacts
  <2>2. row = IF I # {} THEN Min(I) ELSE 0
    BY DEF SelectInSeq
  <2>3. I # {} => Min(I) \in I
    <3>1. I \in SUBSET (1..Len(visible))
      OBVIOUS
    <3> HIDE DEF I, visible
    <3> QED BY <2>1, <3>1, LeastFacts
  <2>4. \A i \in I : i \in 1..Len(visible)
    OBVIOUS
  <2> HIDE DEF I, visible, row
  <2> QED BY <2>1, <2>2, <2>3, <2>4
<1>4. a \in 0..Len(own) /\ (id \in Range(own) => a > 0)
  <2> DEFINE I == {i \in 1..Len(own) : own[i] = id}
  <2>1. a = IF I # {} THEN Min(I) ELSE 0
    BY DEF SelectInSeq
  <2>2. I # {} => Min(I) \in I
    <3>1. I \in SUBSET (1..Len(own)) /\ Len(own) \in Nat
      BY <1>2
    <3> HIDE DEF I, own
    <3> QED BY <1>2, <3>1, LeastFacts
  <2>3. \A i \in I : i \in 1..Len(own)
    OBVIOUS
  <2>4. id \in Range(own) => I # {}
    BY <1>2 DEF Range
  <2>5. Len(own) \in Nat
    BY <1>2
  <2> HIDE DEF I, own, a
  <2> QED BY <2>1, <2>2, <2>3, <2>4, <2>5
<1>5. row \in Nat /\ row > 0 /\ p \in Nat
  <2>1. Len(visible) \in Nat
    BY <1>3
  <2> HIDE DEF visible, row
  <2> QED BY <1>1, <1>3, <2>1
<1>6. at = IF id \in Range(own) /\ a - 1 < p THEN p - 1 ELSE p
  BY DEF DropIndex
<1>7. Len(own) \in Nat
  BY <1>2
<1> HIDE DEF own, visible, row, a, at, p
<1>8. at \in Nat
  BY <1>4, <1>5, <1>6, <1>7
<1> QED BY <1>1, <1>8

LEMMA RoutesStep == ASSUME LibraryInv, Routes PROVE LibraryInv'
<1>1. ShelfInv /\ GivenInv /\ RunInv
  BY DEF LibraryInv
<1>2. ShelfInv'
  <2>1. CASE \E n \in Name, i \in Inst, c \in Range(Coll) \cup {Nothing} : Save(n, i, c)
    BY <1>1, <2>1, SaveShelf
  <2>2. CASE \E id \in Id : Patch(id) \/ DeleteDies(id) \/ \E here \in BOOLEAN : Delete(id, here)
    BY <1>1, <2>2, PatchShelf, DeleteShelf
  <2>3. CASE \E id \in Id, c \in Range(Coll) \cup {Nothing} : Assign(id, c, End)
    <3>1. End \in Nat
      BY ConstantFacts, FS_CardinalityType DEF End
    <3> QED BY <1>1, <2>3, <3>1, AssignShelf
  <2>4. CASE CreateCollection \/ \E c \in Range(Coll) : RemoveCollection(c)
    BY <1>1, <2>4, CollectionShelf
  <2>5. CASE \E i \in Inst : RemoveInstance(i) \/ \E j \in Inst : RenameInstance(i, j)
    BY <1>1, <2>5, InstanceShelf
  <2> QED BY <2>1, <2>2, <2>3, <2>4, <2>5 DEF Routes
<1>3. UNCHANGED <<data, run>>
  BY DEF Routes, Save, Patch, Delete, DeleteDies, CreateCollection, RemoveCollection, Assign,
         RemoveInstance, RenameInstance
<1>4. RunInv'
  <2>1. CASE UNCHANGED rows
    BY <1>1, <1>3, <2>1, RowsStay
  <2>2. CASE \E id \in Id, here \in BOOLEAN : Delete(id, here)
    <3>1. PICK id \in Id, here \in BOOLEAN : Delete(id, here)
      BY <2>2
    <3>2. CASE here
      <4>1. rows' = [k \in Id |-> IF k \in {id} THEN "" ELSE rows[k]]
        BY <1>1, <3>1, <3>2 DEF Delete, RunInv
      <4> QED BY <1>1, <1>3, <4>1, RowFacts
    <3>3. CASE ~here
      BY <1>1, <1>3, <3>1, <3>3, RowsStay DEF Delete
    <3> QED BY <3>2, <3>3
  <2> QED BY <2>1, <2>2 DEF Routes, Save, Patch, DeleteDies, CreateCollection, RemoveCollection,
                            Assign, RemoveInstance, RenameInstance
<1> QED BY <1>1, <1>2, <1>3, <1>4, GivenStays DEF LibraryInv

(* A list without repetitions that is handed over from its head.           *)
LEMMA HeadTail ==
    ASSUME NEW list \in Seq(Id), list # <<>>
    PROVE  /\ Head(list) \in Id /\ <<Head(list)>> \in Seq(Id) /\ Tail(list) \in Seq(Id)
           /\ <<Head(list)>> \o Tail(list) = list
           /\ Range(list) = Range(Tail(list)) \cup {Head(list)}
<1>1. /\ Head(list) \in Id /\ <<Head(list)>> \in Seq(Id) /\ Tail(list) \in Seq(Id)
      /\ <<Head(list)>> \o Tail(list) = list
  OBVIOUS
<1> DEFINE t == Tail(list)
<1>2. /\ DOMAIN list = 1..Len(list) /\ DOMAIN t = 1..(Len(list) - 1)
      /\ Len(list) \in Nat /\ Len(list) >= 1 /\ Head(list) = list[1]
      /\ \A k \in 1..(Len(list) - 1) : t[k] = list[k + 1]
  OBVIOUS
<1> HIDE DEF t
<1>3. Range(list) \subseteq Range(t) \cup {Head(list)}
  <2>1. \A k \in 1..Len(list) : list[k] \in Range(t) \cup {Head(list)}
    <3> TAKE k \in 1..Len(list)
    <3>1. CASE k = 1
      BY <1>2, <3>1
    <3>2. CASE k > 1
      <4>1. k - 1 \in 1..(Len(list) - 1) /\ list[k] = t[k - 1]
        BY <1>2, <3>2
      <4> QED BY <1>2, <4>1 DEF Range
    <3> QED BY <3>1, <3>2
  <2> QED BY <1>2, <2>1 DEF Range
<1>4. Range(t) \cup {Head(list)} \subseteq Range(list)
  <2>1. \A k \in 1..(Len(list) - 1) : t[k] \in Range(list)
    <3> TAKE k \in 1..(Len(list) - 1)
    <3>1. k + 1 \in 1..Len(list) /\ t[k] = list[k + 1]
      BY <1>2
    <3> QED BY <1>2, <3>1 DEF Range
  <2>2. Head(list) \in Range(list)
    BY <1>2 DEF Range
  <2> QED BY <1>2, <2>1, <2>2 DEF Range
<1> QED BY <1>1, <1>3, <1>4 DEF t

LEMMA LastOfOne == ASSUME NEW e \in Id PROVE Last(<<e>>) = e
BY DEF Last

LEMMA RunStep ==
    ASSUME RunInv, NEW list \in Seq(Id), IsInjective(list), RunBatch(list) PROVE RunInv'
<1> DEFINE b == [by |-> "screen", sent |-> <<Head(list)>>, left |-> Tail(list),
                 flight |-> "asked", aborted |-> FALSE]
<1>1. /\ run = Nothing /\ list # <<>> /\ run' = b
      /\ rows' = [id \in Id |-> IF id = Head(list) THEN "running"
                                 ELSE IF id \in Range(list) THEN "queued" ELSE rows[id]]
  BY DEF RunBatch, Started
<1>2. /\ Head(list) \in Id /\ <<Head(list)>> \in Seq(Id) /\ Tail(list) \in Seq(Id)
      /\ <<Head(list)>> \o Tail(list) = list
      /\ Range(list) = Range(Tail(list)) \cup {Head(list)}
      /\ Last(<<Head(list)>>) = Head(list) /\ <<Head(list)>> # <<>>
  BY <1>1, HeadTail, LastOfOne
<1>3. /\ b \in Batch /\ b.by = "screen" /\ b.sent = <<Head(list)>> /\ b.left = Tail(list)
      /\ b # Nothing
  <2>1. b \in Batch
    BY <1>2 DEF Batch
  <2> QED BY <2>1, ConstantFacts
<1> HIDE DEF b
<1>4. \A id \in Id : rows[id] # "queued" /\ rows[id] # "running"
  BY <1>1 DEF RunInv, RowsTellTheRun
<1>5. rows' \in [Id -> {"", "queued", "running", "done", "failed"}]
  BY <1>1 DEF RunInv
<1>6. RunsOnce'
  BY <1>1, <1>2, <1>3 DEF RunsOnce
<1>7. RowsTellTheRun'
  <2> SUFFICES ASSUME NEW id \in Id, rows'[id] \in {"queued", "running"}
               PROVE  IF rows'[id] = "queued" THEN id \in Range(Tail(list)) ELSE id = Head(list)
    BY <1>1, <1>2, <1>3 DEF RowsTellTheRun
  <2> QED BY <1>1, <1>2, <1>4
<1> QED BY <1>1, <1>2, <1>3, <1>5, <1>6, <1>7 DEF RunInv

(* The lists a script runs: one of the grouping, one request, or all of    *)
(* them in some order.                                                     *)
LEMMA ScriptLists ==
    ASSUME ShelfInv, Scripts
    PROVE  \E list \in Seq(Id) : IsInjective(list) /\ Started(list, "script")
<1>1. CASE \E c \in Range(Coll) : RunCollection(c)
  <2> DEFINE x == Listed.collections
  <2>1. PICK c \in Range(Coll) : Known(index, c) /\ Started(ListOf(x, c), "script")
    BY <1>1 DEF RunCollection
  <2>2. /\ IsIndex(x) /\ \A k \in DOMAIN x : IsInjective(x[k].requests)
        /\ \A k \in 1..Len(index) : x[k].id = index[k].id
        /\ Len(x) = Len(index)
    <3>1. IsIndex(x) /\ \A k \in DOMAIN x : IsInjective(x[k].requests)
      BY GroupedFacts DEF ShelfInv, Listed
    <3>2. DOMAIN x = 1..Len(index) /\ \A k \in 1..Len(index) : x[k].id = index[k].id
      BY IndexFacts DEF ShelfInv, Listed, Grouped, Group
    <3>3. DOMAIN x = 1..Len(x) /\ Len(x) \in Nat /\ Len(index) \in Nat
      BY <3>1, IndexFacts DEF ShelfInv
    <3> HIDE DEF x
    <3> QED BY <3>1, <3>2, <3>3
  <2> HIDE DEF x
  <2>3. Known(x, c)
    <3>1. Place(index, c) \in 1..Len(index) /\ index[Place(index, c)].id = c
      BY <2>1, PlaceFacts, IndexFacts DEF ShelfInv, Known
    <3> QED BY <2>2, <3>1, PlaceFacts DEF Known
  <2>4. Place(x, c) \in 1..Len(x) /\ DOMAIN x = 1..Len(x)
    BY <2>2, <2>3, PlaceFacts, IndexFacts DEF Known
  <2>5. ListOf(x, c) \in Seq(Id) /\ IsInjective(ListOf(x, c))
    BY <2>2, <2>4, IndexFacts DEF ListOf
  <2> QED BY <2>1, <2>5
<1>2. CASE \E id \in Id : RunOne(id)
  <2>1. PICK id \in Id : Started(<<id>>, "script")
    BY <1>2 DEF RunOne
  <2>2. <<id>> \in Seq(Id) /\ IsInjective(<<id>>)
    BY DEF IsInjective
  <2> QED BY <2>1, <2>2
<1>3. CASE RunAll
  <2> DEFINE S == Saved(files)
             list == SetToSeq(S)
  <2>1. IsFiniteSet(S) /\ S \subseteq Id
    <3>1. S \subseteq Id
      BY DEF Saved
    <3> HIDE DEF S
    <3> QED BY <3>1, ConstantFacts, FS_Subset
  <2>2. Cardinality(S) \in Nat /\ \E f \in [1..Cardinality(S) -> S] : IsInjective(f)
    <3> HIDE DEF S
    <3>1. Cardinality(S) \in Nat /\ ExistsBijection(1..Cardinality(S), S)
      BY <2>1, FS_CardinalityType
    <3> QED BY <3>1 DEF ExistsBijection, Bijection, Injection
  <2>3. list \in [1..Cardinality(S) -> S] /\ IsInjective(list)
    BY <2>2 DEF SetToSeq
  <2>4. list \in Seq(Id)
    <3> HIDE DEF S, list
    <3>1. list \in [1..Cardinality(S) -> Id]
      BY <2>1, <2>3
    <3> QED BY <2>2, <3>1, IsSequence
  <2> QED BY <1>3, <2>3, <2>4 DEF RunAll
<1> QED BY <1>1, <1>2, <1>3 DEF Scripts

LEMMA ScriptsStep == ASSUME LibraryInv, Scripts PROVE LibraryInv'
<1>1. ShelfInv /\ GivenInv /\ RunInv /\ \A id \in Id : rows[id] = ""
  BY DEF LibraryInv, Scripts
<1>2. UNCHANGED <<files, index, live, data, rows, placed, changes>>
  BY DEF Scripts, RunCollection, RunOne, RunAll, Started
<1>3. ShelfInv' /\ GivenInv'
  BY <1>1, <1>2, GivenStays DEF ShelfInv
<1>4. PICK list \in Seq(Id) : IsInjective(list) /\ Started(list, "script")
  BY <1>1, ScriptLists
<1> DEFINE b == [by |-> "script", sent |-> <<Head(list)>>, left |-> Tail(list),
                 flight |-> "asked", aborted |-> FALSE]
<1>5. run' = b /\ list # <<>>
  BY <1>4 DEF Started
<1>6. /\ <<Head(list)>> \in Seq(Id) /\ Tail(list) \in Seq(Id) /\ <<Head(list)>> # <<>>
      /\ <<Head(list)>> \o Tail(list) = list
  BY <1>5, HeadTail
<1>7. b \in Batch /\ b.sent = <<Head(list)>> /\ b.left = Tail(list)
  BY <1>6 DEF Batch
<1> HIDE DEF b
<1>8. RunInv'
  BY <1>1, <1>2, <1>4, <1>5, <1>6, <1>7 DEF RunInv, RunsOnce, RowsTellTheRun
<1> QED BY <1>3, <1>8 DEF LibraryInv

(* A run that only lands or is stopped keeps its lists, and its rows.      *)
LEMMA SameLists ==
    ASSUME RunInv, run # Nothing, UNCHANGED rows, run' \in Batch, run'.by = run.by,
           run'.sent = run.sent, run'.left = run.left
    PROVE  RunInv'
<1>1. run' # Nothing /\ run.sent # <<>>
  BY ConstantFacts DEF RunInv
<1>2. RunsOnce'
  BY <1>1 DEF RunInv, RunsOnce
<1>3. RowsTellTheRun'
  BY <1>1 DEF RunInv, RowsTellTheRun
<1> QED BY <1>1, <1>2, <1>3 DEF RunInv

LEMMA ScreenStep == ASSUME LibraryInv, Screen PROVE LibraryInv'
<1>1. ShelfInv /\ GivenInv /\ RunInv
  BY DEF LibraryInv
<1>2. CASE Refresh
  <2>1. ShelfInv' /\ RunInv'
    BY <1>1, <1>2, RowsStay DEF Refresh, ShelfInv
  <2>2. GivenInv'
    BY <1>1, <1>2, GroupedFacts DEF Refresh, Listed, ShelfInv, GivenInv
  <2> QED BY <2>1, <2>2 DEF LibraryInv
<1>3. CASE \E id, r \in Id, c \in Range(Coll), half \in {"before", "after"}, shown \in SUBSET Id :
              Drop(id, c, r, half, shown)
  <2>1. PICK id \in Id, c \in Range(Coll), at \in Nat : Assign(id, c, at)
    BY <1>1, <1>3, DropAssigns
  <2>2. ShelfInv' /\ UNCHANGED <<data, run, rows>>
    BY <1>1, <2>1, AssignShelf DEF Assign
  <2> QED BY <1>1, <2>2, RowsStay, GivenStays DEF LibraryInv
<1>4. CASE \/ \E k \in DOMAIN data.collections : RunBatch(data.collections[k].requests)
           \/ \E id \in data.ungrouped : RunBatch(<<id>>)
  <2>1. PICK list \in Seq(Id) : IsInjective(list) /\ RunBatch(list)
    <3>1. CASE \E k \in DOMAIN data.collections : RunBatch(data.collections[k].requests)
      BY <1>1, <3>1, IndexFacts DEF GivenInv
    <3>2. CASE \E id \in data.ungrouped : RunBatch(<<id>>)
      <4>1. PICK id \in Id : RunBatch(<<id>>)
        BY <1>1, <3>2 DEF GivenInv
      <4>2. <<id>> \in Seq(Id) /\ IsInjective(<<id>>)
        BY DEF IsInjective
      <4> QED BY <4>1, <4>2
    <3> QED BY <1>4, <3>1, <3>2
  <2>2. RunInv'
    BY <1>1, <2>1, RunStep
  <2>3. UNCHANGED <<files, index, live, data, placed, changes>>
    BY <2>1 DEF RunBatch, Started
  <2> QED BY <1>1, <2>2, <2>3, GivenStays DEF LibraryInv, ShelfInv
<1>5. CASE Stop
  <2>1. /\ run # Nothing /\ run' = [run EXCEPT !.aborted = TRUE] /\ run \in Batch
        /\ UNCHANGED <<files, index, live, data, rows, placed, changes>>
    BY <1>1, <1>5 DEF Stop, RunInv
  <2>2. /\ run' \in Batch /\ run'.by = run.by /\ run'.sent = run.sent /\ run'.left = run.left
    BY <2>1 DEF Batch
  <2>3. RunInv'
    BY <1>1, <2>1, <2>2, SameLists
  <2> QED BY <1>1, <2>1, <2>3, GivenStays DEF LibraryInv, ShelfInv
<1> QED BY <1>2, <1>3, <1>4, <1>5 DEF Screen

(* The next request moves from what is left to what is sent.               *)
LEMMA MoveOne ==
    ASSUME NEW sent \in Seq(Id), NEW left \in Seq(Id), left # <<>>
    PROVE  /\ Append(sent, Head(left)) \in Seq(Id) /\ Append(sent, Head(left)) # <<>>
           /\ Tail(left) \in Seq(Id) /\ Head(left) \in Id
           /\ Append(sent, Head(left)) \o Tail(left) = sent \o left
           /\ Last(Append(sent, Head(left))) = Head(left)
           /\ Range(left) = Range(Tail(left)) \cup {Head(left)}
<1> DEFINE h == Head(left)
           t == Tail(left)
<1>1. h \in Id /\ t \in Seq(Id) /\ <<h>> \o t = left /\ Range(left) = Range(t) \cup {h}
      /\ <<h>> \in Seq(Id)
  BY HeadTail
<1> HIDE DEF h, t
<1>2. /\ Append(sent, h) \in Seq(Id) /\ Len(Append(sent, h)) = Len(sent) + 1
      /\ Append(sent, h)[Len(sent) + 1] = h /\ Append(sent, h) # <<>>
  BY <1>1
<1>3. Last(Append(sent, h)) = h
  BY <1>2 DEF Last
<1>4. Append(sent, h) = sent \o <<h>>
  BY <1>1
<1>5. (sent \o <<h>>) \o t = sent \o (<<h>> \o t)
  BY <1>1
<1> QED BY <1>1, <1>2, <1>3, <1>4, <1>5 DEF h, t

LEMMA NextBatch ==
    ASSUME NEW r \in Batch, NEW sent, NEW left
    PROVE  [r EXCEPT !.sent = sent, !.left = left, !.flight = "asked"] =
             [by |-> r.by, sent |-> sent, left |-> left, flight |-> "asked", aborted |-> r.aborted]
<1> DEFINE a == [r EXCEPT !.sent = sent]
           b == [a EXCEPT !.left = left]
<1>1. a = [by |-> r.by, sent |-> sent, left |-> r.left, flight |-> r.flight, aborted |-> r.aborted]
  BY DEF Batch
<1> HIDE DEF a
<1>2. b = [by |-> r.by, sent |-> sent, left |-> left, flight |-> r.flight, aborted |-> r.aborted]
  BY <1>1
<1> HIDE DEF b
<1>3. [b EXCEPT !.flight = "asked"] =
        [by |-> r.by, sent |-> sent, left |-> left, flight |-> "asked", aborted |-> r.aborted]
  BY <1>2
<1> QED BY <1>3 DEF a, b

LEMMA AdvanceStep == ASSUME RunInv, Advance PROVE RunInv'
<1> DEFINE last == Last(run.sent)
           h == Head(run.left)
           next == [run EXCEPT !.sent = Append(@, Head(run.left)), !.left = Tail(@),
                               !.flight = "asked"]
           said == Said(Last(run.sent), run.flight)
<1>1. /\ run # Nothing /\ run \in Batch /\ run.sent # <<>> /\ run.flight \in {"done", "failed"}
      /\ run.sent \in Seq(Id) /\ run.left \in Seq(Id) /\ run.by \in {"screen", "script"}
  BY DEF Advance, RunInv, Batch
<1>2. \A id \in Id : (rows[id] = "queued" => id \in Range(run.left) /\ run.by = "screen")
                   /\ (rows[id] = "running" => id = last /\ run.by = "screen")
  BY DEF RunInv, RowsTellTheRun
<1>3. last \in Id
  BY <1>1 DEF Last
<1>4. ASSUME run.left # <<>>
      PROVE  /\ next \in Batch /\ next # Nothing /\ next.by = run.by
             /\ next.sent # <<>> /\ Last(next.sent) = h /\ h \in Id
             /\ next.sent \o next.left = run.sent \o run.left
             /\ Range(run.left) = Range(next.left) \cup {h}
  <2> DEFINE sent == Append(run.sent, Head(run.left))
             left == Tail(run.left)
  <2>1. /\ sent \in Seq(Id) /\ sent # <<>> /\ left \in Seq(Id) /\ h \in Id
        /\ sent \o left = run.sent \o run.left /\ Last(sent) = h
        /\ Range(run.left) = Range(left) \cup {h}
    BY <1>1, <1>4, MoveOne
  <2>2. next = [by |-> run.by, sent |-> sent, left |-> left, flight |-> "asked",
                aborted |-> run.aborted]
    <3> HIDE DEF sent, left
    <3> QED BY <1>1, NextBatch DEF sent, left
  <2>3. run.aborted \in BOOLEAN
    BY <1>1 DEF Batch
  <2> HIDE DEF sent, left
  <2>4. next \in Batch /\ next.by = run.by /\ next.sent = sent /\ next.left = left
    BY <1>1, <2>1, <2>2, <2>3 DEF Batch
  <2> HIDE DEF next, h
  <2> QED BY <2>1, <2>4, ConstantFacts
<1>6. CASE run.by = "screen"
  <2>1. said = [rows EXCEPT ![last] = run.flight] /\ AdvanceScreen
    BY <1>6 DEF Said, Advance
  <2>2. /\ said \in [Id -> {"", "queued", "running", "done", "failed"}]
        /\ \A id \in Id : said[id] # "running" /\ (said[id] = "queued" => id \in Range(run.left))
    <3> HIDE DEF last, h, next, said
    <3>1. rows \in [Id -> {"", "queued", "running", "done", "failed"}]
      BY DEF RunInv
    <3>2. \A id \in Id : said[id] = IF id = last THEN run.flight ELSE rows[id]
      BY <1>3, <2>1, <3>1
    <3>3. said \in [Id -> {"", "queued", "running", "done", "failed"}]
      BY <1>1, <1>3, <2>1, <3>1
    <3>4. run.flight # "queued" /\ run.flight # "running"
      BY <1>1
    <3> QED BY <1>2, <3>2, <3>3, <3>4
  <2> HIDE DEF said
  <2>3. CASE run.aborted \/ run.left = <<>>
    <3>1. run' = Nothing /\ rows' = [id \in Id |-> IF id \in Range(run.left) THEN "" ELSE said[id]]
      BY <2>1, <2>3 DEF AdvanceScreen, said
    <3> QED BY <2>2, <3>1 DEF RunInv, RunsOnce, RowsTellTheRun
  <2>4. CASE ~(run.aborted \/ run.left = <<>>)
    <3>1. run' = next /\ rows' = [said EXCEPT ![h] = "running"]
      BY <2>1, <2>4 DEF AdvanceScreen, said
    <3>2. /\ run' \in Batch /\ run' # Nothing /\ run'.by = "screen"
          /\ run'.sent # <<>> /\ Last(run'.sent) = h /\ h \in Id
          /\ run'.sent \o run'.left = run.sent \o run.left
          /\ Range(run.left) = Range(run'.left) \cup {h}
      <4> HIDE DEF next, h
      <4> QED BY <1>4, <1>6, <2>4, <3>1
    <3> HIDE DEF h, next
    <3>3. RunsOnce'
      BY <1>1, <3>2 DEF RunInv, RunsOnce
    <3>4. RowsTellTheRun'
      BY <2>2, <3>1, <3>2 DEF RowsTellTheRun
    <3> QED BY <2>2, <3>1, <3>2, <3>3, <3>4 DEF RunInv
  <2> QED BY <2>3, <2>4
<1>7. CASE run.by = "script"
  <2>1. AdvanceScript /\ UNCHANGED rows
    BY <1>7 DEF Advance, AdvanceScript
  <2>2. \A id \in Id : rows[id] # "queued" /\ rows[id] # "running"
    <3> HIDE DEF last, h, next, said
    <3>1. run.by # "screen"
      BY <1>7
    <3> QED BY <1>2, <3>1
  <2>3. CASE run.left = <<>>
    <3>1. run' = Nothing
      BY <2>1, <2>3 DEF AdvanceScript
    <3> QED BY <2>1, <2>2, <3>1 DEF RunInv, RunsOnce, RowsTellTheRun
  <2>4. CASE run.left # <<>>
    <3>1. run' = next
      BY <2>1, <2>4 DEF AdvanceScript
    <3>2. /\ run' \in Batch /\ run'.sent # <<>>
          /\ run'.sent \o run'.left = run.sent \o run.left
      <4> HIDE DEF next
      <4> QED BY <1>4, <2>4, <3>1
    <3> HIDE DEF next
    <3>3. RunsOnce'
      BY <1>1, <3>2 DEF RunInv, RunsOnce
    <3> QED BY <2>1, <2>2, <3>2, <3>3 DEF RunInv, RowsTellTheRun
  <2> QED BY <2>3, <2>4
<1> QED BY <1>1, <1>6, <1>7

LEMMA RunningStep == ASSUME LibraryInv, Running PROVE LibraryInv'
<1>1. ShelfInv /\ GivenInv /\ RunInv
  BY DEF LibraryInv
<1>2. UNCHANGED <<files, index, live, data, placed, changes>>
  BY DEF Running, SendArrives, SendAnswered, Advance
<1>3. ShelfInv' /\ GivenInv'
  BY <1>1, <1>2, GivenStays DEF ShelfInv
<1>4. RunInv'
  <2>1. CASE SendArrives \/ SendAnswered
    <3>1. /\ run # Nothing /\ run \in Batch /\ UNCHANGED rows
          /\ \E what \in {"out", "done", "failed"} : run' = [run EXCEPT !.flight = what]
      BY <1>1, <2>1 DEF SendArrives, SendAnswered, RunInv
    <3>2. /\ run' \in Batch /\ run'.by = run.by /\ run'.sent = run.sent /\ run'.left = run.left
      BY <3>1 DEF Batch
    <3> QED BY <1>1, <3>1, <3>2, SameLists
  <2>2. CASE Advance
    BY <1>1, <2>2, AdvanceStep
  <2> QED BY <2>1, <2>2 DEF Running
<1> QED BY <1>3, <1>4 DEF LibraryInv

LEMMA LibraryStep == LibraryInv /\ [Next]_vars => LibraryInv'
<1> SUFFICES ASSUME LibraryInv, [Next]_vars PROVE LibraryInv'
  OBVIOUS
<1>1. CASE UNCHANGED vars
  BY <1>1, RowsStay, GivenStays DEF vars, LibraryInv, ShelfInv
<1> QED BY <1>1, RoutesStep, ScreenStep, ScriptsStep, RunningStep DEF Next

LEMMA LibraryInit == Init => LibraryInv
<1> SUFFICES ASSUME Init PROVE LibraryInv
  OBVIOUS
<1>1. files \in [Id -> Record \cup {Nothing}] /\ IsIndex(index)
  BY ConstantFacts DEF Init
<1>2. live \subseteq Inst
  BY ConstantFacts DEF Init
<1>3. ShelfInv
  <2>1. placed = Members(index) /\ Members(index) \subseteq Id
    BY <1>1, MembersAreIds DEF Init
  <2>2. changes \in 0..MaxChanges
    <3>1. changes = 0 /\ MaxChanges \in Nat
      BY ConstantFacts DEF Init
    <3> QED BY <3>1
  <2> QED BY <1>1, <1>2, <2>1, <2>2 DEF ShelfInv
<1>4. GivenInv
  BY <1>1, GroupedFacts DEF Init, GivenInv
<1>5. RunInv
  BY DEF Init, RunInv, RunsOnce, RowsTellTheRun
<1> QED BY <1>3, <1>4, <1>5 DEF LibraryInv

---------------------------------------------------------------------------
(* The requests, the index, the grouping and the run have their types.     *)
THEOREM LibraryType == Spec => []TypeOK
<1>1. LibraryInv => TypeOK
  BY DEF LibraryInv, ShelfInv, GivenInv, RunInv, TypeOK
<1> QED BY LibraryInit, LibraryStep, <1>1, PTL DEF Spec

(* However the index was edited by hand, a batch of the screen, of the     *)
(* command line or of a client sends no request twice: groupRequests shows *)
(* a request once, and what a run has sent and has left is always the list *)
(* it was started on.                                                      *)
THEOREM LibraryRunsOnce == Spec => []RunsOnce
<1>1. LibraryInv => RunsOnce
  BY DEF LibraryInv, RunInv
<1> QED BY LibraryInit, LibraryStep, <1>1, PTL DEF Spec

(* A row of the screen says "queued" or "running" only of a request that   *)
(* the run going on has left or has just sent (runBatch, stopRun), with    *)
(* deletes, answers and scripts of any kind in between.                    *)
THEOREM LibraryRowsTellTheRun == Spec => []RowsTellTheRun
<1>1. LibraryInv => RowsTellTheRun
  BY DEF LibraryInv, RunInv
<1> QED BY LibraryInit, LibraryStep, <1>1, PTL DEF Spec

(* A request is in a collection only if its id was put there (assign) and  *)
(* no delete of it has completed since (removeRequest).  A delete that     *)
(* died before the index was cleaned leaves its place for the next request *)
(* of that id, which this allows.                                          *)
THEOREM LibraryPlacedByHand == Spec => []PlacedByHand
<1>1. LibraryInv => PlacedByHand
  BY DEF LibraryInv, ShelfInv, PlacedByHand
<1> QED BY LibraryInit, LibraryStep, <1>1, PTL DEF Spec

LEMMA NamesStay ==
    ASSUME ShelfInv, Next, NEW id \in Saved(files) \cap Saved(files')
    PROVE  files'[id].name = files[id].name
<1>1. id \in Id /\ files[id] # Nothing /\ files'[id] # Nothing
  BY DEF Saved
<1>2. CASE files' = files
  BY <1>2
<1>3. CASE \E n \in Name, i \in Inst, c \in Range(Coll) \cup {Nothing} : Save(n, i, c)
  <2>1. PICK n \in Name, i \in Inst, c \in Range(Coll) \cup {Nothing} : Save(n, i, c)
    BY <1>3
  <2>2. Slot(n) \in Id /\ Takes(Slot(n), n)
    BY <2>1, SlotFacts DEF Save
  <2>3. files' = [files EXCEPT ![Slot(n)] = [name |-> n, inst |-> i]]
    BY <2>1 DEF Save
  <2> QED BY <1>1, <2>2, <2>3 DEF Takes, Saved, ShelfInv
<1>4. CASE \E k \in Id : Patch(k)
  <2>1. PICK k \in Id : Patch(k)
    BY <1>4
  <2> DEFINE n == files[k].name
  <2>2. n \in Name /\ HasSlot(n)
    BY <2>1, SavedIsRecord DEF Patch
  <2>3. Slot(n) \in Id /\ Takes(Slot(n), n)
    BY <2>2, SlotFacts
  <2>4. files' = [files EXCEPT ![Slot(n)] = files[k]]
    BY <2>1 DEF Patch
  <2> QED BY <1>1, <2>3, <2>4 DEF Takes, Saved, ShelfInv
<1>5. CASE \E k \in Id, here \in BOOLEAN : Delete(k, here) \/ DeleteDies(k)
  BY <1>1, <1>5 DEF Delete, DeleteDies, ShelfInv
<1>6. CASE \E i, j \in Inst : RenameInstance(i, j)
  <2>1. files[id] \in Record
    BY <1>1, SavedIsRecord
  <2>2. \A j : [files[id] EXCEPT !.inst = j].name = files[id].name
    BY <2>1 DEF Record
  <2> QED BY <1>1, <1>6, <2>2 DEF RenameInstance
<1>7. CASE Screen \/ Scripts \/ Running
  <2>1. ASSUME NEW k \in Id, NEW r \in Id, NEW c, NEW half, NEW shown, Drop(k, c, r, half, shown)
        PROVE  files' = files
    BY <2>1 DEF Drop, Assign
  <2>2. CASE Screen
    BY <2>1, <2>2 DEF Screen, Refresh, RunBatch, Started, Stop
  <2>3. CASE Scripts
    BY <2>3 DEF Scripts, RunCollection, RunOne, RunAll, Started
  <2>4. CASE Running
    BY <2>4 DEF Running, SendArrives, SendAnswered, Advance
  <2> QED BY <1>2, <1>7, <2>2, <2>3, <2>4
<1>8. CASE Routes
  BY <1>2, <1>3, <1>4, <1>5, <1>6, <1>8
     DEF Routes, CreateCollection, RemoveCollection, Assign, RemoveInstance
<1> QED BY <1>7, <1>8 DEF Next

(* A save, a patch or a rename never takes the file of a request of        *)
(* another name (save's numbering of the slug).                            *)
THEOREM LibraryKeepsItsName == Spec => KeepsItsName
<1>1. LibraryInv /\ [Next]_vars =>
        [\A id \in Saved(files) \cap Saved(files') : files'[id].name = files[id].name]_vars
  BY NamesStay DEF LibraryInv
<1> QED BY LibraryInit, LibraryStep, <1>1, PTL DEF Spec, KeepsItsName

---------------------------------------------------------------------------
(* Where a dropped request lands.                                          *)
At(list, e) == SelectInSeq(list, LAMBDA x : x = e)

(* e is in the list, at k and nowhere else.                                *)
Only(list, e, k) ==
    k \in 1..Len(list) /\ list[k] = e /\ \A i \in 1..Len(list) : list[i] = e => i = k

LEMMA OnlyIsAt ==
    ASSUME NEW list \in Seq(Id), NEW e, NEW k, Only(list, e, k) PROVE At(list, e) = k
<1> DEFINE I == {i \in 1..Len(list) : list[i] = e}
<1>1. At(list, e) = IF I # {} THEN Min(I) ELSE 0
  BY DEF At, SelectInSeq
<1>2. I = {k}
  BY DEF Only
<1>3. Min({k}) = k
  <2>1. Len(list) \in Nat /\ {k} \in SUBSET (1..Len(list))
    BY DEF Only
  <2> QED BY <2>1, LeastFacts
<1> QED BY <1>1, <1>2, <1>3

LEMMA AtFacts ==
    ASSUME NEW list \in Seq(Id), IsInjective(list), NEW e
    PROVE  /\ e \in Range(list) => Only(list, e, At(list, e))
           /\ e \notin Range(list) => At(list, e) = 0
<1>1. DOMAIN list = 1..Len(list)
  OBVIOUS
<1>2. ASSUME e \in Range(list) PROVE Only(list, e, At(list, e))
  <2>1. PICK k \in 1..Len(list) : list[k] = e
    BY <1>1, <1>2 DEF Range
  <2>2. Only(list, e, k)
    BY <1>1, <2>1 DEF Only, IsInjective
  <2> QED BY <2>2, OnlyIsAt
<1>3. ASSUME e \notin Range(list) PROVE At(list, e) = 0
  <2>1. {i \in 1..Len(list) : list[i] = e} = {}
    BY <1>1, <1>3 DEF Range
  <2> QED BY <2>1 DEF At, SelectInSeq
<1> QED BY <1>2, <1>3

(* The list without a request: those behind it move up by one.             *)
LEMMA RestFacts ==
    ASSUME NEW list \in Seq(Id), IsInjective(list), NEW id \in Id,
           NEW r \in Id, r # id, NEW b, Only(list, r, b)
    PROVE  /\ Kept(list, Id \ {id}) \in Seq(Id)
           /\ id \notin Range(Kept(list, Id \ {id}))
           /\ id \notin Range(list) =>
                 /\ Len(Kept(list, Id \ {id})) = Len(list)
                 /\ Only(Kept(list, Id \ {id}), r, b)
           /\ \A a : Only(list, id, a) =>
                 /\ Len(Kept(list, Id \ {id})) = Len(list) - 1
                 /\ Only(Kept(list, Id \ {id}), r, IF a < b THEN b - 1 ELSE b)
<1> DEFINE P == {k \in DOMAIN list : list[k] \in Id \ {id}}
           w == Kept(list, Id \ {id})
<1>1. w \in Seq(Id) /\ id \notin Range(w)
  BY KeptFacts
<1>2. w = Picked(list, P) /\ DOMAIN list = 1..Len(list) /\ Len(list) \in Nat
      /\ \A k \in 1..Len(list) : list[k] \in Id
  BY DEF Kept
<1> HIDE DEF w
<1>3. ASSUME id \notin Range(list) PROVE w = list
  <2>1. 1..Len(list) \subseteq P
    BY <1>2, <1>3 DEF Range
  <2> HIDE DEF P
  <2> QED BY <1>2, <2>1, PickedIsAll
<1>4. ASSUME NEW a, Only(list, id, a)
      PROVE  Len(w) = Len(list) - 1 /\ Only(w, r, IF a < b THEN b - 1 ELSE b)
  <2>1. a \in 1..Len(list) /\ a \notin P /\ \A k \in 1..Len(list) : k # a => k \in P
    BY <1>2, <1>4 DEF Only
  <2> HIDE DEF P
  <2>2. /\ w \in Seq(Id) /\ Len(w) = Len(list) - 1
        /\ \A i \in 1..(Len(list) - 1) : w[i] = IF i < a THEN list[i] ELSE list[i + 1]
    BY <1>2, <2>1, PickedIsAllButOne
  <2>3. b \in 1..Len(list) /\ list[b] = r /\ a # b
        /\ \A i \in 1..Len(list) : list[i] = r => i = b
    BY <1>4 DEF Only
  <2> DEFINE m == IF a < b THEN b - 1 ELSE b
  <2>4. m \in 1..Len(w) /\ w[m] = r
    <3>1. CASE a < b
      <4>1. b - 1 \in 1..(Len(list) - 1) /\ ~(b - 1 < a) /\ (b - 1) + 1 = b
        BY <2>1, <2>3, <3>1
      <4>2. w[b - 1] = list[(b - 1) + 1]
        BY <2>2, <4>1
      <4> QED BY <2>2, <2>3, <3>1, <4>1, <4>2
    <3>2. CASE a > b
      <4>1. b \in 1..(Len(list) - 1) /\ b < a
        BY <2>1, <2>3, <3>2
      <4>2. m = b
        BY <4>1, <2>1
      <4>3. w[b] = list[b]
        BY <2>2, <4>1
      <4> QED BY <2>2, <2>3, <4>1, <4>2, <4>3
    <3> QED BY <1>2, <2>1, <2>3, <3>1, <3>2
  <2>5. ASSUME NEW i \in 1..Len(w), w[i] = r PROVE i = m
    <3>1. i \in 1..(Len(list) - 1) /\ i \in 1..Len(list) /\ i + 1 \in 1..Len(list)
      BY <1>2, <2>2
    <3>2. CASE i < a
      BY <2>1, <2>2, <2>3, <2>5, <3>1, <3>2
    <3>3. CASE ~(i < a)
      BY <2>1, <2>2, <2>3, <2>5, <3>1, <3>3
    <3> QED BY <3>2, <3>3
  <2> QED BY <2>2, <2>4, <2>5 DEF Only
<1> QED BY <1>1, <1>3, <1>4 DEF w

(* The list with a request put in at q: those from there on move down.     *)
LEMMA PutFacts ==
    ASSUME NEW w \in Seq(Id), NEW id \in Id, id \notin Range(w), NEW r \in Id, r # id,
           NEW m, Only(w, r, m), NEW q \in 1..(Len(w) + 1)
    PROVE  /\ At(InsertAt(w, q, id), id) = q
           /\ At(InsertAt(w, q, id), r) = IF m < q THEN m ELSE m + 1
<1> DEFINE new == InsertAt(w, q, id)
           t == IF m < q THEN m ELSE m + 1
<1>1. /\ new \in Seq(Id) /\ Len(new) = Len(w) + 1 /\ Len(w) \in Nat
      /\ \A i \in 1..(Len(w) + 1) :
            new[i] = IF i < q THEN w[i] ELSE IF i = q THEN id ELSE w[i - 1]
  <2>1. Len(w) \in Nat
    OBVIOUS
  <2>2. Inserted(w, q, id, new)
    BY InsertIs
  <2> HIDE DEF new
  <2> QED BY <2>1, <2>2 DEF Inserted
<1> HIDE DEF new
<1>2. \A i \in 1..Len(w) : w[i] # id
  BY DEF Range
<1>3. /\ \A i \in 1..(Len(w) + 1) : i < q => i \in 1..Len(w)
      /\ \A i \in 1..(Len(w) + 1) : i > q => i - 1 \in 1..Len(w)
  BY <1>1
<1>4. Only(new, id, q)
  <2>1. new[q] = id /\ q \in 1..Len(new)
    BY <1>1
  <2>2. ASSUME NEW i \in 1..Len(new), new[i] = id PROVE i = q
    <3>1. CASE i < q
      BY <1>1, <1>2, <1>3, <2>2, <3>1
    <3>2. CASE i > q
      BY <1>1, <1>2, <1>3, <2>2, <3>2
    <3> QED BY <1>1, <3>1, <3>2
  <2> QED BY <2>1, <2>2 DEF Only
<1>5. m \in 1..Len(w) /\ w[m] = r /\ \A i \in 1..Len(w) : w[i] = r => i = m
  BY DEF Only
<1>6. Only(new, r, t)
  <2>1. t \in 1..Len(new) /\ new[t] = r
    <3>1. CASE m < q
      BY <1>1, <1>5, <3>1
    <3>2. CASE ~(m < q)
      <4>1. m + 1 \in 1..(Len(w) + 1) /\ ~(m + 1 < q) /\ m + 1 # q /\ (m + 1) - 1 = m
        BY <1>1, <1>5, <3>2
      <4>2. new[m + 1] = w[(m + 1) - 1]
        BY <1>1, <4>1
      <4> QED BY <1>1, <1>5, <3>2, <4>1, <4>2
    <3> QED BY <3>1, <3>2
  <2>2. ASSUME NEW i \in 1..Len(new), new[i] = r PROVE i = t
    <3>1. CASE i < q
      BY <1>1, <1>3, <1>5, <2>2, <3>1
    <3>2. CASE i > q
      BY <1>1, <1>3, <1>5, <2>2, <3>2
    <3>3. CASE i = q
      BY <1>1, <2>2, <3>3
    <3> QED BY <1>1, <3>1, <3>2, <3>3
  <2> QED BY <2>1, <2>2 DEF Only
<1>7. At(new, id) = q /\ At(new, r) = t
  <2> HIDE DEF t
  <2> QED BY <1>1, <1>4, <1>6, OnlyIsAt
<1> QED BY <1>7 DEF new

(* The list of a collection after an assign to it.                         *)
LEMMA AssignedList ==
    ASSUME NEW x, IsIndex(x), NEW id \in Id, NEW c, Known(x, c), NEW at \in Nat,
           at <= Len(Kept(ListOf(x, c), Id \ {id}))
    PROVE  /\ ListOf(x, c) \in Seq(Id)
           /\ ListOf(Assigned(x, id, c, at), c) =
                 InsertAt(Kept(ListOf(x, c), Id \ {id}), at + 1, id)
<1> DEFINE y == Assigned(x, id, c, at)
           w == Without(x, id)
           k == Place(x, c)
           rest == Kept(ListOf(x, c), Id \ {id})
<1>1. k \in 1..Len(x) /\ ListOf(x, c) = x[k].requests /\ Len(x) \in Nat /\ x[k].id = c
  BY PlaceFacts, IndexFacts DEF Known, ListOf
<1>2. ListOf(x, c) \in Seq(Id) /\ DOMAIN x = 1..Len(x)
  BY <1>1, IndexFacts
<1>3. /\ w[k].requests = rest /\ rest \in Seq(Id) /\ at <= Len(rest) /\ Len(rest) \in Nat
      /\ \A l \in 1..Len(x) : w[l] \in Group /\ w[l].id = x[l].id
  <2>1. /\ \A l \in 1..Len(x) : /\ w[l].id = x[l].id
                                /\ w[l].requests = Kept(x[l].requests, Id \ {id})
        /\ IsIndex(w) /\ Len(w) = Len(x)
    BY WithoutFacts
  <2>2. rest \in Seq(Id)
    BY <1>2, KeptFacts
  <2>3. \A l \in 1..Len(x) : w[l] \in Group
    <3> HIDE DEF w
    <3> QED BY <2>1, IndexFacts
  <2>4. w[k].requests = rest
    BY <1>1, <2>1
  <2>5. at <= Len(rest)
    OBVIOUS
  <2> HIDE DEF w, k, rest
  <2> QED BY <1>1, <2>1, <2>2, <2>3, <2>4, <2>5
<1>4. /\ DOMAIN y = 1..Len(x)
      /\ y[k] = [w[k] EXCEPT !.requests = InsertAt(rest, at + 1, id)]
      /\ \A l \in 1..Len(x) : y[l].id = x[l].id
  <2> DEFINE n(l) == IF at > Len(w[l].requests) THEN Len(w[l].requests) ELSE at
  <2>1. y = [l \in 1..Len(x) |->
               IF l = k THEN [w[l] EXCEPT !.requests = InsertAt(@, n(l) + 1, id)] ELSE w[l]]
    BY <1>2 DEF Assigned
  <2> HIDE DEF w, k, y
  <2>2. n(k) = at
    BY <1>3
  <2>3. y[k] = [w[k] EXCEPT !.requests = InsertAt(rest, at + 1, id)]
    BY <1>1, <1>3, <2>1, <2>2
  <2>4. ASSUME NEW l \in 1..Len(x) PROVE y[l].id = x[l].id
    <3>1. CASE l = k
      <4>1. [w[k] EXCEPT !.requests = InsertAt(rest, at + 1, id)].id = w[k].id
        BY <1>1, <1>3 DEF Group
      <4> QED BY <1>1, <1>3, <2>3, <3>1, <4>1
    <3>2. CASE l # k
      BY <1>3, <2>1, <3>2
    <3> QED BY <3>1, <3>2
  <2> QED BY <2>1, <2>3, <2>4
<1>5. y[k].requests = InsertAt(rest, at + 1, id)
  <2> HIDE DEF w, k, y, rest
  <2> QED BY <1>1, <1>3, <1>4 DEF Group
<1>6. IsIndex(y) /\ Len(y) = Len(x)
  <2>1. IsIndex(y)
    BY AssignedFacts
  <2> HIDE DEF y
  <2> QED BY <1>1, <1>4, <2>1, IndexFacts
<1>7. Place(y, c) = k
  <2>1. {l \in 1..Len(y) : y[l].id = c} = {l \in 1..Len(x) : x[l].id = c}
    <3> HIDE DEF y
    <3> QED BY <1>4, <1>6
  <2> HIDE DEF y
  <2> QED BY <2>1 DEF Place, SelectInSeq
<1> QED BY <1>2, <1>5, <1>7 DEF ListOf

LEMMA DropIsBeside ==
    ASSUME ShelfInv, data.collections = index,
           \A k \in DOMAIN index : IsInjective(index[k].requests),
           NEW id \in Id, NEW r \in Id, NEW c \in Range(Coll), NEW half \in {"before", "after"},
           Drop(id, c, r, half, Id)
    PROVE  Beside(ListOf(index', c), id, r, half)
<1> DEFINE own == ListOf(index, c)
           rest == Kept(own, Id \ {id})
           b == At(own, r)
           a == At(own, id)
           p == IF half = "before" THEN b - 1 ELSE b
           at == IF id \in Range(own) /\ a - 1 < p THEN p - 1 ELSE p
           new == InsertAt(rest, at + 1, id)
<1>1. IsIndex(index) /\ Known(index, c) /\ id # r
  BY DEF ShelfInv, Drop
<1>2. own \in Seq(Id) /\ IsInjective(own) /\ Len(own) \in Nat /\ DOMAIN own = 1..Len(own)
  <2>1. Place(index, c) \in 1..Len(index) /\ DOMAIN index = 1..Len(index)
    BY <1>1, PlaceFacts, IndexFacts DEF Known
  <2>2. own \in Seq(Id) /\ IsInjective(own)
    BY <1>1, <2>1, IndexFacts DEF ListOf
  <2> HIDE DEF own
  <2> QED BY <2>2
<1>3. Kept(own, Id) = own
  <2> DEFINE P == {k \in DOMAIN own : own[k] \in Id}
  <2>1. 1..Len(own) \subseteq P
    BY <1>2
  <2>2. Kept(own, Id) = Picked(own, P)
    BY DEF Kept
  <2> HIDE DEF P, own
  <2> QED BY <1>2, <2>1, <2>2, PickedIsAll
<1>4. DropIndex(id, c, p) = at
  BY DEF DropIndex, At
<1>5. b # 0 /\ Assign(id, c, at) /\ \A k \in DOMAIN own : ~(own[k] = id /\ k - 1 = at)
  BY <1>3, <1>4 DEF Drop, At
<1>6. index' = Assigned(index, id, c, at)
  BY <1>5 DEF Assign
<1>7. Only(own, r, b) /\ b \in 1..Len(own)
  <2> HIDE DEF own
  <2> QED BY <1>2, <1>5, AtFacts DEF Only
<1>8. id \in Range(own) => Only(own, id, a) /\ a \in 1..Len(own)
  <2> HIDE DEF own
  <2> QED BY <1>2, AtFacts DEF Only
<1>9. /\ rest \in Seq(Id) /\ id \notin Range(rest)
      /\ id \notin Range(own) => Len(rest) = Len(own) /\ Only(rest, r, b)
      /\ id \in Range(own) =>
            Len(rest) = Len(own) - 1 /\ Only(rest, r, IF a < b THEN b - 1 ELSE b)
  <2> HIDE DEF own, a, b
  <2> QED BY <1>1, <1>2, <1>7, <1>8, RestFacts
<1>10. id \in Range(own) => a # b /\ a - 1 # at
  <2> HIDE DEF a, b, at, own
  <2> QED BY <1>1, <1>2, <1>5, <1>7, <1>8 DEF Only
<1> DEFINE m == IF id \in Range(own) /\ a < b THEN b - 1 ELSE b
<1>11. /\ at \in Nat /\ at <= Len(rest) /\ Only(rest, r, m) /\ m \in Nat
       /\ half = "before" => at + 1 = m
       /\ half = "after" => at = m
  <2> HIDE DEF own, rest, a, b
  <2>1. CASE id \in Range(own)
    <3>1. /\ Only(rest, r, m) /\ Len(rest) = Len(own) - 1
          /\ a \in 1..Len(own) /\ b \in 1..Len(own) /\ a # b
      BY <1>7, <1>8, <1>9, <1>10, <2>1
    <3>2. CASE half = "before"
      BY <1>2, <2>1, <3>1, <3>2
    <3>3. CASE half = "after"
      BY <1>2, <2>1, <3>1, <3>3
    <3> QED BY <3>2, <3>3
  <2>2. CASE id \notin Range(own)
    <3>1. /\ Only(rest, r, m) /\ Len(rest) = Len(own) /\ b \in 1..Len(own) /\ m = b
      BY <1>7, <1>9, <2>2
    <3>2. at = p
      BY <2>2
    <3> QED BY <1>2, <3>1, <3>2
  <2> QED BY <2>1, <2>2
<1>12. ListOf(index', c) = new
  <2> HIDE DEF at
  <2> QED BY <1>1, <1>6, <1>11, AssignedList
<1>13. At(new, id) = at + 1 /\ At(new, r) = IF m < at + 1 THEN m ELSE m + 1
  <2>1. at + 1 \in 1..(Len(rest) + 1)
    <3> HIDE DEF at, rest, m
    <3>1. Len(rest) \in Nat
      BY <1>9
    <3> QED BY <1>11, <3>1
  <2> HIDE DEF at, rest, m
  <2> QED BY <1>1, <1>9, <1>11, <2>1, PutFacts
<1>14. /\ At(new, id) # 0 /\ At(new, r) # 0
       /\ half = "before" => At(new, id) + 1 = At(new, r)
       /\ half = "after" => At(new, r) + 1 = At(new, id)
  <2>1. m \in Nat /\ m > 0
    <3> HIDE DEF m, rest
    <3> QED BY <1>11 DEF Only
  <2> HIDE DEF at, m, new
  <2>2. CASE half = "before"
    BY <1>11, <1>13, <2>1, <2>2
  <2>3. CASE half = "after"
    BY <1>11, <1>13, <2>1, <2>3
  <2> QED BY <2>2, <2>3
<1> HIDE DEF new
<1> QED BY <1>12, <1>14 DEF Beside, At

(* On a screen that shows the whole grouping as it is, a request dropped   *)
(* on the half of a row lands right beside that row (dropTarget's index    *)
(* against assign's removal before insertion).                             *)
THEOREM LibraryDropLands == Spec => DropLands
<1> DEFINE Lands == index' # index /\ files' = files /\ data = Grouped(index, files)
                      /\ data.collections = index =>
             \A id, r \in Id, c \in Range(Coll), half \in {"before", "after"} :
                Drop(id, c, r, half, Id) => Beside(ListOf(index', c), id, r, half)
<1>1. LibraryInv => Lands
  <2>1. LibraryInv /\ data.collections = index =>
          ShelfInv /\ \A k \in DOMAIN index : IsInjective(index[k].requests)
    BY DEF LibraryInv, GivenInv
  <2> QED BY <2>1, DropIsBeside
<1>2. LibraryInv => [Lands]_vars
  BY <1>1
<1> QED BY LibraryInit, LibraryStep, <1>2, PTL DEF Spec, DropLands

---------------------------------------------------------------------------
(* The validator of schemas.  What is defined by recursion is what its     *)
(* equation says: a table that satisfies it is built from the schemas that *)
(* have none in them upwards.                                              *)

LEMMA SchemaFacts ==
    /\ MaxDepth \in Nat /\ MaxErrors \in Nat /\ MaxErrors > 0
    /\ Deepest \in Nat /\ Nesting \in [Schema -> 0..Deepest]
    /\ \A value \in Value : IsValue(value)
    /\ \A s \in Schema : IsSchema(s)
    /\ \A s \in Schema : \A sub \in Parts(s) : sub \in Schema /\ Nesting[sub] < Nesting[s]
    /\ \A s \in Schema : Subschemas(s) \subseteq Parts(s)
<1>1. /\ MaxDepth \in Nat /\ MaxErrors \in Nat /\ MaxErrors > 0
      /\ Deepest \in Nat /\ Nesting \in [Schema -> 0..Deepest]
      /\ \A value \in Value : IsValue(value)
      /\ \A s \in Schema : IsSchema(s)
  BY SchemaAssumption
<1>2. \A s \in Schema : \A sub \in Parts(s) : sub \in Schema /\ Nesting[sub] < Nesting[s]
  BY <1>1 DEF IsSchema
<1>3. \A s \in Schema : Subschemas(s) \subseteq Parts(s)
  BY DEF Parts
<1> QED BY <1>1, <1>2, <1>3

LEMMA CheckRule ==
    ASSUME NEW s \in Schema
    PROVE  Check[s] = CheckBy(s, [sub \in Subschemas(s) |-> Check[sub]])
<1> DEFINE By(f, x) == CheckBy(x, [sub \in Subschemas(x) |-> f[sub]])
           Good(n, f) == \A x \in Schema : Nesting[x] < n => f[x] = By(f, x)
           S == {n \in 0..(Deepest + 1) : \E f : Good(n, f)}
<1>1. 0 \in S
  <2>1. \A f : Good(0, f)
    BY SchemaFacts
  <2>2. 0 \in 0..(Deepest + 1)
    BY SchemaFacts
  <2> HIDE DEF Good
  <2> QED BY <2>1, <2>2
<1>2. ASSUME NEW n \in 0..(Deepest + 1), n > 0, n - 1 \in S PROVE n \in S
  <2>1. PICK f : Good(n - 1, f)
    BY <1>2
  <2> DEFINE g == [x \in Schema |-> By(f, x)]
  <2>2. ASSUME NEW x \in Schema, Nesting[x] < n PROVE g[x] = By(g, x)
    <3>1. \A sub \in Subschemas(x) : sub \in Schema /\ Nesting[sub] < n - 1
      <4>1. \A sub \in Subschemas(x) : sub \in Schema /\ Nesting[sub] < Nesting[x]
        BY SchemaFacts
      <4>2. Nesting \in [Schema -> 0..Deepest] /\ Deepest \in Nat
        BY SchemaFacts
      <4> QED BY <1>2, <2>2, <4>1, <4>2
    <3>2. \A sub \in Subschemas(x) : f[sub] = By(f, sub) /\ g[sub] = By(f, sub)
      <4> HIDE DEF By
      <4> QED BY <2>1, <3>1
    <3>3. [sub \in Subschemas(x) |-> f[sub]] = [sub \in Subschemas(x) |-> g[sub]]
      <4> HIDE DEF By, g
      <4> QED BY <3>2
    <3>4. By(g, x) = By(f, x)
      <4> HIDE DEF g
      <4> QED BY <3>3
    <3> HIDE DEF By
    <3> QED BY <3>4
  <2>3. Good(n, g)
    <3> HIDE DEF By, g
    <3> QED BY <2>2
  <2> HIDE DEF Good
  <2> QED BY <1>2, <2>3
<1>3. Deepest + 1 \in S
  <2>1. Deepest + 1 \in Nat
    BY SchemaFacts
  <2> HIDE DEF S
  <2>2. 0..(Deepest + 1) \subseteq S
    BY <1>1, <1>2, <2>1, Climb
  <2> QED BY <2>1, <2>2
<1>4. PICK f : \A x \in Schema : f[x] = By(f, x)
  <2>1. PICK f : Good(Deepest + 1, f)
    BY <1>3
  <2>2. \A x \in Schema : Nesting[x] < Deepest + 1
    BY SchemaFacts
  <2> HIDE DEF By
  <2> QED BY <2>1, <2>2
<1> DEFINE h == [x \in Schema |-> f[x]]
<1>5. h = [x \in Schema |-> By(h, x)]
  <2>1. \A x \in Schema : [sub \in Subschemas(x) |-> h[sub]] = [sub \in Subschemas(x) |-> f[sub]]
    BY SchemaFacts
  <2> HIDE DEF h
  <2>2. \A x \in Schema : By(h, x) = By(f, x)
    BY <2>1
  <2> HIDE DEF By
  <2> QED BY <1>4, <2>2 DEF h
<1>6. \E c : c = [x \in Schema |-> By(c, x)]
  <2> HIDE DEF h, By
  <2> QED BY <1>5
<1>7. Check = [x \in Schema |-> By(Check, x)]
  <2> DEFINE P(c) == c = [x \in Schema |-> By(c, x)]
  <2>1. Check = CHOOSE c : P(c)
    BY DEF Check
  <2>2. \E c : P(c)
    BY <1>6
  <2> HIDE DEF P
  <2>3. P(Check)
    BY <2>1, <2>2
  <2> QED BY <2>3 DEF P
<1> HIDE DEF By
<1>8. Check[s] = By(Check, s)
  BY <1>7
<1> QED BY <1>8 DEF By

(* What a schema means, from the meaning of those in it.                   *)
MeaningOf(schema, meant) == {value \in Value : Meets(value, schema, meant)}

LEMMA MeaningRule ==
    ASSUME NEW s \in Schema
    PROVE  Meaning[s] = MeaningOf(s, [sub \in Parts(s) |-> Meaning[sub]])
<1> DEFINE By(f, x) == MeaningOf(x, [sub \in Parts(x) |-> f[sub]])
           Good(n, f) == \A x \in Schema : Nesting[x] < n => f[x] = By(f, x)
           S == {n \in 0..(Deepest + 1) : \E f : Good(n, f)}
<1>1. 0 \in S
  <2>1. \A f : Good(0, f)
    BY SchemaFacts
  <2>2. 0 \in 0..(Deepest + 1)
    BY SchemaFacts
  <2> HIDE DEF Good
  <2> QED BY <2>1, <2>2
<1>2. ASSUME NEW n \in 0..(Deepest + 1), n > 0, n - 1 \in S PROVE n \in S
  <2>1. PICK f : Good(n - 1, f)
    BY <1>2
  <2> DEFINE g == [x \in Schema |-> By(f, x)]
  <2>2. ASSUME NEW x \in Schema, Nesting[x] < n PROVE g[x] = By(g, x)
    <3>1. \A sub \in Parts(x) : sub \in Schema /\ Nesting[sub] < n - 1
      <4>1. \A sub \in Parts(x) : sub \in Schema /\ Nesting[sub] < Nesting[x]
        BY SchemaFacts
      <4>2. Nesting \in [Schema -> 0..Deepest] /\ Deepest \in Nat
        BY SchemaFacts
      <4> QED BY <1>2, <2>2, <4>1, <4>2
    <3>2. \A sub \in Parts(x) : f[sub] = By(f, sub) /\ g[sub] = By(f, sub)
      <4> HIDE DEF By
      <4> QED BY <2>1, <3>1
    <3>3. [sub \in Parts(x) |-> f[sub]] = [sub \in Parts(x) |-> g[sub]]
      <4> HIDE DEF By, g
      <4> QED BY <3>2
    <3>4. By(g, x) = By(f, x)
      <4> HIDE DEF g
      <4> QED BY <3>3
    <3> HIDE DEF By
    <3> QED BY <3>4
  <2>3. Good(n, g)
    <3> HIDE DEF By, g
    <3> QED BY <2>2
  <2> HIDE DEF Good
  <2> QED BY <1>2, <2>3
<1>3. Deepest + 1 \in S
  <2>1. Deepest + 1 \in Nat
    BY SchemaFacts
  <2> HIDE DEF S
  <2>2. 0..(Deepest + 1) \subseteq S
    BY <1>1, <1>2, <2>1, Climb
  <2> QED BY <2>1, <2>2
<1>4. PICK f : \A x \in Schema : f[x] = By(f, x)
  <2>1. PICK f : Good(Deepest + 1, f)
    BY <1>3
  <2>2. \A x \in Schema : Nesting[x] < Deepest + 1
    BY SchemaFacts
  <2> HIDE DEF By
  <2> QED BY <2>1, <2>2
<1> DEFINE h == [x \in Schema |-> f[x]]
<1>5. h = [x \in Schema |-> By(h, x)]
  <2>1. \A x \in Schema : [sub \in Parts(x) |-> h[sub]] = [sub \in Parts(x) |-> f[sub]]
    BY SchemaFacts
  <2> HIDE DEF h
  <2>2. \A x \in Schema : By(h, x) = By(f, x)
    BY <2>1
  <2> HIDE DEF By
  <2> QED BY <1>4, <2>2 DEF h
<1>6. \E c : c = [x \in Schema |-> By(c, x)]
  <2> HIDE DEF h, By
  <2> QED BY <1>5
<1>7. Meaning = [x \in Schema |-> By(Meaning, x)]
  <2> DEFINE P(c) == c = [x \in Schema |-> By(c, x)]
  <2>1. Meaning = CHOOSE c : P(c)
    BY DEF Meaning, MeaningOf
  <2>2. \E c : P(c)
    BY <1>6
  <2> HIDE DEF P
  <2>3. P(Meaning)
    BY <2>1, <2>2
  <2> QED BY <2>3 DEF P
<1> HIDE DEF By
<1>8. Meaning[s] = By(Meaning, s)
  BY <1>7
<1> QED BY <1>8 DEF By

LEMMA SupportedRule ==
    ASSUME NEW d \in 0..(MaxDepth + 1), NEW s \in Supported[d]
    PROVE  /\ s \in Schema /\ DOMAIN s \subseteq Annotation \cup Enforced
           /\ d + 1 \in 0..(MaxDepth + 1) /\ Subschemas(s) \subseteq Supported[d + 1]
<1> DEFINE Fit(x, f, k) == /\ DOMAIN x \subseteq Annotation \cup Enforced
                           /\ Has(x, "type") => x.type # {} /\ x.type \subseteq TypeName
                           /\ Has(x, "enum") => x.enum # {}
                           /\ Subschemas(x) \subseteq f[k + 1]
           By(f, k) == IF k > MaxDepth THEN {} ELSE {x \in Schema : Fit(x, f, k)}
           Good(n, f) == \A k \in 0..(MaxDepth + 1) : k >= MaxDepth + 1 - n => f[k] = By(f, k)
           S == {n \in 0..(MaxDepth + 1) : \E f : Good(n, f)}
<1>0. MaxDepth \in Nat
  BY SchemaFacts
<1>1. 0 \in S
  <2> DEFINE f == [k \in 0..(MaxDepth + 1) |-> {}]
  <2>1. Good(0, f)
    <3> SUFFICES ASSUME NEW k \in 0..(MaxDepth + 1), k >= MaxDepth + 1 - 0 PROVE f[k] = By(f, k)
      OBVIOUS
    <3> HIDE DEF Fit
    <3>1. k > MaxDepth
      BY <1>0
    <3> QED BY <3>1
  <2> HIDE DEF Good, f
  <2> QED BY <1>0, <2>1
<1>2. ASSUME NEW n \in 0..(MaxDepth + 1), n > 0, n - 1 \in S PROVE n \in S
  <2>1. PICK f : Good(n - 1, f)
    BY <1>2
  <2> DEFINE g == [k \in 0..(MaxDepth + 1) |-> By(f, k)]
  <2>2. ASSUME NEW k \in 0..(MaxDepth + 1), k >= MaxDepth + 1 - n PROVE g[k] = By(g, k)
    <3>1. CASE k > MaxDepth
      <4> HIDE DEF Fit
      <4> QED BY <3>1
    <3>2. CASE k <= MaxDepth
      <4>1. k + 1 \in 0..(MaxDepth + 1) /\ k + 1 >= MaxDepth + 1 - (n - 1)
        BY <1>0, <1>2, <2>2, <3>2
      <4>2. f[k + 1] = By(f, k + 1) /\ g[k + 1] = By(f, k + 1)
        <5> HIDE DEF By
        <5> QED BY <2>1, <4>1
      <4>3. f[k + 1] = g[k + 1]
        BY <4>2
      <4> HIDE DEF g
      <4>4. \A x : Fit(x, f, k) <=> Fit(x, g, k)
        BY <4>3
      <4> HIDE DEF Fit
      <4>5. By(f, k) = By(g, k)
        BY <4>4
      <4> QED BY <4>5 DEF g
    <3> QED BY <1>0, <3>1, <3>2
  <2>3. Good(n, g)
    <3> HIDE DEF By, g
    <3> QED BY <2>2
  <2> HIDE DEF Good
  <2> QED BY <1>2, <2>3
<1>3. PICK f : Good(MaxDepth + 1, f)
  <2>1. MaxDepth + 1 \in Nat
    BY <1>0
  <2> HIDE DEF S
  <2>2. 0..(MaxDepth + 1) \subseteq S
    BY <1>1, <1>2, <2>1, Climb
  <2>3. MaxDepth + 1 \in S
    BY <2>1, <2>2
  <2> HIDE DEF Good
  <2> QED BY <2>3 DEF S
<1> DEFINE h == [k \in 0..(MaxDepth + 1) |-> f[k]]
<1>4. h = [k \in 0..(MaxDepth + 1) |-> By(h, k)]
  <2>1. ASSUME NEW k \in 0..(MaxDepth + 1) PROVE h[k] = By(h, k)
    <3>1. f[k] = By(f, k) /\ h[k] = f[k]
      <4> HIDE DEF By
      <4> QED BY <1>0, <1>3
    <3>2. CASE k > MaxDepth
      <4> HIDE DEF Fit, h
      <4> QED BY <3>1, <3>2
    <3>3. CASE k <= MaxDepth
      <4>1. h[k + 1] = f[k + 1]
        BY <1>0, <3>3
      <4> HIDE DEF h
      <4>2. \A x : Fit(x, f, k) <=> Fit(x, h, k)
        BY <4>1
      <4> HIDE DEF Fit
      <4> QED BY <3>1, <4>2
    <3> QED BY <1>0, <3>2, <3>3
  <2> HIDE DEF By
  <2> QED BY <2>1
<1>5. Supported = [k \in 0..(MaxDepth + 1) |-> By(Supported, k)]
  <2> DEFINE P(c) == c = [k \in 0..(MaxDepth + 1) |-> By(c, k)]
  <2>1. Supported = CHOOSE c : P(c)
    BY DEF Supported
  <2>2. \E c : P(c)
    <3> HIDE DEF h, By
    <3> QED BY <1>4
  <2> HIDE DEF P
  <2>3. P(Supported)
    BY <2>1, <2>2
  <2> QED BY <2>3 DEF P
<1>6. Supported[d] = By(Supported, d)
  <2> HIDE DEF By
  <2> QED BY <1>5
<1>7. d <= MaxDepth /\ s \in Schema /\ Fit(s, Supported, d)
  <2> HIDE DEF Fit
  <2> QED BY <1>0, <1>6
<1> QED BY <1>0, <1>7

---------------------------------------------------------------------------
(* Messages are never taken back.                                          *)

LEMMA PushAllFacts ==
    ASSUME NEW out \in Out, NEW n \in Nat
    PROVE  PushAll(out, n) \in Out /\ (Clean(PushAll(out, n)) <=> Clean(out) /\ n = 0)
<1> DEFINE room == MaxErrors - out.length
           kept == IF n <= room THEN n ELSE room
<1>1. /\ out.length \in 0..MaxErrors /\ out.dropped \in Nat /\ MaxErrors \in Nat
      /\ n \in Nat
  BY SchemaFacts DEF Out
<1>2. PushAll(out, n) = [length |-> out.length + kept, dropped |-> out.dropped + (n - kept)]
  BY DEF PushAll
<1>3. /\ kept \in Nat /\ n - kept \in Nat /\ out.length + kept \in 0..MaxErrors
      /\ (kept = 0 /\ n - kept = 0) <=> n = 0
  BY <1>1
<1>4. PushAll(out, n) \in Out
  <2> HIDE DEF kept
  <2> QED BY <1>1, <1>2, <1>3 DEF Out
<1>5. Clean(PushAll(out, n)) <=> out.length + kept = 0 /\ out.dropped + (n - kept) = 0
  <2> HIDE DEF kept
  <2> QED BY <1>2 DEF Clean
<1>6. out.length + kept = 0 /\ out.dropped + (n - kept) = 0
        <=> out.length = 0 /\ out.dropped = 0 /\ n = 0
  <2> HIDE DEF kept
  <2> QED BY <1>1, <1>3
<1> QED BY <1>4, <1>5, <1>6 DEF Clean

LEMMA PushFacts ==
    ASSUME NEW out \in Out, NEW found \in BOOLEAN
    PROVE  Push(out, found) \in Out /\ (Clean(Push(out, found)) <=> Clean(out) /\ ~found)
<1>1. CASE found
  BY <1>1, PushAllFacts DEF Push
<1>2. CASE ~found
  BY <1>2 DEF Push
<1> QED BY <1>1, <1>2

(* The table of the messages after each test.                              *)
After(tests, out, f) ==
    f = [k \in 0..Len(tests) |-> IF k = 0 THEN out ELSE tests[k][f[k - 1]]]

LEMMA AfterExists ==
    ASSUME NEW tests, Len(tests) \in Nat, NEW out PROVE \E f : After(tests, out, f)
<1> DEFINE Good(m, f) ==
      f = [k \in 0..m |-> IF k = 0 THEN out ELSE tests[k][f[k - 1]]]
    S == {m \in Nat : \E f : Good(m, f)}
<1>1. 0 \in S
  <2>1. Good(0, [k \in 0..0 |-> out])
    OBVIOUS
  <2> HIDE DEF Good
  <2> QED BY <2>1
<1>2. ASSUME NEW m \in 0..Len(tests), m > 0, m - 1 \in S PROVE m \in S
  <2>1. PICK f : Good(m - 1, f)
    BY <1>2
  <2> DEFINE g == [k \in 0..m |-> IF k = m THEN tests[m][f[m - 1]] ELSE f[k]]
  <2>2. m \in Nat /\ m - 1 \in Nat
    BY <1>2
  <2>3. \A k \in 0..(m - 1) : f[k] = IF k = 0 THEN out ELSE tests[k][f[k - 1]]
    BY <2>1
  <2>4. \A k \in 0..m : g[k] = IF k = 0 THEN out ELSE tests[k][g[k - 1]]
    BY <1>2, <2>2, <2>3
  <2>5. Good(m, g)
    BY <2>4
  <2> HIDE DEF Good
  <2> QED BY <2>2, <2>5
<1>3. Len(tests) \in S
  <2> HIDE DEF S
  <2>1. 0..Len(tests) \subseteq S
    BY <1>1, <1>2, Climb
  <2> QED BY <2>1
<1> QED BY <1>3 DEF After

LEMMA CheckAllSteps ==
    ASSUME NEW tests, Len(tests) \in Nat, NEW out
    PROVE  \E f : /\ CheckAll(tests, out) = f[Len(tests)] /\ f[0] = out
                  /\ \A k \in 1..Len(tests) : f[k] = tests[k][f[k - 1]]
<1> DEFINE f == CHOOSE f : After(tests, out, f)
<1>1. After(tests, out, f)
  BY AfterExists
<1>2. CheckAll(tests, out) = f[Len(tests)]
  BY DEF CheckAll, After
<1> HIDE DEF f
<1>3. \A k \in 0..Len(tests) : f[k] = IF k = 0 THEN out ELSE tests[k][f[k - 1]]
  BY <1>1 DEF After
<1>4. f[0] = out /\ \A k \in 1..Len(tests) : f[k] = tests[k][f[k - 1]]
  BY <1>3
<1> QED BY <1>2, <1>4

(* Tests that find nothing where they should, and something otherwise,     *)
(* find nothing together if each does.                                     *)
LEMMA CheckAllFacts ==
    ASSUME NEW tests, Len(tests) \in Nat, NEW out \in Out, NEW Fine,
           \A k \in 1..Len(tests) : \A o \in Out :
              tests[k][o] \in Out /\ (Clean(tests[k][o]) <=> Clean(o) /\ k \in Fine)
    PROVE  /\ CheckAll(tests, out) \in Out
           /\ Clean(CheckAll(tests, out)) <=> Clean(out) /\ 1..Len(tests) \subseteq Fine
<1>1. PICK f : /\ CheckAll(tests, out) = f[Len(tests)] /\ f[0] = out
               /\ \A k \in 1..Len(tests) : f[k] = tests[k][f[k - 1]]
  BY CheckAllSteps
<1> DEFINE Part(n) == f[n] \in Out /\ (Clean(f[n]) <=> Clean(out) /\ 1..n \subseteq Fine)
           S == {n \in 0..Len(tests) : Part(n)}
<1>2. 0 \in S
  <2>1. 1..0 = {} /\ 0 \in 0..Len(tests)
    OBVIOUS
  <2> QED BY <1>1, <2>1
<1>3. ASSUME NEW n \in 0..Len(tests), n > 0, n - 1 \in S PROVE n \in S
  <2>1. n \in 1..Len(tests) /\ f[n] = tests[n][f[n - 1]]
    BY <1>1, <1>3
  <2>2. Part(n - 1)
    <3> HIDE DEF Part
    <3> QED BY <1>3
  <2>3. 1..n = 1..(n - 1) \cup {n}
    BY <1>3
  <2>4. /\ tests[n][f[n - 1]] \in Out
        /\ Clean(tests[n][f[n - 1]]) <=> Clean(f[n - 1]) /\ n \in Fine
    BY <2>1, <2>2
  <2>5. Part(n)
    BY <2>1, <2>2, <2>3, <2>4
  <2> HIDE DEF Part
  <2> QED BY <2>5
<1>4. Part(Len(tests))
  <2> HIDE DEF S
  <2>1. 0..Len(tests) \subseteq S
    BY <1>2, <1>3, Climb
  <2>2. Len(tests) \in S
    BY <2>1
  <2> HIDE DEF Part
  <2> QED BY <2>2 DEF S
<1> QED BY <1>1, <1>4

---------------------------------------------------------------------------
(* The tests of a value against the keywords that speak of its type.  The  *)
(* tests of the nested schemas are right, as they are for each of them.    *)

Right(test, means) ==
    \A value \in Value, o \in Out :
       test[value][o] \in Out /\ (Clean(test[value][o]) <=> Clean(o) /\ value \in means)
Agree(s, check, meant) == \A sub \in Subschemas(s) : Right(check[sub], meant[sub])

LEMMA StringFacts ==
    ASSUME NEW v, v.length \in Nat, NEW s \in Schema, NEW out \in Out
    PROVE  /\ CheckString(v, s, out) \in Out
           /\ Clean(CheckString(v, s, out)) <=>
                 /\ Clean(out)
                 /\ Has(s, "minLength") => v.length >= s.minLength
                 /\ Has(s, "maxLength") => v.length <= s.maxLength
                 /\ Has(s, "pattern") => s.pattern \in v.matches
<1> DEFINE short == Has(s, "minLength") /\ v.length < s.minLength
           long == Has(s, "maxLength") /\ v.length > s.maxLength
           other == Has(s, "pattern") /\ s.pattern \notin v.matches
           one == Push(out, short)
           two == Push(one, long)
           three == Push(two, other)
<1>1. CheckString(v, s, out) = three
  BY DEF CheckString
<1>2. short \in BOOLEAN /\ long \in BOOLEAN /\ other \in BOOLEAN
  OBVIOUS
<1>3. three \in Out /\ (Clean(three) <=> Clean(out) /\ ~short /\ ~long /\ ~other)
  <2> HIDE DEF short, long, other
  <2>1. one \in Out /\ (Clean(one) <=> Clean(out) /\ ~short)
    BY <1>2, PushFacts
  <2> HIDE DEF one
  <2>2. two \in Out /\ (Clean(two) <=> Clean(one) /\ ~long)
    BY <1>2, <2>1, PushFacts
  <2> HIDE DEF two
  <2>3. three \in Out /\ (Clean(three) <=> Clean(two) /\ ~other)
    BY <1>2, <2>2, PushFacts
  <2> QED BY <2>1, <2>2, <2>3
<1>4. IsSchema(s)
  BY SchemaFacts
<1>5. ~short <=> (Has(s, "minLength") => v.length >= s.minLength)
  BY <1>4 DEF IsSchema
<1>6. ~long <=> (Has(s, "maxLength") => v.length <= s.maxLength)
  BY <1>4 DEF IsSchema
<1>7. ~other <=> (Has(s, "pattern") => s.pattern \in v.matches)
  OBVIOUS
<1> HIDE DEF short, long, other, three
<1> QED BY <1>1, <1>3, <1>5, <1>6, <1>7

LEMMA NumberFacts ==
    ASSUME NEW v \in Int, NEW s \in Schema, NEW out \in Out
    PROVE  /\ CheckNumber(v, s, out) \in Out
           /\ Clean(CheckNumber(v, s, out)) <=>
                 /\ Clean(out)
                 /\ Has(s, "minimum") => v >= s.minimum
                 /\ Has(s, "maximum") => v <= s.maximum
<1> DEFINE low == Has(s, "minimum") /\ v < s.minimum
           high == Has(s, "maximum") /\ v > s.maximum
           one == Push(out, low)
           two == Push(one, high)
<1>1. CheckNumber(v, s, out) = two
  BY DEF CheckNumber
<1>2. low \in BOOLEAN /\ high \in BOOLEAN
  OBVIOUS
<1>3. two \in Out /\ (Clean(two) <=> Clean(out) /\ ~low /\ ~high)
  <2> HIDE DEF low, high
  <2>1. one \in Out /\ (Clean(one) <=> Clean(out) /\ ~low)
    BY <1>2, PushFacts
  <2> HIDE DEF one
  <2>2. two \in Out /\ (Clean(two) <=> Clean(one) /\ ~high)
    BY <1>2, <2>1, PushFacts
  <2> QED BY <2>1, <2>2
<1>4. IsSchema(s)
  BY SchemaFacts
<1>5. ~low <=> (Has(s, "minimum") => v >= s.minimum)
  BY <1>4 DEF IsSchema
<1>6. ~high <=> (Has(s, "maximum") => v <= s.maximum)
  BY <1>4 DEF IsSchema
<1> HIDE DEF low, high, two
<1> QED BY <1>1, <1>3, <1>5, <1>6

LEMMA ArrayFacts ==
    ASSUME NEW v \in Seq(Value), NEW s \in Schema, NEW out \in Out, NEW check, NEW meant,
           Agree(s, check, meant)
    PROVE  /\ CheckArray(v, s, check, out) \in Out
           /\ Clean(CheckArray(v, s, check, out)) <=>
                 /\ Clean(out)
                 /\ Has(s, "minItems") => Len(v) >= s.minItems
                 /\ Has(s, "maxItems") => Len(v) <= s.maxItems
                 /\ Has(s, "items") => \A k \in 1..Len(v) : v[k] \in meant[s.items]
<1> DEFINE few == Has(s, "minItems") /\ Len(v) < s.minItems
           many == Has(s, "maxItems") /\ Len(v) > s.maxItems
           one == Push(out, few)
           sized == Push(one, many)
           tests == [k \in 1..Len(v) |-> check[s.items][v[k]]]
           Fine == {k \in 1..Len(v) : v[k] \in meant[s.items]}
<1>1. CheckArray(v, s, check, out) = IF Has(s, "items") THEN CheckAll(tests, sized) ELSE sized
  BY DEF CheckArray
<1>2. few \in BOOLEAN /\ many \in BOOLEAN /\ Len(v) \in Nat
  OBVIOUS
<1>3. sized \in Out /\ (Clean(sized) <=> Clean(out) /\ ~few /\ ~many)
  <2> HIDE DEF few, many
  <2>1. one \in Out /\ (Clean(one) <=> Clean(out) /\ ~few)
    BY <1>2, PushFacts
  <2> HIDE DEF one
  <2>2. sized \in Out /\ (Clean(sized) <=> Clean(one) /\ ~many)
    BY <1>2, <2>1, PushFacts
  <2> QED BY <2>1, <2>2
<1>4. IsSchema(s)
  BY SchemaFacts
<1>5. ~few <=> (Has(s, "minItems") => Len(v) >= s.minItems)
  BY <1>2, <1>4 DEF IsSchema
<1>6. ~many <=> (Has(s, "maxItems") => Len(v) <= s.maxItems)
  BY <1>2, <1>4 DEF IsSchema
<1>7. ASSUME Has(s, "items")
      PROVE  /\ CheckAll(tests, sized) \in Out
             /\ Clean(CheckAll(tests, sized)) <=>
                   Clean(sized) /\ \A k \in 1..Len(v) : v[k] \in meant[s.items]
  <2>1. s.items \in Subschemas(s)
    BY <1>7 DEF Subschemas
  <2>2. Right(check[s.items], meant[s.items])
    BY <2>1 DEF Agree
  <2>3. Len(tests) = Len(v) /\ Len(tests) \in Nat
    BY <1>2
  <2>4. ASSUME NEW k \in 1..Len(tests), NEW o \in Out
        PROVE  tests[k][o] \in Out /\ (Clean(tests[k][o]) <=> Clean(o) /\ k \in Fine)
    <3>1. k \in 1..Len(v) /\ v[k] \in Value /\ tests[k] = check[s.items][v[k]]
      BY <2>3
    <3>2. k \in Fine <=> v[k] \in meant[s.items]
      BY <3>1
    <3> HIDE DEF tests, Fine
    <3> QED BY <2>2, <3>1, <3>2 DEF Right
  <2>5. /\ CheckAll(tests, sized) \in Out
        /\ Clean(CheckAll(tests, sized)) <=> Clean(sized) /\ 1..Len(tests) \subseteq Fine
    <3> HIDE DEF tests, Fine, sized
    <3> QED BY <1>3, <2>3, <2>4, CheckAllFacts
  <2>6. 1..Len(v) \subseteq Fine <=> \A k \in 1..Len(v) : v[k] \in meant[s.items]
    OBVIOUS
  <2> HIDE DEF tests, Fine, sized
  <2> QED BY <2>3, <2>5, <2>6
<1> HIDE DEF few, many, sized, tests
<1>8. CASE Has(s, "items")
  BY <1>1, <1>3, <1>5, <1>6, <1>7, <1>8
<1>9. CASE ~Has(s, "items")
  BY <1>1, <1>3, <1>5, <1>6, <1>9
<1> QED BY <1>8, <1>9

LEMMA SetToSeqFacts ==
    ASSUME NEW S, IsFiniteSet(S)
    PROVE  /\ Len(SetToSeq(S)) \in Nat
           /\ \A k \in 1..Len(SetToSeq(S)) : SetToSeq(S)[k] \in S
           /\ \A x \in S : \E k \in 1..Len(SetToSeq(S)) : SetToSeq(S)[k] = x
<1> DEFINE n == Cardinality(S)
           f == SetToSeq(S)
<1>1. n \in Nat /\ ExistsBijection(1..n, S)
  BY FS_CardinalityType
<1>2. PICK g : g \in [1..n -> S] /\ IsInjective(g)
  <2> HIDE DEF n
  <2> QED BY <1>1 DEF ExistsBijection, Bijection, Injection
<1>3. f \in [1..n -> S] /\ IsInjective(f)
  <2> HIDE DEF n
  <2> QED BY <1>2 DEF SetToSeq, n
<1>4. f \in Injection(1..n, S)
  <2> HIDE DEF n, f
  <2> QED BY <1>3 DEF Injection
<1>5. Cardinality(1..n) = n /\ IsFiniteSet(1..n)
  <2> HIDE DEF n
  <2>1. 1 \in Int /\ n \in Int
    BY <1>1
  <2> QED BY <1>1, <2>1, FS_Interval
<1>6. f \in Surjection(1..n, S)
  <2> HIDE DEF f
  <2>1. Cardinality(1..n) = Cardinality(S)
    BY <1>5
  <2> HIDE DEF n
  <2> QED BY <1>4, <2>1, FS_Injection
<1>7. Len(f) = n
  <2> HIDE DEF n, f
  <2> QED BY <1>1, <1>3
<1> HIDE DEF n, f
<1>8. \A x \in S : \E k \in 1..n : f[k] = x
  BY <1>6 DEF Surjection
<1> QED BY <1>1, <1>3, <1>7, <1>8 DEF f

LEMMA ObjectFacts ==
    ASSUME NEW v, IsFiniteSet(DOMAIN v), \A name \in DOMAIN v : v[name] \in Value,
           NEW s \in Schema, NEW out \in Out, NEW check, NEW meant, Agree(s, check, meant)
    PROVE  /\ CheckObject(v, s, check, out) \in Out
           /\ Clean(CheckObject(v, s, check, out)) <=>
                 /\ Clean(out)
                 /\ Has(s, "required") => s.required \subseteq DOMAIN v
                 /\ Has(s, "properties") =>
                       \A name \in DOMAIN v \cap DOMAIN s.properties :
                          v[name] \in meant[s.properties[name]]
                 /\ Has(s, "additionalProperties") =>
                       s.additionalProperties \/ DOMAIN v \subseteq Named(s)
<1> DEFINE missing == IF Has(s, "required") THEN s.required \ DOMAIN v ELSE {}
           extra == IF Has(s, "additionalProperties") /\ ~s.additionalProperties
                    THEN DOMAIN v \ Named(s) ELSE {}
           both == Named(s) \cap DOMAIN v
           names == SetToSeq(both)
           tests == [k \in 1..Len(names) |-> check[s.properties[names[k]]][v[names[k]]]]
           one == PushAll(out, Cardinality(missing))
           inner == CheckAll(tests, one)
           Fine == {k \in 1..Len(names) : v[names[k]] \in meant[s.properties[names[k]]]}
<1>1. CheckObject(v, s, check, out) = PushAll(inner, Cardinality(extra))
  BY DEF CheckObject
<1>2. IsFiniteSet(missing) /\ IsFiniteSet(extra) /\ IsFiniteSet(both)
  <2>1. Has(s, "required") => IsFiniteSet(s.required)
    BY SchemaFacts DEF IsSchema
  <2>2. Has(s, "required") => IsFiniteSet(s.required \ DOMAIN v)
    <3>1. s.required \ DOMAIN v \in SUBSET s.required
      OBVIOUS
    <3> QED BY <2>1, <3>1, FS_Subset
  <2>3. IsFiniteSet(DOMAIN v \ Named(s)) /\ IsFiniteSet(both)
    <3>1. DOMAIN v \ Named(s) \in SUBSET DOMAIN v /\ both \in SUBSET DOMAIN v
      OBVIOUS
    <3> HIDE DEF both
    <3> QED BY <3>1, FS_Subset
  <2>4. IsFiniteSet({})
    BY FS_EmptySet
  <2> QED BY <2>2, <2>3, <2>4
<1>3. /\ Cardinality(missing) \in Nat /\ Cardinality(extra) \in Nat
      /\ (Cardinality(missing) = 0 <=> missing = {}) /\ (Cardinality(extra) = 0 <=> extra = {})
  <2> HIDE DEF missing, extra
  <2> QED BY <1>2, FS_CardinalityType, FS_EmptySet
<1>4. one \in Out /\ (Clean(one) <=> Clean(out) /\ missing = {})
  <2> HIDE DEF missing
  <2> QED BY <1>3, PushAllFacts
<1>5. /\ Len(names) \in Nat
      /\ \A k \in 1..Len(names) : names[k] \in both
      /\ \A x \in both : \E k \in 1..Len(names) : names[k] = x
  <2> HIDE DEF both
  <2> QED BY <1>2, SetToSeqFacts
<1>6. /\ inner \in Out
      /\ Clean(inner) <=> Clean(one) /\ 1..Len(names) \subseteq Fine
  <2> HIDE DEF names
  <2>1. Len(tests) = Len(names) /\ Len(tests) \in Nat
    BY <1>5
  <2>2. ASSUME NEW k \in 1..Len(tests), NEW o \in Out
        PROVE  tests[k][o] \in Out /\ (Clean(tests[k][o]) <=> Clean(o) /\ k \in Fine)
    <3> DEFINE sub == s.properties[names[k]]
               part == v[names[k]]
    <3>1. k \in 1..Len(names) /\ names[k] \in DOMAIN v /\ names[k] \in Named(s)
      BY <1>5, <2>1
    <3>2. part \in Value
      BY <3>1
    <3>3. sub \in Subschemas(s)
      BY <3>1 DEF Named, Subschemas
    <3>4. Right(check[sub], meant[sub])
      <4> HIDE DEF sub
      <4> QED BY <3>3 DEF Agree
    <3>5. tests[k] = check[sub][part] /\ (k \in Fine <=> part \in meant[sub])
      BY <3>1
    <3> HIDE DEF tests, Fine, sub, part
    <3> QED BY <3>2, <3>4, <3>5 DEF Right
  <2> HIDE DEF tests, Fine, one
  <2> QED BY <1>4, <2>1, <2>2, CheckAllFacts
<1>7. /\ PushAll(inner, Cardinality(extra)) \in Out
      /\ Clean(PushAll(inner, Cardinality(extra))) <=> Clean(inner) /\ extra = {}
  <2> HIDE DEF extra, inner
  <2> QED BY <1>3, <1>6, PushAllFacts
<1>8. missing = {} <=> (Has(s, "required") => s.required \subseteq DOMAIN v)
  OBVIOUS
<1>9. extra = {} <=> (Has(s, "additionalProperties") =>
                         s.additionalProperties \/ DOMAIN v \subseteq Named(s))
  OBVIOUS
<1>10. 1..Len(names) \subseteq Fine
         <=> (Has(s, "properties") =>
                \A name \in DOMAIN v \cap DOMAIN s.properties :
                   v[name] \in meant[s.properties[name]])
  <2>1. 1..Len(names) \subseteq Fine <=> \A name \in both : v[name] \in meant[s.properties[name]]
    <3> HIDE DEF names, both
    <3> QED BY <1>5
  <2>2. both = IF Has(s, "properties") THEN DOMAIN v \cap DOMAIN s.properties ELSE {}
    BY DEF Named
  <2> HIDE DEF names, both, Fine
  <2> QED BY <2>1, <2>2
<1> HIDE DEF missing, extra, inner, one, Fine
<1> QED BY <1>1, <1>4, <1>6, <1>7, <1>8, <1>9, <1>10

(* One step of the validator is right where no keyword is left unchecked,  *)
(* if it is for what is nested.                                            *)
LEMMA CheckOneFacts ==
    ASSUME NEW value \in Value, NEW s \in Schema, NEW check, NEW meant, NEW out \in Out,
           DOMAIN s \subseteq Annotation \cup Enforced, Agree(s, check, meant)
    PROVE  /\ CheckOne(value, s, check, out) \in Out
           /\ Clean(CheckOne(value, s, check, out)) <=> Clean(out) /\ Meets(value, s, meant)
<1> DEFINE v == value[2]
           typed == Has(s, "type") => \E name \in s.type : MatchesType(value, name)
           other == Has(s, "enum") /\ ~\E x \in s.enum : SameValue(x, value)
           differs == Has(s, "const") /\ ~SameValue(value, s.const)
           one == Push(out, other)
           listed == Push(one, differs)
<1>1. /\ IsValue(value) /\ MaxErrors \in Nat /\ MaxErrors > 0
      /\ out.length \in 0..MaxErrors /\ out.dropped \in Nat
  BY SchemaFacts DEF Out
<1>2. /\ ~Has(s, "additionalSchema") /\ ~Has(s, "anyOf") /\ ~Has(s, "not")
      /\ ~Has(s, "uniqueItems")
  BY DEF Has, Annotation, Enforced
<1>3. CASE out.length >= MaxErrors
  <2> DEFINE more == [out EXCEPT !.dropped = @ + 1]
  <2>1. CheckOne(value, s, check, out) = more
    BY <1>3 DEF CheckOne
  <2>2. more \in Out /\ ~Clean(more) /\ ~Clean(out)
    BY <1>1, <1>3 DEF Out, Clean
  <2> HIDE DEF more
  <2> QED BY <2>1, <2>2
<1>4. CASE ~(out.length >= MaxErrors) /\ ~typed
  <2>1. CheckOne(value, s, check, out) = Push(out, TRUE)
    BY <1>4 DEF CheckOne
  <2>2. Push(out, TRUE) \in Out /\ ~Clean(Push(out, TRUE))
    BY PushFacts
  <2>3. ~Meets(value, s, meant)
    BY <1>4 DEF Meets
  <2> QED BY <2>1, <2>2, <2>3
<1>5. CASE ~(out.length >= MaxErrors) /\ typed
  <2>1. CheckOne(value, s, check, out) =
           CASE value[1] = "string" -> CheckString(v, s, listed)
             [] value[1] = "number" -> CheckNumber(v, s, listed)
             [] value[1] = "array"  -> CheckArray(v, s, check, listed)
             [] value[1] = "object" -> CheckObject(v, s, check, listed)
             [] OTHER               -> listed
    BY <1>5 DEF CheckOne
  <2>2. other \in BOOLEAN /\ differs \in BOOLEAN
    OBVIOUS
  <2>3. listed \in Out /\ (Clean(listed) <=> Clean(out) /\ ~other /\ ~differs)
    <3> HIDE DEF other, differs
    <3>1. one \in Out /\ (Clean(one) <=> Clean(out) /\ ~other)
      BY <2>2, PushFacts
    <3> HIDE DEF one
    <3>2. listed \in Out /\ (Clean(listed) <=> Clean(one) /\ ~differs)
      BY <2>2, <3>1, PushFacts
    <3> QED BY <3>1, <3>2
  <2>4. ~other <=> (Has(s, "enum") => value \in s.enum)
    BY DEF SameValue
  <2>5. ~differs <=> (Has(s, "const") => value = s.const)
    BY DEF SameValue
  <2> HIDE DEF other, differs, listed
  <2>6. CASE value[1] = "string"
    <3>1. v.length \in Nat
      BY <1>1, <2>6 DEF IsValue
    <3>2. CheckOne(value, s, check, out) = CheckString(v, s, listed)
      BY <2>1, <2>6
    <3>3. Meets(value, s, meant) <=>
             /\ ~other /\ ~differs
             /\ Has(s, "minLength") => v.length >= s.minLength
             /\ Has(s, "maxLength") => v.length <= s.maxLength
             /\ Has(s, "pattern") => s.pattern \in v.matches
      BY <1>2, <1>5, <2>4, <2>5, <2>6 DEF Meets
    <3> HIDE DEF v
    <3> QED BY <2>3, <3>1, <3>2, <3>3, StringFacts
  <2>7. CASE value[1] = "number"
    <3>1. v \in Int
      BY <1>1, <2>7 DEF IsValue
    <3>2. CheckOne(value, s, check, out) = CheckNumber(v, s, listed)
      BY <2>1, <2>7
    <3>3. Meets(value, s, meant) <=>
             /\ ~other /\ ~differs
             /\ Has(s, "minimum") => v >= s.minimum
             /\ Has(s, "maximum") => v <= s.maximum
      BY <1>2, <1>5, <2>4, <2>5, <2>7 DEF Meets
    <3> HIDE DEF v
    <3> QED BY <2>3, <3>1, <3>2, <3>3, NumberFacts
  <2>8. CASE value[1] = "array"
    <3>1. v \in Seq(Value)
      BY <1>1, <2>8 DEF IsValue
    <3>2. CheckOne(value, s, check, out) = CheckArray(v, s, check, listed)
      BY <2>1, <2>8
    <3>3. Meets(value, s, meant) <=>
             /\ ~other /\ ~differs
             /\ Has(s, "minItems") => Len(v) >= s.minItems
             /\ Has(s, "maxItems") => Len(v) <= s.maxItems
             /\ Has(s, "items") => \A k \in 1..Len(v) : v[k] \in meant[s.items]
      BY <1>2, <1>5, <2>4, <2>5, <2>8 DEF Meets
    <3> HIDE DEF v
    <3> QED BY <2>3, <3>1, <3>2, <3>3, ArrayFacts
  <2>9. CASE value[1] = "object"
    <3>1. IsFiniteSet(DOMAIN v) /\ \A name \in DOMAIN v : v[name] \in Value
      BY <1>1, <2>9 DEF IsValue
    <3>2. CheckOne(value, s, check, out) = CheckObject(v, s, check, listed)
      BY <2>1, <2>9
    <3>3. Meets(value, s, meant) <=>
             /\ ~other /\ ~differs
             /\ Has(s, "required") => s.required \subseteq DOMAIN v
             /\ Has(s, "properties") =>
                   \A name \in DOMAIN v \cap DOMAIN s.properties :
                      v[name] \in meant[s.properties[name]]
             /\ Has(s, "additionalProperties") =>
                   s.additionalProperties \/ DOMAIN v \subseteq Named(s)
      BY <1>2, <1>5, <2>4, <2>5, <2>9 DEF Meets
    <3> HIDE DEF v
    <3> QED BY <2>3, <3>1, <3>2, <3>3, ObjectFacts
  <2>10. CASE value[1] \notin {"string", "number", "array", "object"}
    <3>1. CheckOne(value, s, check, out) = listed
      BY <2>1, <2>10
    <3>2. Meets(value, s, meant) <=> ~other /\ ~differs
      BY <1>2, <1>5, <2>4, <2>5, <2>10 DEF Meets
    <3> QED BY <2>3, <3>1, <3>2
  <2> QED BY <2>6, <2>7, <2>8, <2>9, <2>10
<1> QED BY <1>3, <1>4, <1>5

(* The validator is right about every schema that passes.                  *)
LEMMA SupportedRight ==
    ASSUME NEW d \in 0..(MaxDepth + 1), NEW s \in Supported[d]
    PROVE  s \in Schema /\ Right(Check[s], Meaning[s])
<1> DEFINE Done(n) == \A k \in 0..(MaxDepth + 1) : \A x \in Supported[k] :
                         Nesting[x] < n => Right(Check[x], Meaning[x])
           S == {n \in 0..(Deepest + 1) : Done(n)}
<1>1. \A k \in 0..(MaxDepth + 1) : \A x \in Supported[k] :
         x \in Schema /\ Nesting[x] \in 0..Deepest
  BY SupportedRule, SchemaFacts
<1>2. 0 \in S
  <2>1. Done(0)
    BY <1>1, SchemaFacts
  <2> HIDE DEF Done
  <2> QED BY <2>1, SchemaFacts
<1>3. ASSUME NEW n \in 0..(Deepest + 1), n > 0, n - 1 \in S PROVE n \in S
  <2>1. Done(n - 1)
    <3> HIDE DEF Done
    <3> QED BY <1>3
  <2>2. ASSUME NEW k \in 0..(MaxDepth + 1), NEW x \in Supported[k], Nesting[x] < n
        PROVE  Right(Check[x], Meaning[x])
    <3> DEFINE check == [sub \in Subschemas(x) |-> Check[sub]]
               meant == [sub \in Parts(x) |-> Meaning[sub]]
    <3>1. /\ x \in Schema /\ DOMAIN x \subseteq Annotation \cup Enforced
          /\ k + 1 \in 0..(MaxDepth + 1) /\ Subschemas(x) \subseteq Supported[k + 1]
      BY SupportedRule
    <3>2. Check[x] = CheckBy(x, check) /\ Meaning[x] = MeaningOf(x, meant)
      BY <3>1, CheckRule, MeaningRule
    <3>3. ASSUME NEW sub \in Subschemas(x) PROVE Right(check[sub], meant[sub])
      <4>1. sub \in Parts(x) /\ Nesting[sub] < n - 1
        <5>1. sub \in Parts(x) /\ Nesting[sub] < Nesting[x]
          BY <3>1, SchemaFacts
        <5>2. sub \in Schema /\ Nesting[sub] \in Int /\ Nesting[x] \in Int
          BY <3>1, <5>1, SchemaFacts
        <5> QED BY <1>3, <2>2, <5>1, <5>2
      <4>2. Right(Check[sub], Meaning[sub])
        BY <2>1, <3>1, <4>1
      <4>3. check[sub] = Check[sub] /\ meant[sub] = Meaning[sub]
        BY <4>1
      <4> HIDE DEF check, meant
      <4> QED BY <4>2, <4>3
    <3> HIDE DEF check, meant
    <3>4. Agree(x, check, meant)
      BY <3>3 DEF Agree
    <3>5. ASSUME NEW value \in Value, NEW o \in Out
          PROVE  /\ CheckBy(x, check)[value][o] \in Out
                 /\ Clean(CheckBy(x, check)[value][o]) <=> Clean(o) /\ value \in MeaningOf(x, meant)
      <4>1. CheckBy(x, check)[value][o] = CheckOne(value, x, check, o)
        BY DEF CheckBy
      <4>2. value \in MeaningOf(x, meant) <=> Meets(value, x, meant)
        BY DEF MeaningOf
      <4> QED BY <3>1, <3>4, <4>1, <4>2, CheckOneFacts
    <3> QED BY <3>2, <3>5 DEF Right
  <2> QED BY <2>2
<1>4. Done(Deepest + 1)
  <2>1. Deepest + 1 \in Nat
    BY SchemaFacts
  <2> HIDE DEF S
  <2>2. 0..(Deepest + 1) \subseteq S
    BY <1>2, <1>3, <2>1, Climb
  <2>3. Deepest + 1 \in S
    BY <2>1, <2>2
  <2> HIDE DEF Done
  <2> QED BY <2>3 DEF S
<1>5. s \in Schema /\ Nesting[s] < Deepest + 1
  BY <1>1, SchemaFacts
<1> QED BY <1>4, <1>5

(* What passes is checked as it is meant: for a schema that was let        *)
(* through, validate finds nothing exactly in the values that conform.     *)
THEOREM ValidateIsConforms ==
    \A s \in Schema, value \in Value :
       AssertSupported(s) => (Validate(value, s) <=> Conforms(value, s))
<1> SUFFICES ASSUME NEW s \in Schema, NEW value \in Value, s \in Supported[0]
             PROVE  Validate(value, s) <=> Conforms(value, s)
  BY DEF AssertSupported
<1> DEFINE none == [length |-> 0, dropped |-> 0]
<1>1. none \in Out /\ Clean(none)
  BY SchemaFacts DEF Out, Clean
<1>2. 0 \in 0..(MaxDepth + 1)
  BY SchemaFacts
<1>3. Right(Check[s], Meaning[s])
  BY <1>2, SupportedRight
<1> HIDE DEF none
<1>4. Clean(Check[s][value][none]) <=> value \in Meaning[s]
  BY <1>1, <1>3 DEF Right
<1> QED BY <1>4 DEF Validate, Conforms, none

---------------------------------------------------------------------------
(* What becomes of a request: some of its fields never change.             *)

Keys == {"route", "path", "headers", "body", "vars", "expect", "device"}
(* r has become q. *)
Keeps(r, q) ==
    /\ DOMAIN q = Keys /\ q.route = r.route /\ q.expect = r.expect /\ q.device = r.device

LEMMA RequestFacts ==
    ASSUME NEW r \in Requests
    PROVE  IsRequest(r) /\ DOMAIN r = Keys
BY ExchangeAssumption DEF IsRequest, Keys

LEMMA MergedKeeps ==
    ASSUME NEW r, DOMAIN r = Keys PROVE Keeps(r, Merged(r)) /\ Merged(r).vars = r.vars
<1>1. CASE r.route # "replay"
  BY <1>1, Zenon DEF Merged, Keeps
<1>2. CASE r.route = "replay"
  <2>1. PICK p, h, b : Merged(r) = [r EXCEPT !.path = p, !.headers = h, !.body = b]
    BY <1>2, Zenon DEF Merged
  <2> QED BY <2>1 DEF Keeps, Keys
<1> QED BY <1>1, <1>2

LEMMA WithVariablesKeeps ==
    ASSUME NEW r, DOMAIN r = Keys
    PROVE  /\ Keeps(r, WithVariables(r)) /\ WithVariables(r).path = r.path
           /\ WithVariables(r).headers = r.headers /\ WithVariables(r).body = r.body
BY DEF WithVariables, Keeps, Keys

LEMMA DefaultKeeps ==
    ASSUME NEW r, DOMAIN r = Keys
    PROVE  /\ Keeps(r, WithContentTypeDefault(r)) /\ WithContentTypeDefault(r).path = r.path
           /\ WithContentTypeDefault(r).vars = r.vars /\ WithContentTypeDefault(r).body = r.body
<1>1. CASE WithContentTypeDefault(r) = r
  BY <1>1 DEF Keeps
<1>2. CASE WithContentTypeDefault(r) # r
  <2>1. PICK h : WithContentTypeDefault(r) = [r EXCEPT !.headers = h]
    BY <1>2 DEF WithContentTypeDefault
  <2> QED BY <2>1 DEF Keeps, Keys
<1> QED BY <1>1, <1>2

(* The request that is checked, and what it is resolved to.                *)
Prepared(r) == WithContentTypeDefault(WithVariables(Merged(r)))
Resolved(r) == IF Templated(Prepared(r)) THEN ResolveFields(Prepared(r)) ELSE Prepared(r)
Sent(r) == [host |-> HostOf(Resolved(r).path), path |-> Resolved(r).path,
            fields |-> Fields(Resolved(r)), encoding |-> Encoded(Resolved(r)),
            body |-> Written(Resolved(r))]

(* What is sent has been checked, twice if it was a template.              *)
Served(r) ==
    /\ r.route = "saved" \/ FieldsOk(r)
    /\ ExpectOk(Prepared(r).expect) /\ VariablesOk(Prepared(r)) /\ Lacking(r) = 0
    /\ Templated(Prepared(r)) =>
          AllResolvable(Prepared(r)) /\ Resolved(r).path # <<>> /\ FieldsOk(Resolved(r))

LEMMA ServeCases ==
    ASSUME Serve
    PROVE  /\ wire = None /\ answer = None /\ UNCHANGED <<request, reply, taken, body, cut>>
           /\ \/ UNCHANGED wire /\ answer'.status # 200 /\ answer'.verdict = "none"
              \/ UNCHANGED answer /\ wire' = Sent(request) /\ Served(request)
<1> DEFINE r == Prepared(request)
           out == IF Templated(r) THEN ResolveFields(r) ELSE r
           first == /\ request.route = "saved" \/ FieldsOk(request)
                    /\ ExpectOk(r.expect) /\ VariablesOk(r)
           second == ~(Templated(r) /\ ~(AllResolvable(r) /\ out.path # <<>> /\ FieldsOk(out)))
           go == /\ wire' = [host |-> HostOf(out.path), path |-> out.path,
                             fields |-> Fields(out), encoding |-> Encoded(out),
                             body |-> Written(out)]
                 /\ UNCHANGED <<reply, taken, body, cut, answer>>
<1>1. wire = None /\ answer = None /\ UNCHANGED request
  BY DEF Serve
<1>2. IF ~first THEN Refuse(400) ELSE IF Lacking(request) # 0 THEN Refuse(Lacking(request))
      ELSE IF ~second THEN Refuse(400)
      ELSE (\E status \in {404, 503, 409} : Refuse(status)) \/ go
  BY Zenon DEF Serve, Prepared
<1>3. CASE go /\ first /\ second /\ Lacking(request) = 0
  BY <1>1, <1>3, Zenon DEF Sent, Resolved, Served
<1>4. CASE ~(go /\ first /\ second /\ Lacking(request) = 0)
  <2> HIDE DEF go, first, second
  <2>1. PICK status \in {400, 404, 503, 409, Lacking(request)} : status # 200 /\ Refuse(status)
    BY <1>2, <1>4 DEF Lacking
  <2> QED BY <1>1, <2>1 DEF Refuse
<1> QED BY <1>3, <1>4

LEMMA PreparedKeeps ==
    ASSUME NEW r, DOMAIN r = Keys
    PROVE  Keeps(r, Prepared(r))
<1>1. Keeps(r, Merged(r))
  BY MergedKeeps
<1>2. Keeps(Merged(r), WithVariables(Merged(r)))
  BY <1>1, WithVariablesKeeps DEF Keeps
<1>3. Keeps(WithVariables(Merged(r)), Prepared(r))
  BY <1>2, DefaultKeeps DEF Keeps, Prepared
<1> QED BY <1>1, <1>2, <1>3 DEF Keeps

---------------------------------------------------------------------------
(* The answer and its verdict.                                             *)

(* What is held of an answer is the part of it that has come, or nothing   *)
(* once that was too much; an answer to the caller is a failure, or what   *)
(* the expectation makes of the whole.                                     *)
Held ==
    IF ~Expecting THEN body = <<>> /\ ~cut
    ELSE IF cut THEN body = <<>> /\ taken > MaxBytes
    ELSE body = SubSeq(reply.text, 1, taken) /\ taken <= MaxBytes
Told ==
    \/ answer.status # 200 /\ answer.verdict = "none"
    \/ /\ reply # None /\ taken = Len(reply.text)
       /\ answer.status = 200
       /\ answer.verdict = IF ~Expecting THEN "none"
                           ELSE IF Passed(request.expect) THEN "passed" ELSE "failed"
AnswerInv ==
    /\ request \in Requests /\ taken \in Nat /\ cut \in BOOLEAN
    /\ wire # None => ExpectOk(request.expect)
    /\ reply = None => taken = 0 /\ body = <<>> /\ ~cut
    /\ reply # None => wire # None /\ reply \in Answers /\ taken <= Len(reply.text) /\ Held
    /\ answer # None => Told

LEMMA BoundsFacts ==
    /\ MaxBytes \in Nat /\ MaxChars \in Nat /\ MaxParse \in Nat
    /\ None # Unusable
BY ExchangeAssumption

LEMMA AnswersFacts ==
    ASSUME NEW a \in Answers
    PROVE  a # None /\ IsText(a.text) /\ Len(a.text) \in Nat
<1>1. a # None /\ IsText(a.text)
  BY ExchangeAssumption, Zenon
<1>2. a.text \in Seq(Range(a.text))
  BY <1>1 DEF IsText
<1> HIDE DEF IsText
<1>3. Len(a.text) \in Nat
  BY <1>2
<1> QED BY <1>1, <1>3

LEMMA AnswerInvInit == ExchangeInit => AnswerInv
<1> SUFFICES ASSUME ExchangeInit PROVE AnswerInv
  OBVIOUS
<1>1. taken = 0 /\ wire = None /\ reply = None /\ answer = None /\ body = <<>> /\ request \in Requests
  BY DEF ExchangeInit
<1>2. cut \in BOOLEAN /\ ~cut
  BY Zenon DEF ExchangeInit
<1> QED BY <1>1, <1>2 DEF AnswerInv

LEMMA AnswerInvNext == AnswerInv /\ [ExchangeNext]_exchangeVars => AnswerInv'
<1> SUFFICES ASSUME AnswerInv, [ExchangeNext]_exchangeVars PROVE AnswerInv'
  OBVIOUS
<1> USE DEF AnswerInv
<1>1. CASE Serve
  <2>1. wire = None /\ answer = None /\ reply = None /\ UNCHANGED <<request, reply, taken, body, cut>>
    BY <1>1, ServeCases
  <2>2. CASE UNCHANGED wire /\ answer'.status # 200 /\ answer'.verdict = "none"
    BY <2>1, <2>2 DEF Told
  <2>3. CASE UNCHANGED answer /\ Served(request)
    <3>1. ExpectOk(request.expect)
      BY <2>3, RequestFacts, PreparedKeeps DEF Keeps, Served
    <3> QED BY <2>1, <2>3, <3>1
  <2> QED BY <1>1, <2>2, <2>3, ServeCases
<1>2. CASE Respond
  <2>1. /\ reply' \in Answers /\ wire # None /\ reply = None /\ answer = None
        /\ UNCHANGED <<request, wire, taken, body, cut, answer>>
    BY <1>2 DEF Respond
  <2>2. reply' # None /\ IsText(reply'.text)
    BY <2>1, AnswersFacts
  <2>3. Len(reply'.text) \in Nat /\ SubSeq(reply'.text, 1, 0) = <<>>
    BY <2>2 DEF IsText
  <2>4. Held'
    BY <2>1, <2>3, BoundsFacts DEF Held, Expecting
  <2> QED BY <2>1, <2>2, <2>3, <2>4
<1>3. CASE Fail
  BY <1>3 DEF Fail, Told, Held, Expecting
<1>4. ASSUME NEW n \in 1..2, Data(n) PROVE AnswerInv'
  <2>1. /\ reply # None /\ answer = None /\ taken + n <= Len(reply.text) /\ taken' = taken + n
        /\ UNCHANGED <<request, wire, reply, answer>>
    BY <1>4 DEF Data
  <2>2. taken' \in Nat /\ cut' \in BOOLEAN
    <3>1. cut' \in BOOLEAN
      BY <1>4, Zenon DEF Data
    <3> QED BY <2>1, <3>1
  <2>3. /\ IsText(reply.text) /\ MaxBytes \in Nat /\ Len(reply.text) \in Nat
        /\ reply.text \in Seq(Range(reply.text))
    BY <2>1, AnswersFacts, BoundsFacts DEF IsText
  <2>4. Held
    BY <2>1
  <2>5. Held'
    <3>1. CASE ~Expecting \/ cut
      BY <1>4, <2>1, <2>3, <2>4, <3>1 DEF Data, Held, Expecting
    <3>2. CASE Expecting /\ ~cut
      <4>1. /\ body = SubSeq(reply.text, 1, taken) /\ taken <= MaxBytes
            /\ Len(body) = taken
        BY <2>1, <2>3, <2>4, <3>2 DEF Held
      <4>2. CASE Len(body) + n > MaxBytes
        BY <1>4, <2>1, <3>2, <4>1, <4>2 DEF Data, Held, Expecting
      <4>3. CASE ~(Len(body) + n > MaxBytes)
        <5>1. body' = body \o SubSeq(reply.text, taken + 1, taken + n) /\ UNCHANGED cut
          BY <1>4, <3>2, <4>3 DEF Data
        <5>2. SubSeq(reply.text, 1, taken) \o SubSeq(reply.text, taken + 1, taken + n)
                 = SubSeq(reply.text, 1, taken + n)
          BY <2>1, <2>3
        <5>3. body' = SubSeq(reply.text, 1, taken + n) /\ taken + n <= MaxBytes
          BY <2>1, <2>3, <4>1, <4>3, <5>1, <5>2
        <5>4. ~cut' /\ Expecting'
          BY <2>1, <3>2, <5>1 DEF Expecting
        <5> QED BY <2>1, <5>3, <5>4 DEF Held
      <4> QED BY <4>2, <4>3
    <3> QED BY <3>1, <3>2
  <2> QED BY <2>1, <2>2, <2>5
<1>5. CASE ReplyEnd
  <2>1. /\ reply # None /\ answer = None /\ taken = Len(reply.text)
        /\ UNCHANGED <<request, wire, reply, taken, body, cut>>
        /\ answer'.status = 200
        /\ answer'.verdict = IF ~Expecting THEN "none"
                             ELSE IF Passed(request.expect) THEN "passed" ELSE "failed"
    BY <1>5 DEF ReplyEnd
  <2>2. Held' /\ (Passed(request.expect)' <=> Passed(request.expect)) /\ (Expecting' <=> Expecting)
    BY <2>1 DEF Held, Expecting, Passed
  <2> QED BY <2>1, <2>2 DEF Told
<1>6. CASE UNCHANGED exchangeVars
  BY <1>6 DEF exchangeVars, Told, Held, Expecting, Passed
<1> QED BY <1>1, <1>2, <1>3, <1>4, <1>5, <1>6 DEF ExchangeNext

LEMMA ExpectFacts ==
    ASSUME NEW r \in Requests, "schema" \in DOMAIN r.expect
    PROVE  r.expect.schema \in Schema
BY ExchangeAssumption, Zenon DEF IsRequest

LEMMA ParseFacts ==
    ASSUME NEW text \in DOMAIN Parse
    PROVE  text # <<>> /\ Parse[text] \in Value
BY ExchangeAssumption, Zenon

(* What a request expects of its whole answer.                             *)
Met ==
    LET e == request.expect
        whole == Len(reply.text) <= MaxBytes /\ reply.text \in DOMAIN Parse
    IN  /\ "status" \in DOMAIN e => reply.status = e.status
        /\ "schema" \in DOMAIN e => whole /\ Conforms(Parse[reply.text], e.schema)

(* At the end of an answer the check says what the expectation means.      *)
LEMMA PassedIsMet ==
    ASSUME AnswerInv, reply # None, taken = Len(reply.text), Expecting
    PROVE  Passed(request.expect) <=> Met
<1> DEFINE e == request.expect
           text == reply.text
<1>1. /\ reply \in Answers /\ request \in Requests /\ ExpectOk(e)
      /\ IF cut THEN body = <<>> /\ taken > MaxBytes
         ELSE body = SubSeq(text, 1, taken) /\ taken <= MaxBytes
  BY Zenon DEF AnswerInv, Held
<1>2. Len(text) \in Nat /\ MaxBytes \in Nat /\ text \in Seq(Range(text))
  BY <1>1, AnswersFacts, BoundsFacts DEF IsText
<1>3. SubSeq(text, 1, Len(text)) = text
  <2> HIDE DEF text
  <2> QED BY <1>2
<1>4. CASE "schema" \notin DOMAIN e
  BY <1>4, Zenon DEF Passed, Met
<1>5. CASE "schema" \in DOMAIN e
  <2>1. e.schema \in Schema /\ AssertSupported(e.schema)
    BY <1>1, <1>5, ExpectFacts, Zenon DEF ExpectOk
  <2>2. CASE cut
    <3>1. ~Passed(e)
      BY <1>5, <2>2, Zenon DEF Passed
    <3>2. ~(Len(text) <= MaxBytes)
      <4>1. taken > MaxBytes /\ taken = Len(text)
        BY <1>1, <2>2, Zenon
      <4> HIDE DEF text
      <4> QED BY <1>2, <4>1
    <3>3. ~Met
      BY <1>5, <3>2, Zenon DEF Met
    <3> QED BY <3>1, <3>3
  <2>3. CASE ~cut
    <3>1. body = text /\ Len(text) <= MaxBytes
      BY <1>1, <1>3, <2>3
    <3>2. text \in DOMAIN Parse =>
             text # <<>> /\ (Validate(Parse[text], e.schema) <=> Conforms(Parse[text], e.schema))
      BY <2>1, ParseFacts, ValidateIsConforms, Zenon
    <3> QED BY <1>5, <2>3, <3>1, <3>2, Zenon DEF Passed, Met
  <2> QED BY <2>2, <2>3
<1> QED BY <1>4, <1>5

LEMMA GreenFacts ==
    ASSUME NEW a
    PROVE  /\ Green(a) => a.status = 200 /\ a.verdict # "failed"
           /\ Asserted(a) => a.status = 200 /\ a.verdict = "passed"
<1>1. /\ CliRunOne(a) = "passed" => a.status = 200 /\ a.verdict = "passed"
      /\ ScreenOk(a) \/ Announce(a) = "success" => a.status = 200 /\ a.verdict # "failed"
  BY DEF CliRunOne, ScreenOk, Announce
<1>2. /\ AssertPasses(a, TRUE) => a.status = 200 /\ a.verdict = "passed"
      /\ AssertPasses(a, FALSE) => a.status = 200 /\ a.verdict # "failed"
  BY DEF AssertPasses, Run
<1>3. /\ AssertCollectionPasses(a, TRUE) => a.status = 200 /\ a.verdict = "passed"
      /\ AssertCollectionPasses(a, FALSE) => a.status = 200 /\ a.verdict # "failed"
  BY DEF AssertCollectionPasses, Row, Run
<1>4. Asserted(a) => a.status = 200 /\ a.verdict = "passed"
  BY <1>1, <1>2, <1>3 DEF Asserted
<1> QED BY <1>1, <1>2, <1>3, <1>4 DEF Green

LEMMA ToldIsTrue == AnswerInv => VerdictIsTrue
<1> SUFFICES ASSUME AnswerInv, answer # None PROVE VerdictIsTrue
  BY DEF VerdictIsTrue
<1>1. VerdictIsTrue <=>
        /\ answer.verdict = "failed" => reply # None /\ ~Met
        /\ Green(answer) => reply # None /\ taken = Len(reply.text) /\ Met
        /\ Asserted(answer) => Expecting
  BY Zenon DEF VerdictIsTrue, Met
<1>2. CASE answer.status # 200 /\ answer.verdict = "none"
  BY <1>1, <1>2, GreenFacts
<1>3. CASE /\ reply # None /\ taken = Len(reply.text) /\ answer.status = 200
           /\ answer.verdict = IF ~Expecting THEN "none"
                               ELSE IF Passed(request.expect) THEN "passed" ELSE "failed"
  <2>1. Expecting => (Passed(request.expect) <=> Met)
    BY <1>3, PassedIsMet
  <2>2. ~Expecting => Met
    BY Zenon DEF Expecting, Met
  <2> HIDE DEF Met
  <2> QED BY <1>1, <1>3, <2>1, <2>2, GreenFacts
<1> QED BY <1>2, <1>3 DEF AnswerInv, Told

(* What is held of an answer, and how much of it has come, are always what *)
(* they are declared to be (the pieces collected by sendViaProxy).         *)
THEOREM ExchangeTypes == ExchangeSpec => []ExchangeTypeOK
<1>1. AnswerInv => ExchangeTypeOK
  <2> SUFFICES ASSUME AnswerInv PROVE ExchangeTypeOK
    OBVIOUS
  <2>1. /\ request \in Requests /\ taken \in Nat /\ cut \in BOOLEAN
        /\ body = <<>> \/ (reply \in Answers /\ taken <= Len(reply.text) /\ taken <= MaxBytes
                             /\ body = SubSeq(reply.text, 1, taken))
    BY Zenon DEF AnswerInv, Held
  <2>2. Len(body) <= MaxBytes
    <3>1. CASE body = <<>>
      BY <3>1, BoundsFacts
    <3>2. CASE body # <<>>
      <4>1. reply.text \in Seq(Range(reply.text)) /\ Len(reply.text) \in Nat
        BY <2>1, <3>2, AnswersFacts DEF IsText
      <4> QED BY <2>1, <3>2, <4>1, BoundsFacts
    <3> QED BY <3>1, <3>2
  <2> QED BY <2>1, <2>2 DEF ExchangeTypeOK
<1> QED BY <1>1, AnswerInvInit, AnswerInvNext, PTL DEF ExchangeSpec

(* Green means that the whole answer is what was expected and red that it  *)
(* is not, for every caller of the three routes (checkExpectation, and     *)
(* what is told of its result), whatever the schema and the pieces are.    *)
THEOREM VerdictHolds == ExchangeSpec => []VerdictIsTrue
BY AnswerInvInit, AnswerInvNext, ToldIsTrue, PTL DEF ExchangeSpec

---------------------------------------------------------------------------
(* Texts and headers.                                                      *)

(* The table of the sequences flattened so far.                            *)
Flattened(seqs, f) ==
    f = [i \in 1..Len(seqs) |-> IF i = 1 THEN seqs[i] ELSE f[i - 1] \o seqs[i]]

LEMMA FlattenedExists ==
    ASSUME NEW seqs, Len(seqs) \in Nat PROVE \E f : Flattened(seqs, f)
<1> DEFINE Good(m, f) == f = [i \in 1..m |-> IF i = 1 THEN seqs[i] ELSE f[i - 1] \o seqs[i]]
           S == {m \in Nat : \E f : Good(m, f)}
<1>1. 0 \in S
  <2>1. Good(0, [i \in 1..0 |-> 0])
    OBVIOUS
  <2> HIDE DEF Good
  <2> QED BY <2>1
<1>2. ASSUME NEW m \in 0..Len(seqs), m > 0, m - 1 \in S PROVE m \in S
  <2>1. PICK f : Good(m - 1, f)
    BY <1>2
  <2> DEFINE last == IF m = 1 THEN seqs[m] ELSE f[m - 1] \o seqs[m]
             g == [i \in 1..m |-> IF i = m THEN last ELSE f[i]]
  <2>2. m \in Nat /\ m - 1 \in Nat
    BY <1>2
  <2>3. \A i \in 1..(m - 1) : f[i] = IF i = 1 THEN seqs[i] ELSE f[i - 1] \o seqs[i]
    BY <2>1
  <2>4. \A i \in 1..m : g[i] = IF i = 1 THEN seqs[i] ELSE g[i - 1] \o seqs[i]
    BY <1>2, <2>2, <2>3
  <2>5. Good(m, g)
    BY <2>4
  <2> HIDE DEF Good
  <2> QED BY <2>2, <2>5
<1>3. Len(seqs) \in S
  <2> HIDE DEF S
  <2>1. 0..Len(seqs) \subseteq S
    BY <1>1, <1>2, Climb
  <2> QED BY <2>1
<1> QED BY <1>3 DEF Flattened

(* A sequence of texts in T is flattened to one; a single one is itself.   *)
LEMMA FlattenFacts ==
    ASSUME NEW T, NEW seqs \in Seq(Seq(T))
    PROVE  FlattenSeq(seqs) \in Seq(T) /\ (Len(seqs) = 1 => FlattenSeq(seqs) = seqs[1])
<1>1. CASE Len(seqs) = 0
  <2>1. seqs = <<>> /\ FlattenSeq(seqs) = <<>>
    BY <1>1 DEF FlattenSeq
  <2>2. <<>> \in Seq(T)
    OBVIOUS
  <2>3. FlattenSeq(seqs) \in Seq(T)
    BY <2>1, <2>2
  <2> QED BY <1>1, <2>3
<1>2. CASE Len(seqs) # 0
  <2> DEFINE f == CHOOSE f : Flattened(seqs, f)
  <2>1. Len(seqs) \in Nat \ {0} /\ \A i \in 1..Len(seqs) : seqs[i] \in Seq(T)
    BY <1>2
  <2>2. Flattened(seqs, f)
    BY <2>1, FlattenedExists
  <2>3. FlattenSeq(seqs) = f[Len(seqs)]
    BY <1>2 DEF FlattenSeq, Flattened
  <2> HIDE DEF f
  <2>4. \A i \in 1..Len(seqs) : f[i] = IF i = 1 THEN seqs[i] ELSE f[i - 1] \o seqs[i]
    BY <2>2 DEF Flattened
  <2> DEFINE S == {0} \cup {i \in 1..Len(seqs) : f[i] \in Seq(T)}
  <2>5. ASSUME NEW n \in 0..Len(seqs), n > 0, n - 1 \in S PROVE n \in S
    <3>1. n \in 1..Len(seqs) /\ seqs[n] \in Seq(T)
      BY <2>1, <2>5
    <3>2. CASE n = 1
      BY <2>4, <3>1, <3>2
    <3>3. CASE n # 1
      <4>1. n - 1 # 0 /\ n \in Nat
        BY <3>1, <3>3
      <4>2. f[n - 1] \in Seq(T)
        BY <2>5, <4>1
      <4>3. f[n] = f[n - 1] \o seqs[n]
        BY <2>4, <3>1, <3>3
      <4> HIDE DEF S
      <4>4. f[n] \in Seq(T)
        BY <3>1, <4>2, <4>3
      <4> QED BY <3>1, <4>4 DEF S
    <3> QED BY <3>2, <3>3
  <2>6. 0..Len(seqs) \subseteq S
    <3>1. 0 \in S
      OBVIOUS
    <3> HIDE DEF S
    <3> QED BY <2>1, <2>5, <3>1, Climb
  <2>7. f[Len(seqs)] \in Seq(T)
    BY <2>1, <2>6
  <2> QED BY <2>1, <2>3, <2>4, <2>7
<1> QED BY <1>1, <1>2

LEMMA MaxFacts ==
    ASSUME NEW n \in Nat, NEW S, S \subseteq 1..n, S # {}
    PROVE  Max(S) \in S /\ \A y \in S : y <= Max(S)
<1> DEFINE T == {n - i : i \in S}
<1>1. T \subseteq Nat /\ T # {}
  <2>1. \A i \in S : i \in 1..n /\ n - i \in Nat
    OBVIOUS
  <2> QED BY <2>1
<1>2. PICK t \in T : \A u \in T : t <= u
  <2> HIDE DEF T
  <2> QED BY <1>1, HasLeast
<1>3. n - t \in S /\ \A y \in S : y <= n - t
  BY <1>2
<1>4. \E x \in S : \A y \in S : x >= y
  BY <1>3
<1> QED BY <1>4 DEF Max

(* The first header of a name as it is spelled, or 0.                      *)
Edit(headers, low) == SelectInSeq(headers, LAMBDA h : h.name = low)
LEMMA EditFacts ==
    ASSUME NEW headers, Len(headers) \in Nat, NEW low
    PROVE  \/ Edit(headers, low) = 0
           \/ Edit(headers, low) \in 1..Len(headers) /\ headers[Edit(headers, low)].name = low
<1> DEFINE I == {i \in 1..Len(headers) : headers[i].name = low}
<1>1. Edit(headers, low) = IF I # {} THEN Min(I) ELSE 0
  BY DEF Edit, SelectInSeq
<1>2. I \in SUBSET (1..Len(headers))
  OBVIOUS
<1>3. I # {} => Min(I) \in I
  <2> HIDE DEF I
  <2> QED BY <1>2, LeastFacts
<1> QED BY <1>1, <1>3

(* The last header of a name that there is, in any spelling.               *)
LEMMA LastFacts ==
    ASSUME NEW r, Len(r.headers) \in Nat, DOMAIN r.headers = 1..Len(r.headers),
           NEW low \in Folded(r)
    PROVE  \E k \in DOMAIN r.headers :
              /\ LastOf(r, low) = r.headers[k] /\ Lower[r.headers[k].name] = low
              /\ \A j \in DOMAIN r.headers : Lower[r.headers[j].name] = low => j <= k
<1> DEFINE I == {i \in 1..Len(r.headers) : Lower[r.headers[i].name] = low}
<1>1. LastOf(r, low) = r.headers[IF I # {} THEN Max(I) ELSE 0]
  BY DEF LastOf, SelectLastInSeq
<1>2. I \subseteq 1..Len(r.headers) /\ I # {}
  BY DEF Folded
<1>3. Max(I) \in I /\ \A y \in I : y <= Max(I)
  <2> HIDE DEF I
  <2> QED BY <1>2, MaxFacts
<1> QED BY <1>1, <1>2, <1>3

LEMMA LowerFacts ==
    /\ \A name \in HeaderName : Lower[name] \in HeaderName /\ Lower[Lower[name]] = Lower[name]
    /\ \A name \in {"host", "accept-encoding", "content-length", "content-type", "composed",
                    "replayed"} : name \in HeaderName /\ Lower[name] = name
<1>1. Lower \in [HeaderName -> HeaderName]
  BY ExchangeAssumption, Zenon
<1>2. /\ \A name \in HeaderName : Lower[Lower[name]] = Lower[name]
      /\ \A name \in {"host", "accept-encoding", "content-length", "content-type", "composed",
                      "replayed"} : name \in HeaderName /\ Lower[name] = name
  BY ExchangeAssumption, Zenon
<1> QED BY <1>1, <1>2

(* A header, and a sequence of n of them, by its parts.                    *)
IsHeader(h) == DOMAIN h = {"name", "value"} /\ h.name \in HeaderName /\ IsText(h.value)
LEMMA HeadersFacts ==
    ASSUME NEW hs
    PROVE  AreHeaders(hs) <=> /\ Len(hs) \in Nat /\ hs = [k \in 1..Len(hs) |-> hs[k]]
                              /\ \A k \in 1..Len(hs) : IsHeader(hs[k])
<1>1. ASSUME AreHeaders(hs)
      PROVE  /\ Len(hs) \in Nat /\ hs = [k \in 1..Len(hs) |-> hs[k]]
             /\ \A k \in 1..Len(hs) : IsHeader(hs[k])
  <2>1. hs \in Seq(Range(hs)) /\ \A h \in Range(hs) : IsHeader(h)
    BY <1>1 DEF AreHeaders, IsHeader
  <2>2. Len(hs) \in Nat /\ DOMAIN hs = 1..Len(hs) /\ hs = [k \in 1..Len(hs) |-> hs[k]]
    BY <2>1
  <2>3. \A k \in 1..Len(hs) : hs[k] \in Range(hs)
    BY <2>2 DEF Range
  <2> QED BY <2>1, <2>2, <2>3
<1>2. ASSUME Len(hs) \in Nat, hs = [k \in 1..Len(hs) |-> hs[k]],
             \A k \in 1..Len(hs) : IsHeader(hs[k])
      PROVE  AreHeaders(hs)
  <2>1. DOMAIN hs = 1..Len(hs)
    BY <1>2
  <2>2. Range(hs) = {hs[k] : k \in 1..Len(hs)}
    BY <2>1 DEF Range
  <2>3. hs \in Seq(Range(hs))
    BY <1>2, <2>2
  <2> QED BY <1>2, <2>2, <2>3 DEF AreHeaders, IsHeader
<1> QED BY <1>1, <1>2

LEMMA TextFacts ==
    ASSUME NEW text
    PROVE  IsText(text) <=> Len(text) \in Nat /\ text = [k \in 1..Len(text) |-> text[k]]
<1>1. ASSUME IsText(text) PROVE Len(text) \in Nat /\ text = [k \in 1..Len(text) |-> text[k]]
  <2>1. text \in Seq(Range(text))
    BY <1>1 DEF IsText
  <2> QED BY <2>1
<1>2. ASSUME Len(text) \in Nat, text = [k \in 1..Len(text) |-> text[k]] PROVE IsText(text)
  <2>1. DOMAIN text = 1..Len(text)
    BY <1>2
  <2>2. Range(text) = {text[k] : k \in 1..Len(text)}
    BY <2>1 DEF Range
  <2>3. text \in Seq(Range(text))
    BY <1>2, <2>2
  <2> QED BY <2>3 DEF IsText
<1> QED BY <1>1, <1>2

LEMMA RangeFacts ==
    ASSUME NEW T, NEW text \in Seq(T) PROVE IsText(text) /\ Range(text) \subseteq T
<1>1. DOMAIN text = 1..Len(text) /\ Len(text) \in Nat /\ \A k \in 1..Len(text) : text[k] \in T
  OBVIOUS
<1>2. Range(text) = {text[k] : k \in 1..Len(text)}
  BY <1>1 DEF Range
<1>3. text \in Seq(Range(text))
  BY <1>1, <1>2
<1> QED BY <1>1, <1>2, <1>3 DEF IsText

LEMMA FieldFacts ==
    ASSUME NEW r, IsRequest(r)
    PROVE  /\ DOMAIN r = Keys /\ r.route \in {"send", "saved", "replay"}
           /\ IsText(r.path) /\ AreHeaders(r.headers)
           /\ DOMAIN r.body = {"kind", "text"} /\ IsText(r.body.text)
           /\ r.body.kind \in {"none", "string", "document", "absent"}
           /\ r.route # "replay" => r.body.kind # "absent"
           /\ IsDevice(r.device)
<1>1. r.body.kind \in {"none", "string", "document"}
         \cup (IF r.route = "replay" THEN {"absent"} ELSE {})
  BY Zenon DEF IsRequest
<1>2. /\ DOMAIN r = Keys /\ r.route \in {"send", "saved", "replay"}
      /\ IsText(r.path) /\ AreHeaders(r.headers)
      /\ DOMAIN r.body = {"kind", "text"} /\ IsText(r.body.text)
      /\ IsDevice(r.device)
  BY Zenon DEF IsRequest, Keys
<1> QED BY <1>1, <1>2

LEMMA DeviceFacts ==
    ASSUME NEW d, IsDevice(d)
    PROVE  /\ IsText(d.path) /\ OneLine(d.path) /\ IsText(d.sent.text)
           /\ AreHeaders(d.headers) /\ \A h \in Range(d.headers) : OneLine(h.value)
           /\ d.sent.type \in {"json", "form", "text"} =>
                 \E k \in DOMAIN d.headers :
                    /\ Lower[d.headers[k].name] = "content-type"
                    /\ d.headers[k].value = <<d.sent.type>>
                    /\ \A j \in DOMAIN d.headers :
                          Lower[d.headers[j].name] = "content-type" => j <= k
BY Zenon DEF IsDevice

LEMMA ConcatFacts ==
    ASSUME NEW n \in Nat, NEW m \in Nat, NEW s, s = [k \in 1..n |-> s[k]],
           NEW t, t = [k \in 1..m |-> t[k]]
    PROVE  s \o t = [k \in 1..(n + m) |-> IF k <= n THEN s[k] ELSE t[k - n]]
<1> DEFINE T == {s[k] : k \in 1..n} \cup {t[k] : k \in 1..m}
<1>1. \A k \in 1..n : s[k] \in T
  OBVIOUS
<1>2. \A k \in 1..m : t[k] \in T
  OBVIOUS
<1> HIDE DEF T
<1>3. s \in Seq(T) /\ Len(s) = n
  BY <1>1
<1>4. t \in Seq(T) /\ Len(t) = m
  BY <1>2
<1>5. /\ Len(s \o t) = n + m /\ DOMAIN (s \o t) = 1..(n + m)
      /\ \A k \in 1..(n + m) : (s \o t)[k] = IF k <= n THEN s[k] ELSE t[k - n]
  BY <1>3, <1>4
<1>6. s \o t \in Seq(T)
  BY <1>3, <1>4
<1> QED BY <1>5, <1>6

---------------------------------------------------------------------------
(* A replay: the headers of the device, with the edits laid over them.     *)

Over(r, h) ==
    IF Edit(r.headers, Lower[h.name]) = 0 THEN h
    ELSE [h EXCEPT !.value = r.headers[Edit(r.headers, Lower[h.name])].value]
Added(r) ==
    FlattenSeq([k \in DOMAIN r.headers |->
        IF r.headers[k].name \in {Lower[r.device.headers[j].name] : j \in DOMAIN r.device.headers}
        THEN <<>> ELSE <<r.headers[k]>>])
Laid(r) == [k \in DOMAIN r.device.headers |-> Over(r, r.device.headers[k])] \o Added(r)
Spelled(r) == [k \in DOMAIN Laid(r) |-> ApplyNames(Laid(r)[k], OriginalNames(r.device.headers))]

LEMMA MergedIs ==
    ASSUME NEW r, DOMAIN r = Keys, r.route = "replay"
    PROVE  /\ Merged(r).headers = Spelled(r)
           /\ Merged(r).path = IF r.path = <<>> THEN r.device.path ELSE r.path
           /\ Merged(r).body = IF r.body.kind = "absent" THEN CapBody(r.device.sent) ELSE r.body
<1> DEFINE p == IF r.path = <<>> THEN r.device.path ELSE r.path
           b == IF r.body.kind = "absent" THEN CapBody(r.device.sent) ELSE r.body
           h == Spelled(r)
<1>1. Merged(r) = [r EXCEPT !.path = IF @ = <<>> THEN r.device.path ELSE @, !.headers = h,
                            !.body = IF @.kind = "absent" THEN CapBody(r.device.sent) ELSE @]
  BY Zenon DEF Merged, Spelled, Laid, Added, Over, Edit
<1> HIDE DEF h
<1>2. /\ Merged(r).headers = h
      /\ Merged(r).path = IF r.path = <<>> THEN r.device.path ELSE r.path
      /\ Merged(r).body = IF r.body.kind = "absent" THEN CapBody(r.device.sent) ELSE r.body
  BY <1>1 DEF Keys
<1> QED BY <1>2 DEF h

LEMMA AddedFacts ==
    ASSUME NEW r, Len(r.headers) \in Nat, r.headers = [k \in 1..Len(r.headers) |-> r.headers[k]]
    PROVE  /\ Len(Added(r)) \in Nat /\ Added(r) = [k \in 1..Len(Added(r)) |-> Added(r)[k]]
           /\ \A k \in 1..Len(Added(r)) : \E j \in 1..Len(r.headers) : Added(r)[k] = r.headers[j]
<1> DEFINE n == Len(r.headers)
           T == {r.headers[k] : k \in 1..n}
           known == {Lower[r.device.headers[j].name] : j \in DOMAIN r.device.headers}
           one(k) == IF r.headers[k].name \in known THEN <<>> ELSE <<r.headers[k]>>
           seqs == [k \in 1..n |-> one(k)]
<1>1. DOMAIN r.headers = 1..n
  OBVIOUS
<1>2. Added(r) = FlattenSeq(seqs)
  BY <1>1 DEF Added
<1>3. \A k \in 1..n : one(k) \in Seq(T)
  <2> HIDE DEF known
  <2>1. ASSUME NEW k \in 1..n PROVE one(k) \in Seq(T)
    <3>1. r.headers[k] \in T
      OBVIOUS
    <3> HIDE DEF T
    <3>2. <<>> \in Seq(T) /\ <<r.headers[k]>> \in Seq(T)
      BY <3>1
    <3> QED BY <3>2
  <2> QED BY <2>1
<1>4. seqs \in Seq(Seq(T))
  <2> HIDE DEF one, T
  <2> QED BY <1>3
<1>5. Added(r) \in Seq(T)
  <2> HIDE DEF seqs, T
  <2> QED BY <1>2, <1>4, FlattenFacts
<1>6. /\ Len(Added(r)) \in Nat /\ Added(r) = [k \in 1..Len(Added(r)) |-> Added(r)[k]]
      /\ \A k \in 1..Len(Added(r)) : Added(r)[k] \in T
  <2> HIDE DEF T
  <2> QED BY <1>5
<1> QED BY <1>6

LEMMA OverFacts ==
    ASSUME NEW r, AreHeaders(r.headers), NEW h, IsHeader(h)
    PROVE  /\ IsHeader(Over(r, h)) /\ Over(r, h).name = h.name
           /\ \/ Over(r, h) = h
              \/ \E j \in 1..Len(r.headers) :
                    r.headers[j].name = Lower[h.name] /\ Over(r, h).value = r.headers[j].value
<1> DEFINE j == Edit(r.headers, Lower[h.name])
<1>1. /\ Len(r.headers) \in Nat
      /\ \A k \in 1..Len(r.headers) : IsHeader(r.headers[k])
  BY HeadersFacts
<1>2. j = 0 \/ (j \in 1..Len(r.headers) /\ r.headers[j].name = Lower[h.name])
  BY <1>1, EditFacts
<1>3. Over(r, h) = IF j = 0 THEN h ELSE [h EXCEPT !.value = r.headers[j].value]
  BY DEF Over
<1> HIDE DEF j
<1> QED BY <1>1, <1>2, <1>3 DEF IsHeader

(* The spelling of the device changes neither the value nor the name in    *)
(* lower case.                                                             *)
LEMMA ApplyFacts ==
    ASSUME NEW hs, AreHeaders(hs), NEW h, IsHeader(h)
    PROVE  LET a == ApplyNames(h, OriginalNames(hs))
           IN  IsHeader(a) /\ a.value = h.value /\ Lower[a.name] = Lower[h.name]
<1> DEFINE low == Lower[h.name]
           spelled == {k \in DOMAIN hs : hs[k].name # Lower[hs[k].name]}
           S == {k \in spelled : Lower[hs[k].name] = low}
           names == OriginalNames(hs)
<1>1. /\ Len(hs) \in Nat /\ DOMAIN hs = 1..Len(hs)
      /\ \A k \in 1..Len(hs) : IsHeader(hs[k])
  BY HeadersFacts
<1>2. CASE low \in DOMAIN names
  <2>1. low \in {Lower[hs[k].name] : k \in spelled} /\ names[low] = hs[Min(S)].name
    BY <1>2 DEF OriginalNames
  <2>2. S # {} /\ S \in SUBSET (1..Len(hs))
    BY <1>1, <2>1
  <2>3. Min(S) \in S
    <3> HIDE DEF S
    <3> QED BY <1>1, <2>2, LeastFacts
  <2>4. names[low] \in HeaderName /\ Lower[names[low]] = low
    BY <1>1, <2>1, <2>3 DEF IsHeader
  <2>5. ApplyNames(h, names) = [h EXCEPT !.name = names[low]]
    BY <1>2 DEF ApplyNames
  <2> DEFINE a == ApplyNames(h, names)
             name == names[low]
  <2> HIDE DEF names
  <2>6. a.name = name /\ a.value = h.value /\ DOMAIN a = {"name", "value"}
    BY <2>5 DEF IsHeader
  <2> HIDE DEF a, name, low
  <2>7. IsHeader(a) /\ a.value = h.value /\ Lower[a.name] = low
    BY <2>4, <2>6 DEF IsHeader, name
  <2> QED BY <2>7 DEF a, names, low
<1>3. CASE low \notin DOMAIN names
  BY <1>3 DEF ApplyNames
<1> QED BY <1>2, <1>3

(* Where each header of a replay comes from, in its place.                 *)
LEMMA SpelledFacts ==
    ASSUME NEW r, IsRequest(r)
    PROVE  LET hs == Spelled(r)
               device == r.device.headers
           IN  /\ AreHeaders(hs) /\ Len(device) \in Nat /\ Len(device) <= Len(hs)
               /\ \A k \in 1..Len(device) :
                     /\ Lower[hs[k].name] = Lower[device[k].name]
                     /\ \/ hs[k].value = device[k].value
                        \/ \E j \in 1..Len(r.headers) :
                              /\ r.headers[j].name = Lower[device[k].name]
                              /\ hs[k].value = r.headers[j].value
               /\ \A k \in (Len(device) + 1)..Len(hs) : \E j \in 1..Len(r.headers) :
                     hs[k].value = r.headers[j].value
                     /\ Lower[hs[k].name] = Lower[r.headers[j].name]
<1> DEFINE device == r.device.headers
           n == Len(device)
           over == [k \in 1..n |-> Over(r, device[k])]
           names == OriginalNames(device)
           all == Laid(r)
           hs == Spelled(r)
           m == Len(Added(r))
<1>1. AreHeaders(r.headers) /\ AreHeaders(device)
  BY FieldFacts, DeviceFacts
<1>2. /\ Len(r.headers) \in Nat /\ r.headers = [k \in 1..Len(r.headers) |-> r.headers[k]]
      /\ \A k \in 1..Len(r.headers) : IsHeader(r.headers[k])
  BY <1>1, HeadersFacts
<1>3. n \in Nat /\ DOMAIN device = 1..n /\ \A k \in 1..n : IsHeader(device[k])
  <2>1. n \in Nat /\ device = [k \in 1..n |-> device[k]] /\ \A k \in 1..n : IsHeader(device[k])
    BY <1>1, HeadersFacts
  <2> HIDE DEF device
  <2> QED BY <2>1
<1>4. /\ m \in Nat /\ Added(r) = [k \in 1..m |-> Added(r)[k]]
      /\ \A k \in 1..m : \E j \in 1..Len(r.headers) : Added(r)[k] = r.headers[j]
  BY <1>2, AddedFacts
<1>5. /\ Len(all) = n + m /\ DOMAIN all = 1..(n + m)
      /\ \A k \in 1..n : all[k] = Over(r, device[k])
      /\ \A k \in (n + 1)..(n + m) : all[k] = Added(r)[k - n]
  <2>1. all = over \o Added(r)
    BY <1>3 DEF Laid
  <2>2. Len(over) = n
    BY <1>3
  <2>3. all = [k \in 1..(n + m) |-> IF k <= n THEN over[k] ELSE Added(r)[k - n]]
    <3>1. over = [k \in 1..n |-> over[k]]
      OBVIOUS
    <3> HIDE DEF all, over, n, m
    <3> QED BY <1>3, <1>4, <2>1, <3>1, ConcatFacts
  <2> HIDE DEF over, all, n, m
  <2>4. Len(all) = n + m /\ DOMAIN all = 1..(n + m)
    BY <1>3, <1>4, <2>3
  <2> QED BY <1>3, <1>4, <2>3, <2>4 DEF over
<1>6. \A k \in 1..n :
         /\ IsHeader(all[k]) /\ all[k].name = device[k].name
         /\ \/ all[k] = device[k]
            \/ \E j \in 1..Len(r.headers) :
                  r.headers[j].name = Lower[device[k].name] /\ all[k].value = r.headers[j].value
  <2> HIDE DEF all, n, device
  <2> QED BY <1>1, <1>3, <1>5, OverFacts
<1>7. \A k \in (n + 1)..(n + m) : IsHeader(all[k]) /\ \E j \in 1..Len(r.headers) : all[k] = r.headers[j]
  <2> HIDE DEF all, n, m
  <2>1. \A k \in (n + 1)..(n + m) : k - n \in 1..m
    BY <1>3, <1>4
  <2>2. ASSUME NEW k \in (n + 1)..(n + m)
        PROVE  IsHeader(all[k]) /\ \E j \in 1..Len(r.headers) : all[k] = r.headers[j]
    <3>1. PICK j \in 1..Len(r.headers) : Added(r)[k - n] = r.headers[j]
      BY <1>4, <2>1, Zenon
    <3> QED BY <1>2, <1>5, <3>1
  <2> QED BY <2>2
<1>8. /\ hs = [k \in 1..(n + m) |-> ApplyNames(all[k], names)] /\ Len(hs) = n + m
  <2>1. hs = [k \in 1..(n + m) |-> ApplyNames(all[k], names)]
    BY <1>5 DEF Spelled
  <2> HIDE DEF hs, all, n, m, names
  <2> QED BY <1>3, <1>4, <2>1
<1>9. \A k \in 1..(n + m) :
         IsHeader(hs[k]) /\ hs[k].value = all[k].value /\ Lower[hs[k].name] = Lower[all[k].name]
  <2>1. ASSUME NEW k \in 1..(n + m)
        PROVE  IsHeader(hs[k]) /\ hs[k].value = all[k].value /\ Lower[hs[k].name] = Lower[all[k].name]
    <3> HIDE DEF all, n, m
    <3>1. IsHeader(all[k])
      BY <1>3, <1>4, <1>6, <1>7
    <3>2. hs[k] = ApplyNames(all[k], names)
      <4> HIDE DEF hs
      <4> QED BY <1>8
    <3> HIDE DEF hs, device
    <3> QED BY <1>1, <3>1, <3>2, ApplyFacts
  <2> QED BY <2>1
<1> HIDE DEF all, n, m, device, names, hs
<1>10. AreHeaders(hs)
  <2>1. Len(hs) \in Nat /\ hs = [k \in 1..Len(hs) |-> hs[k]] /\ \A k \in 1..Len(hs) : IsHeader(hs[k])
    BY <1>3, <1>4, <1>8, <1>9
  <2> QED BY <2>1, HeadersFacts
<1>11. n \in Nat /\ n <= Len(hs)
  BY <1>3, <1>4, <1>8
<1>12. \A k \in 1..n :
         /\ Lower[hs[k].name] = Lower[device[k].name]
         /\ \/ hs[k].value = device[k].value
            \/ \E j \in 1..Len(r.headers) :
                  r.headers[j].name = Lower[device[k].name] /\ hs[k].value = r.headers[j].value
  <2>1. \A k \in 1..n : k \in 1..(n + m)
    BY <1>3, <1>4
  <2> QED BY <1>6, <1>9, <2>1
<1>13. \A k \in (n + 1)..Len(hs) : \E j \in 1..Len(r.headers) :
         hs[k].value = r.headers[j].value /\ Lower[hs[k].name] = Lower[r.headers[j].name]
  <2>1. \A k \in (n + 1)..Len(hs) : k \in 1..(n + m) /\ k \in (n + 1)..(n + m)
    BY <1>3, <1>4, <1>8
  <2> QED BY <1>7, <1>9, <2>1
<1> QED BY <1>10, <1>11, <1>12, <1>13 DEF hs, n, device

---------------------------------------------------------------------------
(* Resolving leaves no template, whatever the variables stand for.         *)

ValuesOk(values) ==
    \A name \in DOMAIN values :
       IsText(values[name]) /\ Range(values[name]) \cap (Template \cup {"[k]"}) = {}

LEMMA TemplateFacts ==
    /\ \A token \in {"%", "{k}", "1", "n", "identity", "json", "text", "form"} : token \notin Template
    /\ \A token : token \in Template <=> token \in DOMAIN Hole \/ token \in Odd
<1>1. Template \cap {"%", "{k}", "1", "n", "identity", "json", "text", "form"} = {}
  BY ExchangeAssumption, Zenon
<1> QED BY <1>1 DEF Template

LEMMA VarsFacts ==
    ASSUME NEW r, IsRequest(r), r.vars \notin {None, Unusable} PROVE ValuesOk(r.vars)
BY Zenon DEF IsRequest, ValuesOk

LEMMA ResolveFacts ==
    ASSUME NEW text, IsText(text), NEW values, ValuesOk(values), Resolvable(text, values)
    PROVE  /\ IsText(Resolve(text, values)) /\ Range(Resolve(text, values)) \cap Template = {}
           /\ "[k]" \in Range(Resolve(text, values)) => "[k]" \in Range(text)
<1> DEFINE all == Range(text) \cup {"%"} \cup (UNION {Range(values[name]) : name \in DOMAIN values})
           T == {x \in all : x \notin Template /\ (x = "[k]" => "[k]" \in Range(text))}
           one(k) == IF text[k] \in DOMAIN Hole
                     THEN Filtered(values[Hole[text[k]].name], Hole[text[k]].filter)
                     ELSE <<text[k]>>
           n == Len(text)
           seqs == [k \in 1..n |-> one(k)]
<1>1. n \in Nat /\ DOMAIN text = 1..n
  <2>1. n \in Nat /\ text = [k \in 1..n |-> text[k]]
    BY TextFacts
  <2> HIDE DEF n
  <2> QED BY <2>1
<1>2. Resolve(text, values) = FlattenSeq(seqs)
  BY <1>1 DEF Resolve
<1>3. ASSUME NEW k \in 1..n PROVE one(k) \in Seq(T)
  <2>1. /\ text[k] \in Range(text) /\ text[k] \notin Odd
        /\ text[k] \in DOMAIN Hole => Hole[text[k]].name \in DOMAIN values
    <3>1. text[k] \in Range(text)
      BY <1>1, <1>3 DEF Range
    <3> QED BY <3>1, Zenon DEF Resolvable
  <2>2. CASE text[k] \notin DOMAIN Hole
    <3>1. text[k] \in T
      BY <2>1, <2>2, TemplateFacts
    <3>2. one(k) = <<text[k]>>
      BY <2>2
    <3> HIDE DEF T, one
    <3> QED BY <3>1, <3>2
  <2>3. CASE text[k] \in DOMAIN Hole
    <3> DEFINE name == Hole[text[k]].name
               value == values[name]
               filter == Hole[text[k]].filter
    <3>1. name \in DOMAIN values
      BY <2>1, <2>3
    <3>2. IsText(value) /\ Range(value) \cap (Template \cup {"[k]"}) = {}
      <4> HIDE DEF name
      <4> QED BY <3>1 DEF ValuesOk
    <3>3. one(k) = Filtered(value, filter)
      BY <2>3
    <3>4. Range(value) \subseteq T
      <4> HIDE DEF name
      <4>1. Range(value) \subseteq all
        BY <3>1
      <4> HIDE DEF all, value
      <4> QED BY <3>2, <4>1
    <3>5. "%" \in T
      <4>1. "%" \in all
        OBVIOUS
      <4>2. "%" \notin Template
        BY TemplateFacts
      <4> HIDE DEF all
      <4> QED BY <4>1, <4>2
    <3> HIDE DEF one, value, filter, T
    <3>6. Len(value) \in Nat /\ value = [j \in 1..Len(value) |-> value[j]]
      BY <3>2, TextFacts
    <3>7. DOMAIN value = 1..Len(value)
      BY <3>6
    <3>8. \A j \in 1..Len(value) : value[j] \in T
      BY <3>4, <3>7 DEF Range
    <3>9. value \in Seq(T)
      BY <3>6, <3>8
    <3>10. [j \in 1..Len(value) |-> "%"] \in Seq(T)
      BY <3>5, <3>6
    <3> QED BY <3>3, <3>7, <3>9, <3>10 DEF Filtered
  <2> QED BY <2>2, <2>3
<1>4. seqs \in Seq(Seq(T))
  <2> HIDE DEF one, T, n
  <2> QED BY <1>1, <1>3
<1>5. Resolve(text, values) \in Seq(T)
  <2> HIDE DEF seqs, T
  <2> QED BY <1>2, <1>4, FlattenFacts
<1>6. IsText(Resolve(text, values)) /\ Range(Resolve(text, values)) \subseteq T
  <2> HIDE DEF T
  <2> QED BY <1>5, RangeFacts
<1>7. T \cap Template = {} /\ ("[k]" \in T => "[k]" \in Range(text))
  <2> HIDE DEF all
  <2> QED OBVIOUS
<1> HIDE DEF T
<1> QED BY <1>6, <1>7

LEMMA ResolveOne ==
    ASSUME NEW x, x \notin Template, NEW values PROVE Resolve(<<x>>, values) = <<x>>
<1> DEFINE seqs == [k \in DOMAIN <<x>> |->
                      IF <<x>>[k] \in DOMAIN Hole
                      THEN Filtered(values[Hole[<<x>>[k]].name], Hole[<<x>>[k]].filter)
                      ELSE <<<<x>>[k]>>]
<1>1. Resolve(<<x>>, values) = FlattenSeq(seqs)
  BY DEF Resolve
<1>2. DOMAIN <<x>> = 1..1 /\ <<x>>[1] = x /\ x \notin DOMAIN Hole
  <2>1. x \notin DOMAIN Hole
    BY TemplateFacts
  <2> QED BY <2>1
<1>3. seqs = [k \in 1..1 |-> <<x>>]
  BY <1>2
<1>4. <<x>> \in Seq({x})
  OBVIOUS
<1>5. [k \in 1..1 |-> <<x>>] \in Seq(Seq({x})) /\ Len([k \in 1..1 |-> <<x>>]) = 1
  BY <1>4
<1> HIDE DEF seqs
<1>6. seqs \in Seq(Seq({x})) /\ Len(seqs) = 1 /\ seqs[1] = <<x>>
  BY <1>3, <1>5
<1> QED BY <1>1, <1>6, FlattenFacts

---------------------------------------------------------------------------
(* What a request becomes before it is sent.                               *)

Shaped(q) ==
    /\ DOMAIN q = Keys /\ IsText(q.path) /\ AreHeaders(q.headers)
    /\ DOMAIN q.body = {"kind", "text"} /\ IsText(q.body.text)
    /\ q.body.kind \in {"none", "string", "document"}

LEMMA CapFacts ==
    ASSUME NEW sent, IsText(sent.text)
    PROVE  LET b == CapBody(sent)
           IN  /\ DOMAIN b = {"kind", "text"} /\ b.kind \in {"none", "string", "document"}
               /\ IsText(b.text)
<1> DEFINE T == Range(sent.text) \cup {"..."}
           part == Append(SubSeq(sent.text, 1, MaxChars), "...")
<1>1. sent.text \in Seq(Range(sent.text)) /\ MaxChars \in Nat
  BY BoundsFacts DEF IsText
<1>2. sent.text \in Seq(T) /\ "..." \in T
  BY <1>1
<1>3. Len(sent.text) > MaxChars => part \in Seq(T)
  <2> HIDE DEF T
  <2> QED BY <1>1, <1>2
<1>4. Len(sent.text) > MaxChars => IsText(part)
  <2> HIDE DEF T, part
  <2> QED BY <1>3, RangeFacts
<1>5. IsText(<<>>)
  <2>1. <<>> \in Seq({})
    OBVIOUS
  <2> QED BY <2>1, RangeFacts
<1> HIDE DEF part
<1> QED BY <1>4, <1>5 DEF CapBody, part

LEMMA MergedShaped ==
    ASSUME NEW r, IsRequest(r) PROVE Shaped(Merged(r))
<1>1. /\ DOMAIN r = Keys /\ r.route \in {"send", "saved", "replay"}
      /\ IsText(r.path) /\ AreHeaders(r.headers)
      /\ DOMAIN r.body = {"kind", "text"} /\ IsText(r.body.text)
      /\ r.body.kind \in {"none", "string", "document", "absent"}
      /\ r.route # "replay" => r.body.kind # "absent"
      /\ IsText(r.device.path) /\ IsText(r.device.sent.text)
  BY FieldFacts, DeviceFacts
<1>2. CASE r.route # "replay"
  <2>1. Merged(r) = r
    BY <1>2, Zenon DEF Merged
  <2> QED BY <1>1, <1>2, <2>1 DEF Shaped
<1>3. CASE r.route = "replay"
  <2>1. DOMAIN Merged(r) = Keys
    BY <1>1, MergedKeeps DEF Keeps
  <2>2. AreHeaders(Merged(r).headers)
    BY <1>1, <1>3, MergedIs, SpelledFacts
  <2>3. IsText(Merged(r).path)
    BY <1>1, <1>3, MergedIs
  <2>4. LET b == Merged(r).body
        IN  /\ DOMAIN b = {"kind", "text"} /\ b.kind \in {"none", "string", "document"}
            /\ IsText(b.text)
    <3>1. CASE r.body.kind = "absent"
      BY <1>1, <1>3, <3>1, MergedIs, CapFacts
    <3>2. CASE r.body.kind # "absent"
      BY <1>1, <1>3, <3>2, MergedIs
    <3> QED BY <3>1, <3>2
  <2> QED BY <2>1, <2>2, <2>3, <2>4 DEF Shaped
<1> QED BY <1>2, <1>3

LEMMA AppendHeader ==
    ASSUME NEW hs, AreHeaders(hs), NEW h, IsHeader(h)
    PROVE  AreHeaders(Append(hs, h)) /\ Len(hs) \in Nat
           /\ Len(Append(hs, h)) = Len(hs) + 1 /\ Append(hs, h)[Len(hs) + 1] = h
<1> DEFINE T == {x \in Range(hs) \cup {h} : IsHeader(x)}
<1>1. Len(hs) \in Nat /\ hs = [k \in 1..Len(hs) |-> hs[k]] /\ \A k \in 1..Len(hs) : IsHeader(hs[k])
  BY HeadersFacts
<1>2. \A k \in 1..Len(hs) : hs[k] \in T
  <2>1. DOMAIN hs = 1..Len(hs)
    BY <1>1
  <2> QED BY <1>1, <2>1 DEF Range
<1>3. h \in T /\ \A x \in T : IsHeader(x)
  OBVIOUS
<1> HIDE DEF T
<1>4. hs \in Seq(T)
  BY <1>1, <1>2
<1>5. Append(hs, h) \in Seq(T) /\ Len(Append(hs, h)) = Len(hs) + 1 /\ Append(hs, h)[Len(hs) + 1] = h
  BY <1>3, <1>4
<1>6. AreHeaders(Append(hs, h))
  <2>1. IsText(Append(hs, h)) /\ Range(Append(hs, h)) \subseteq T
    BY <1>5, RangeFacts
  <2> QED BY <1>3, <2>1 DEF AreHeaders, IsHeader, IsText
<1> QED BY <1>1, <1>5, <1>6

(* A type is given to what is typed or saved with a body and without one.  *)
LEMMA DefaultFacts ==
    ASSUME NEW q, Shaped(q)
    PROVE  /\ Shaped(WithContentTypeDefault(q))
           /\ q.route = "replay" => WithContentTypeDefault(q) = q
           /\ q.route # "replay" /\ q.body.kind # "none" => Types(WithContentTypeDefault(q)) # {}
<1>1. CASE q.route = "replay" \/ q.body.kind = "none" \/ Types(q) # {}
  BY <1>1, Zenon DEF WithContentTypeDefault
<1>2. CASE ~(q.route = "replay" \/ q.body.kind = "none" \/ Types(q) # {})
  <2> DEFINE h == [name |-> "content-type",
                   value |-> IF q.body.kind = "string" THEN <<"text">> ELSE <<"json">>]
             hs == Append(q.headers, h)
  <2>1. WithContentTypeDefault(q) = [q EXCEPT !.headers = hs]
    BY <1>2 DEF WithContentTypeDefault
  <2>2. IsHeader(h) /\ h.name = "content-type"
    <3>1. IsText(<<"text">>) /\ IsText(<<"json">>)
      BY TextFacts
    <3> QED BY <3>1, LowerFacts DEF IsHeader
  <2> HIDE DEF h
  <2>3. /\ AreHeaders(hs) /\ Len(q.headers) \in Nat
        /\ Len(hs) = Len(q.headers) + 1 /\ hs[Len(q.headers) + 1] = h
    BY <2>2, AppendHeader DEF Shaped
  <2> HIDE DEF hs
  <2>4. WithContentTypeDefault(q).headers = hs /\ Shaped(WithContentTypeDefault(q))
    BY <2>1, <2>3 DEF Shaped, Keys
  <2>5. DOMAIN hs = 1..Len(hs) /\ Len(hs) \in DOMAIN hs
    <3>1. hs = [k \in 1..Len(hs) |-> hs[k]]
      BY <2>3, HeadersFacts
    <3> QED BY <2>3, <3>1
  <2>6. Len(hs) \in Types(WithContentTypeDefault(q))
    BY <2>2, <2>3, <2>4, <2>5, LowerFacts DEF Types
  <2> QED BY <1>2, <2>4, <2>6
<1> QED BY <1>1, <1>2

LEMMA PreparedFacts ==
    ASSUME NEW r, IsRequest(r)
    PROVE  LET q == Prepared(r)
           IN  /\ Shaped(q) /\ Keeps(r, q) /\ q.path = Merged(r).path /\ q.body = Merged(r).body
               /\ r.route = "replay" => q.headers = Merged(r).headers
               /\ q.route # "replay" /\ q.body.kind # "none" => Types(q) # {}
               /\ Templated(q) <=> Templated(r)
               /\ Templated(r) /\ r.route = "replay" => q.vars = r.vars
               /\ Templated(q) /\ VariablesOk(q) => ValuesOk(q.vars)
<1> DEFINE m == Merged(r)
           w == WithVariables(m)
           q == Prepared(r)
<1>1. DOMAIN r = Keys
  BY FieldFacts
<1>2. Keeps(r, m) /\ m.vars = r.vars /\ Shaped(m)
  BY <1>1, MergedKeeps, MergedShaped
<1>3. Keeps(m, w) /\ w.path = m.path /\ w.headers = m.headers /\ w.body = m.body
  BY <1>2, WithVariablesKeeps DEF Keeps
<1>4. q = WithContentTypeDefault(w)
  BY DEF Prepared
<1>5. w.vars = IF m.vars = None /\ Templated(m) THEN <<>> ELSE m.vars
  BY <1>2 DEF WithVariables, Keeps, Keys
<1>6. Templated(m) <=> Templated(r)
  BY <1>2 DEF Templated, Keeps
<1> HIDE DEF m, w, q
<1>7. Shaped(w)
  BY <1>2, <1>3 DEF Shaped, Keeps
<1>8. Shaped(q) /\ (w.route = "replay" => q = w)
      /\ (w.route # "replay" /\ w.body.kind # "none" => Types(q) # {})
  BY <1>4, <1>7, DefaultFacts
<1>9. Keeps(w, q) /\ q.path = w.path /\ q.vars = w.vars /\ q.body = w.body
  BY <1>3, <1>4, DefaultKeeps DEF Keeps
<1>10. Keeps(r, q) /\ w.route = r.route /\ q.route = r.route
  BY <1>2, <1>3, <1>9 DEF Keeps
<1>11. <<>> # None /\ <<>> # Unusable /\ ValuesOk(<<>>)
  <2>1. <<>> # None /\ <<>> # Unusable
    BY ExchangeAssumption, Zenon
  <2>2. DOMAIN <<>> = {}
    OBVIOUS
  <2> QED BY <2>1, <2>2 DEF ValuesOk
<1>12. Templated(q) <=> Templated(r)
  BY <1>2, <1>5, <1>6, <1>9, <1>10, <1>11 DEF Templated
<1>13. Templated(r) /\ r.route = "replay" => q.vars = r.vars
  BY <1>2, <1>5, <1>9 DEF Templated
<1>14. Templated(q) /\ VariablesOk(q) => ValuesOk(q.vars)
  BY <1>2, <1>5, <1>6, <1>9, <1>11, <1>12, VarsFacts DEF VariablesOk
<1> QED BY <1>3, <1>8, <1>9, <1>10, <1>12, <1>13, <1>14 DEF m, q

NoTemplate(text) == Range(text) \cap Template = {}

LEMMA ResolveFieldsFacts ==
    ASSUME NEW q, Shaped(q), ValuesOk(q.vars), AllResolvable(q)
    PROVE  LET o == ResolveFields(q)
           IN  /\ Shaped(o) /\ o.route = q.route /\ o.vars = q.vars
               /\ NoTemplate(o.path) /\ NoTemplate(o.body.text)
               /\ o.body = [q.body EXCEPT !.text = Resolve(@, q.vars)]
               /\ "[k]" \in Range(o.body.text) => "[k]" \in Range(q.body.text)
               /\ Len(o.headers) = Len(q.headers)
               /\ \A k \in 1..Len(q.headers) :
                     /\ o.headers[k].name = q.headers[k].name
                     /\ o.headers[k].value = Resolve(q.headers[k].value, q.vars)
                     /\ NoTemplate(o.headers[k].value)
<1> DEFINE o == ResolveFields(q)
           n == Len(q.headers)
           path == Resolve(q.path, q.vars)
           text == Resolve(q.body.text, q.vars)
           value(k) == Resolve(q.headers[k].value, q.vars)
           hs == [k \in 1..n |-> [q.headers[k] EXCEPT !.value = value(k)]]
<1>1. /\ n \in Nat /\ DOMAIN q.headers = 1..n /\ \A k \in 1..n : IsHeader(q.headers[k])
  <2>1. n \in Nat /\ q.headers = [k \in 1..n |-> q.headers[k]] /\ \A k \in 1..n : IsHeader(q.headers[k])
    BY HeadersFacts DEF Shaped
  <2> HIDE DEF n
  <2> QED BY <2>1
<1>2. IsText(path) /\ NoTemplate(path)
  <2>1. IsText(q.path) /\ Resolvable(q.path, q.vars)
    BY DEF Shaped, AllResolvable
  <2> QED BY <2>1, ResolveFacts DEF NoTemplate
<1>3. /\ IsText(text) /\ NoTemplate(text)
      /\ "[k]" \in Range(text) => "[k]" \in Range(q.body.text)
  <2>1. IsText(q.body.text) /\ Resolvable(q.body.text, q.vars)
    BY DEF Shaped, AllResolvable
  <2> QED BY <2>1, ResolveFacts DEF NoTemplate
<1>4. \A k \in 1..n : IsText(value(k)) /\ NoTemplate(value(k))
  <2>1. \A k \in 1..n : IsText(q.headers[k].value) /\ Resolvable(q.headers[k].value, q.vars)
    BY <1>1 DEF IsHeader, AllResolvable
  <2> QED BY <2>1, ResolveFacts DEF NoTemplate
<1>5. /\ o.path = path /\ o.headers = hs /\ o.route = q.route /\ o.vars = q.vars /\ DOMAIN o = Keys
      /\ o.body = [q.body EXCEPT !.text = text]
  <2>1. DOMAIN q = Keys /\ DOMAIN q.body = {"kind", "text"}
    BY DEF Shaped
  <2>2. [k \in DOMAIN q.headers |-> [q.headers[k] EXCEPT !.value = Resolve(@, q.vars)]] = hs
    BY <1>1 DEF IsHeader
  <2> HIDE DEF hs
  <2>3. ResolveFields(q).path = path
    BY <2>1 DEF ResolveFields, Keys
  <2>4. ResolveFields(q).body = [q.body EXCEPT !.text = text]
    BY <2>1 DEF ResolveFields, Keys
  <2>5. ResolveFields(q).headers = hs
    <3> DEFINE f == [k \in DOMAIN q.headers |-> [q.headers[k] EXCEPT !.value = Resolve(@, q.vars)]]
    <3>1. ResolveFields(q) = [q EXCEPT !.path = Resolve(@, q.vars), !.body.text = Resolve(@, q.vars),
                                       !.headers = f]
      BY DEF ResolveFields
    <3>2. f = hs
      BY <2>2
    <3> HIDE DEF f
    <3> QED BY <2>1, <3>1, <3>2 DEF Keys
  <2>6. /\ DOMAIN ResolveFields(q) = Keys
        /\ \A x \in Keys \ {"path", "body", "headers"} : ResolveFields(q)[x] = q[x]
    BY <2>1 DEF ResolveFields, Keys
  <2> QED BY <2>1, <2>3, <2>4, <2>5, <2>6 DEF Keys
<1> HIDE DEF path, text, value, n
<1>6. Len(hs) = n /\ AreHeaders(hs)
  <2>1. Len(hs) = n /\ hs = [k \in 1..Len(hs) |-> hs[k]]
    BY <1>1
  <2>2. \A k \in 1..n : IsHeader(hs[k])
    BY <1>1, <1>4 DEF IsHeader
  <2> HIDE DEF hs
  <2> QED BY <1>1, <2>1, <2>2, HeadersFacts
<1>7. \A k \in 1..n : hs[k].name = q.headers[k].name /\ hs[k].value = value(k)
  BY <1>1 DEF IsHeader
<1> HIDE DEF hs, o
<1>9. DOMAIN o.body = {"kind", "text"} /\ o.body.text = text /\ o.body.kind = q.body.kind
  BY <1>5 DEF Shaped
<1>10. Shaped(o)
  BY <1>2, <1>3, <1>6, <1>5, <1>9 DEF Shaped
<1>11. o.body = [q.body EXCEPT !.text = Resolve(@, q.vars)]
  BY <1>5 DEF text
<1> QED BY <1>2, <1>3, <1>4, <1>6, <1>7, <1>5, <1>9, <1>10, <1>11 DEF o, n, value

(* A request that is served is in order: whatever it was made of, no line  *)
(* break is left in its path or in a header, and no template if it was one.*)
LEMMA ResolvedFacts ==
    ASSUME NEW r \in Requests, Served(r)
    PROVE  LET o == Resolved(r)
               q == Prepared(r)
           IN  /\ Shaped(o) /\ o.route = r.route
               /\ OneLine(o.path) /\ \A k \in 1..Len(o.headers) : OneLine(o.headers[k].value)
               /\ o.route # "replay" /\ o.body.kind # "none" => Types(o) # {}
               /\ Templated(r) =>
                     /\ NoTemplate(o.path) /\ NoTemplate(o.body.text)
                     /\ \A k \in 1..Len(o.headers) : NoTemplate(o.headers[k].value)
<1> DEFINE o == Resolved(r)
           q == Prepared(r)
<1>1. IsRequest(r) /\ DOMAIN r = Keys
  BY RequestFacts
<1>2. /\ Shaped(q) /\ Keeps(r, q) /\ q.path = Merged(r).path
      /\ r.route = "replay" => q.headers = Merged(r).headers
      /\ q.route # "replay" /\ q.body.kind # "none" => Types(q) # {}
      /\ Templated(q) <=> Templated(r)
      /\ Templated(q) /\ VariablesOk(q) => ValuesOk(q.vars)
  BY <1>1, PreparedFacts
<1>3. o = IF Templated(q) THEN ResolveFields(q) ELSE q
  BY DEF Resolved
<1>4. /\ r.route = "saved" \/ FieldsOk(r)
      /\ VariablesOk(q)
      /\ Templated(q) => AllResolvable(q) /\ o.path # <<>> /\ FieldsOk(o)
  BY DEF Served
<1> HIDE DEF o, q
<1>5. ASSUME NEW x, Shaped(x)
      PROVE  Len(x.headers) \in Nat /\ DOMAIN x.headers = 1..Len(x.headers)
  <2>1. Len(x.headers) \in Nat /\ x.headers = [k \in 1..Len(x.headers) |-> x.headers[k]]
    BY <1>5, HeadersFacts DEF Shaped
  <2> QED BY <2>1
<1>6. CASE Templated(q)
  <2>1. /\ Shaped(o) /\ o.route = q.route
        /\ NoTemplate(o.path) /\ NoTemplate(o.body.text)
        /\ o.body = [q.body EXCEPT !.text = Resolve(@, q.vars)]
        /\ Len(o.headers) = Len(q.headers)
        /\ \A k \in 1..Len(q.headers) :
              o.headers[k].name = q.headers[k].name /\ NoTemplate(o.headers[k].value)
    BY <1>2, <1>3, <1>4, <1>6, ResolveFieldsFacts
  <2>2. DOMAIN o.headers = 1..Len(o.headers) /\ DOMAIN q.headers = 1..Len(q.headers)
    BY <1>2, <1>5, <2>1
  <2>3. OneLine(o.path) /\ \A k \in 1..Len(o.headers) : OneLine(o.headers[k].value)
    BY <1>4, <1>6, <2>2 DEF FieldsOk
  <2>4. o.body.kind = q.body.kind /\ Types(o) = Types(q)
    <3>1. DOMAIN q.body = {"kind", "text"}
      BY <1>2 DEF Shaped
    <3>2. o.body.kind = q.body.kind
      BY <2>1, <3>1
    <3>3. Types(o) = Types(q)
      BY <2>1, <2>2 DEF Types
    <3> QED BY <3>2, <3>3
  <2> QED BY <1>2, <2>1, <2>3, <2>4 DEF Keeps, o, q
<1>7. CASE ~Templated(q)
  <2>1. o = q /\ r.route = "replay" /\ q.route = "replay" /\ FieldsOk(r)
    BY <1>2, <1>3, <1>4, <1>7 DEF Templated, Keeps
  <2>2. q.headers = Spelled(r) /\ q.path = IF r.path = <<>> THEN r.device.path ELSE r.path
    BY <1>1, <1>2, <2>1, MergedIs
  <2>3. AreHeaders(r.headers) /\ IsDevice(r.device) /\ AreHeaders(r.device.headers)
        /\ OneLine(r.device.path) /\ \A h \in Range(r.device.headers) : OneLine(h.value)
    BY <1>1, FieldFacts, DeviceFacts
  <2>4. OneLine(q.path)
    BY <2>1, <2>2, <2>3 DEF FieldsOk
  <2>5. \A j \in 1..Len(r.headers) : OneLine(r.headers[j].value)
    <3>1. r.headers = [k \in 1..Len(r.headers) |-> r.headers[k]]
      BY <2>3, HeadersFacts
    <3>2. DOMAIN r.headers = 1..Len(r.headers)
      BY <3>1
    <3> QED BY <2>1, <3>2 DEF FieldsOk
  <2>6. \A j \in 1..Len(r.device.headers) : OneLine(r.device.headers[j].value)
    <3> DEFINE device == r.device.headers
    <3>1. device = [k \in 1..Len(device) |-> device[k]]
      BY <2>3, HeadersFacts
    <3> HIDE DEF device
    <3>2. \A j \in 1..Len(device) : device[j] \in Range(device)
      BY <3>1 DEF Range
    <3> QED BY <2>3, <3>2 DEF device
  <2>7. \A k \in 1..Len(q.headers) : OneLine(q.headers[k].value)
    <3> DEFINE hs == Spelled(r)
               n == Len(r.device.headers)
    <3>1. /\ AreHeaders(hs) /\ n \in Nat /\ n <= Len(hs)
          /\ \A k \in 1..n :
                \/ hs[k].value = r.device.headers[k].value
                \/ \E j \in 1..Len(r.headers) : hs[k].value = r.headers[j].value
          /\ \A k \in (n + 1)..Len(hs) : \E j \in 1..Len(r.headers) :
                hs[k].value = r.headers[j].value
      BY <1>1, SpelledFacts
    <3>2. Len(hs) \in Nat
      BY <3>1, HeadersFacts
    <3> HIDE DEF hs, n
    <3>3. \A k \in 1..Len(hs) : k \in 1..n \/ k \in (n + 1)..Len(hs)
      BY <3>1, <3>2
    <3>4. \A k \in 1..n : OneLine(hs[k].value)
      BY <2>5, <2>6, <3>1 DEF n
    <3>5. \A k \in (n + 1)..Len(hs) : OneLine(hs[k].value)
      BY <2>5, <3>1
    <3> QED BY <2>2, <3>3, <3>4, <3>5 DEF hs
  <2> QED BY <1>2, <1>7, <2>1, <2>4, <2>7 DEF Keeps, o, q
<1> QED BY <1>6, <1>7

---------------------------------------------------------------------------
(* The headers that go out.                                                *)

OwnNames(r) ==
    {"host", "accept-encoding", Marker(r)}
        \cup (IF r.body.kind = "none" THEN {} ELSE {"content-length"})
Own(r) == [low \in OwnNames(r) |->
              CASE low = "host" -> Target [] low = "accept-encoding" -> <<"identity">>
                [] low = "content-length" -> <<"n">> [] OTHER -> <<"1">>]
Names(r) == (Folded(r) \ Recomputed) \cup OwnNames(r)
FieldAt(r, low) ==
    [name  |-> IF low \in Folded(r) THEN LastOf(r, low).name ELSE low,
     value |-> IF low \in OwnNames(r) THEN Own(r)[low] ELSE LastOf(r, low).value]
NamedIn(r, low) == {f \in Fields(r) : Lower[f.name] = low}

LEMMA FieldsIs ==
    ASSUME NEW r PROVE Fields(r) = {FieldAt(r, low) : low \in Names(r)}
<1> DEFINE own == [low \in {"host", "accept-encoding", Marker(r)}
                         \cup (IF r.body.kind = "none" THEN {} ELSE {"content-length"}) |->
                   CASE low = "host" -> Target [] low = "accept-encoding" -> <<"identity">>
                     [] low = "content-length" -> <<"n">> [] OTHER -> <<"1">>]
<1>1. own = Own(r) /\ DOMAIN own = OwnNames(r)
  BY Zenon DEF Own, OwnNames
<1>2. Fields(r) = {[name  |-> IF low \in Folded(r) THEN LastOf(r, low).name ELSE low,
                    value |-> IF low \in DOMAIN own THEN own[low] ELSE LastOf(r, low).value] :
                      low \in (Folded(r) \ Recomputed) \cup DOMAIN own}
  BY Zenon DEF Fields
<1> HIDE DEF own
<1> QED BY <1>1, <1>2, Zenon DEF FieldAt, Names

(* Each name that goes out stands for itself, whatever its spelling; its   *)
(* value is the proxy's own, or that of a header of that name.             *)
LEMMA FieldAtFacts ==
    ASSUME NEW q, Shaped(q), NEW low \in Names(q)
    PROVE  /\ Lower[FieldAt(q, low).name] = low
           /\ FieldAt(q, low).value = IF low \in OwnNames(q) THEN Own(q)[low]
                                      ELSE LastOf(q, low).value
           /\ low \notin OwnNames(q) => low \in Folded(q)
<1>1. Len(q.headers) \in Nat /\ DOMAIN q.headers = 1..Len(q.headers)
  <2>1. Len(q.headers) \in Nat /\ q.headers = [k \in 1..Len(q.headers) |-> q.headers[k]]
    BY HeadersFacts DEF Shaped
  <2> QED BY <2>1
<1>2. low \in Folded(q) => Lower[LastOf(q, low).name] = low
  BY <1>1, LastFacts
<1>3. low \in OwnNames(q) => Lower[low] = low
  <2>1. low \in OwnNames(q) =>
           low \in {"host", "accept-encoding", "content-length", "composed", "replayed"}
    BY DEF OwnNames, Marker
  <2> QED BY <2>1, LowerFacts
<1>4. low \in Folded(q) \/ low \in OwnNames(q)
  BY DEF Names
<1> QED BY <1>2, <1>3, <1>4 DEF FieldAt

LEMMA NamedFacts ==
    ASSUME NEW q, Shaped(q), NEW low
    PROVE  NamedIn(q, low) = IF low \in Names(q) THEN {FieldAt(q, low)} ELSE {}
<1>1. \A x \in Names(q) : Lower[FieldAt(q, x).name] = x
  BY FieldAtFacts
<1> QED BY <1>1, FieldsIs DEF NamedIn

LEMMA OwnFacts ==
    ASSUME NEW q
    PROVE  /\ Own(q)["host"] = Target /\ "host" \in OwnNames(q) /\ Marker(q) \in OwnNames(q)
           /\ "content-length" \in Names(q) <=> q.body.kind # "none"
           /\ "content-type" \notin OwnNames(q) /\ "content-type" \notin Recomputed
           /\ \A low \in OwnNames(q) :
                 Own(q)[low] \in {Target, <<"identity">>, <<"n">>, <<"1">>}
BY DEF Own, OwnNames, Marker, Names, Recomputed

LEMMA OneToken ==
    ASSUME NEW x PROVE Range(<<x>>) = {x}
<1>1. DOMAIN <<x>> = {1} /\ <<x>>[1] = x
  OBVIOUS
<1> QED BY <1>1 DEF Range

LEMMA FieldValues ==
    ASSUME NEW r \in Requests, Served(r), NEW low \in Names(Resolved(r))
    PROVE  LET value == FieldAt(Resolved(r), low).value
           IN  OneLine(value) /\ (Templated(r) => NoTemplate(value))
<1> DEFINE o == Resolved(r)
           value == FieldAt(o, low).value
<1>1. /\ Shaped(o)
      /\ \A k \in 1..Len(o.headers) : OneLine(o.headers[k].value)
      /\ Templated(r) => \A k \in 1..Len(o.headers) : NoTemplate(o.headers[k].value)
  BY ResolvedFacts
<1> HIDE DEF o
<1>2. /\ value = IF low \in OwnNames(o) THEN Own(o)[low] ELSE LastOf(o, low).value
      /\ low \notin OwnNames(o) => low \in Folded(o)
  BY <1>1, FieldAtFacts DEF o
<1>3. CASE low \in OwnNames(o)
  <2>1. value \in {Target, <<"identity">>, <<"n">>, <<"1">>}
    BY <1>2, <1>3, OwnFacts
  <2>2. OneLine(Target) /\ NoTemplate(Target)
    BY ExchangeAssumption, Zenon DEF NoTemplate
  <2>3. \A x \in {"identity", "n", "1"} : OneLine(<<x>>) /\ NoTemplate(<<x>>)
    <3>1. \A x \in {"identity", "n", "1"} : x \notin Template /\ x # "nl"
      BY TemplateFacts
    <3> QED BY <3>1, OneToken DEF OneLine, NoTemplate
  <2> HIDE DEF value
  <2>4. OneLine(value) /\ NoTemplate(value)
    BY <2>1, <2>2, <2>3
  <2> QED BY <2>4 DEF value, o
<1>4. CASE low \notin OwnNames(o)
  <2>1. Len(o.headers) \in Nat /\ DOMAIN o.headers = 1..Len(o.headers)
    <3>1. Len(o.headers) \in Nat /\ o.headers = [k \in 1..Len(o.headers) |-> o.headers[k]]
      BY <1>1, HeadersFacts DEF Shaped
    <3> QED BY <3>1
  <2>2. PICK k \in DOMAIN o.headers : LastOf(o, low) = o.headers[k]
    BY <1>2, <1>4, <2>1, LastFacts
  <2>3. value = o.headers[k].value
    BY <1>2, <1>4, <2>2
  <2> HIDE DEF value
  <2>4. OneLine(value) /\ (Templated(r) => NoTemplate(value))
    BY <1>1, <2>1, <2>2, <2>3
  <2> QED BY <2>4 DEF value, o
<1> QED BY <1>3, <1>4

LEMMA WrittenFacts ==
    ASSUME NEW q, Shaped(q)
    PROVE  /\ NoTemplate(q.body.text) => NoTemplate(Written(q))
           /\ Encoded(q) # "form" \/ "[k]" \notin Range(q.body.text) => Written(q) = q.body.text
<1> DEFINE text == q.body.text
           w == Written(q)
<1>1. Len(text) \in Nat /\ text = [k \in 1..Len(text) |-> text[k]]
  BY TextFacts DEF Shaped
<1>2. DOMAIN text = 1..Len(text)
  BY <1>1
<1>3. CASE Encoded(q) # "form"
  BY <1>3 DEF Written
<1>4. CASE Encoded(q) = "form"
  <2>1. w = [k \in 1..Len(text) |-> IF text[k] = "[k]" THEN "{k}" ELSE text[k]]
    BY <1>2, <1>4 DEF Written
  <2> HIDE DEF w, text
  <2>2. DOMAIN w = 1..Len(text) /\ \A k \in 1..Len(text) : w[k] = IF text[k] = "[k]" THEN "{k}" ELSE text[k]
    BY <2>1
  <2>3. Range(w) \subseteq Range(text) \cup {"{k}"}
    BY <1>2, <2>2 DEF Range
  <2>4. "{k}" \notin Template
    BY TemplateFacts
  <2>5. NoTemplate(text) => NoTemplate(w)
    BY <2>3, <2>4 DEF NoTemplate
  <2>6. "[k]" \notin Range(text) => w = text
    <3>1. \A k \in 1..Len(text) : text[k] \in Range(text)
      BY <1>2 DEF Range
    <3>2. "[k]" \notin Range(text) => \A k \in 1..Len(text) : text[k] # "[k]"
      BY <3>1
    <3> QED BY <1>1, <2>1, <3>2
  <2> QED BY <1>4, <2>5, <2>6 DEF w, text
<1> QED BY <1>3, <1>4

(* What is sent was served, and what was served is clean.                  *)
WireInv ==
    /\ request \in Requests
    /\ wire # None => wire = Sent(request) /\ Served(request)

LEMMA WireInvInit == ExchangeInit => WireInv
BY DEF ExchangeInit, WireInv

LEMMA WireInvNext == WireInv /\ [ExchangeNext]_exchangeVars => WireInv'
<1> SUFFICES ASSUME WireInv, [ExchangeNext]_exchangeVars PROVE WireInv'
  OBVIOUS
<1>1. CASE Serve
  <2>1. wire = None /\ UNCHANGED request
        /\ (UNCHANGED wire \/ (wire' = Sent(request) /\ Served(request)))
    BY <1>1, ServeCases
  <2> QED BY <2>1 DEF WireInv
<1>2. CASE UNCHANGED <<request, wire>>
  BY <1>2 DEF WireInv
<1>3. ~Serve => UNCHANGED <<request, wire>>
  <2>1. CASE Respond
    BY <2>1 DEF Respond
  <2>2. CASE Fail
    BY <2>2 DEF Fail
  <2>3. ASSUME NEW n \in 1..2, Data(n) PROVE UNCHANGED <<request, wire>>
    BY <2>3 DEF Data
  <2>4. CASE ReplyEnd
    BY <2>4 DEF ReplyEnd
  <2>5. CASE UNCHANGED exchangeVars
    BY <2>5 DEF exchangeVars
  <2> QED BY <2>1, <2>2, <2>3, <2>4, <2>5 DEF ExchangeNext
<1> QED BY <1>1, <1>2, <1>3

(* The path of a request that is sent opens with a slash, which ends the   *)
(* host in the request line, or with double braces.                        *)
LEMMA HostServed ==
    ASSUME NEW r \in Requests, Served(r)
    PROVE  HostOf(Resolved(r).path) = Target \/ Opens(Head(Resolved(r).path))
<1>1. IsRequest(r) /\ DOMAIN r = Keys
  BY RequestFacts
<1>2. Prepared(r).path = Merged(r).path /\ (Templated(Prepared(r)) <=> Templated(r))
  BY <1>1, PreparedFacts
<1>3. CASE Templated(r)
  <2>1. FieldsOk(Resolved(r)) /\ Resolved(r).path # <<>>
    BY <1>2, <1>3 DEF Served
  <2> QED BY <2>1 DEF FieldsOk, HostOf
<1>4. CASE ~ Templated(r)
  <2>1. r.route = "replay" /\ Resolved(r).path = Merged(r).path
    BY <1>2, <1>4 DEF Templated, Resolved
  <2>2. Merged(r).path # <<>> /\ FieldsOk(r)
    BY <2>1 DEF Served, Lacking
  <2>3. Merged(r).path = IF r.path = <<>> THEN r.device.path ELSE r.path
    BY <1>1, <2>1, MergedIs
  <2>4. r.device.path # <<>> => Head(r.device.path) = "/"
    <3>1. IsDevice(r.device)
      BY <1>1, Zenon DEF IsRequest
    <3> QED BY <3>1, Zenon DEF IsDevice
  <2> QED BY <2>1, <2>2, <2>3, <2>4 DEF FieldsOk, HostOf
<1> QED BY <1>3, <1>4

LEMMA SentIsClean == WireInv => OneCleanRequest
<1> SUFFICES ASSUME request \in Requests, wire # None, wire = Sent(request), Served(request)
             PROVE  OneCleanRequest
  BY DEF WireInv, OneCleanRequest
<1> DEFINE o == Resolved(request)
<1>1. /\ Shaped(o) /\ o.route = request.route /\ OneLine(o.path)
      /\ o.route # "replay" /\ o.body.kind # "none" => Types(o) # {}
      /\ Templated(request) => NoTemplate(o.path) /\ NoTemplate(o.body.text)
  BY ResolvedFacts
<1>2. /\ wire.path = o.path /\ wire.fields = Fields(o) /\ wire.encoding = Encoded(o)
      /\ wire.body = Written(o) /\ wire.host = HostOf(o.path)
  BY DEF Sent
<1>15. wire.host = Target \/ Opens(Head(wire.path))
  BY <1>2, HostServed
<1>3. \A low \in Names(o) :
         OneLine(FieldAt(o, low).value) /\ (Templated(request) => NoTemplate(FieldAt(o, low).value))
  BY FieldValues
<1> HIDE DEF o
<1>4. \A low \in Names(o) : Lower[FieldAt(o, low).name] = low
  BY <1>1, FieldAtFacts
<1>5. \A low : NamedIn(o, low) = IF low \in Names(o) THEN {FieldAt(o, low)} ELSE {}
  BY <1>1, NamedFacts
<1>6. \A f \in wire.fields : OneLine(f.value) /\ Cardinality(NamedIn(o, Lower[f.name])) = 1
  <2>1. ASSUME NEW f \in Fields(o)
        PROVE  OneLine(f.value) /\ Cardinality(NamedIn(o, Lower[f.name])) = 1
    <3>1. PICK low \in Names(o) : f = FieldAt(o, low)
      BY <2>1, FieldsIs
    <3>2. NamedIn(o, Lower[f.name]) = {f}
      BY <1>4, <1>5, <3>1
    <3>3. Cardinality({f}) = 1
      BY FS_Singleton
    <3> QED BY <1>3, <3>1, <3>2, <3>3
  <2> QED BY <1>2, <2>1
<1>7. /\ \A f \in NamedIn(o, "host") : f.value = Target
      /\ NamedIn(o, "host") # {} /\ NamedIn(o, Marker(request)) # {}
  <2>1. Marker(request) = Marker(o)
    BY <1>1 DEF Marker
  <2>2. /\ "host" \in OwnNames(o) /\ Marker(o) \in OwnNames(o) /\ Own(o)["host"] = Target
    BY OwnFacts
  <2>3. "host" \in Names(o) /\ Marker(o) \in Names(o)
    BY <2>2 DEF Names
  <2>4. FieldAt(o, "host").value = Target
    BY <1>1, <2>2, <2>3, FieldAtFacts
  <2> QED BY <1>5, <2>1, <2>3, <2>4
<1>8. o.body.kind \in {"none", "string", "document"}
  BY <1>1 DEF Shaped
<1>9. (NamedIn(o, "content-length") # {}) = (wire.encoding # "none")
  <2>1. wire.encoding # "none" <=> o.body.kind # "none"
    BY <1>2, <1>8 DEF Encoded
  <2>2. NamedIn(o, "content-length") # {} <=> o.body.kind # "none"
    BY <1>5, OwnFacts
  <2> QED BY <2>1, <2>2
<1>10. wire.encoding = "form" => \A f \in NamedIn(o, "content-type") : f.value = <<"form">>
  <2> SUFFICES ASSUME wire.encoding = "form"
               PROVE  \A f \in NamedIn(o, "content-type") : f.value = <<"form">>
    OBVIOUS
  <2>1. "content-type" \in Folded(o) /\ LastOf(o, "content-type").value = <<"form">>
    BY <1>2, <1>8 DEF Encoded
  <2>2. "content-type" \in Names(o) /\ "content-type" \notin OwnNames(o)
    BY <2>1, OwnFacts DEF Names
  <2>3. FieldAt(o, "content-type").value = <<"form">>
    BY <1>1, <2>1, <2>2, FieldAtFacts
  <2> QED BY <1>5, <2>2, <2>3
<1>11. wire.encoding # "none" /\ request.route # "replay" => NamedIn(o, "content-type") # {}
  <2> SUFFICES ASSUME wire.encoding # "none", request.route # "replay"
               PROVE  NamedIn(o, "content-type") # {}
    OBVIOUS
  <2>1. o.body.kind # "none"
    BY <1>2 DEF Encoded
  <2>2. Types(o) # {}
    BY <1>1, <2>1
  <2>3. "content-type" \in Folded(o)
    BY <2>2 DEF Types, Folded
  <2>4. "content-type" \in Names(o)
    BY <2>3, OwnFacts DEF Names
  <2> QED BY <1>5, <2>4
<1>12. Templated(request) =>
          \A text \in {wire.path, wire.body} \cup {f.value : f \in wire.fields} : NoTemplate(text)
  <2> SUFFICES ASSUME Templated(request)
               PROVE  \A text \in {wire.path, wire.body} \cup {f.value : f \in wire.fields} :
                         NoTemplate(text)
    OBVIOUS
  <2>1. NoTemplate(wire.path) /\ NoTemplate(wire.body)
    BY <1>1, <1>2, WrittenFacts
  <2>2. \A f \in wire.fields : NoTemplate(f.value)
    BY <1>2, <1>3, FieldsIs
  <2> QED BY <2>1, <2>2
<1>13. \A low : {f \in wire.fields : Lower[f.name] = low} = NamedIn(o, low)
  BY <1>2 DEF NamedIn
<1>14. OneLine(wire.path)
  BY <1>1, <1>2
<1> HIDE DEF NamedIn
<1> QED BY <1>6, <1>7, <1>9, <1>10, <1>11, <1>12, <1>13, <1>14, <1>15, Zenon DEF OneCleanRequest, NoTemplate

(* Whatever was typed, saved, captured or put in a variable, what goes out *)
(* is one request, with no header twice and no line break or template left *)
(* in it; its request line names the instance's own host unless its path   *)
(* opens with double braces (sendViaProxy, resolveFields and               *)
(* validateRequestFields).                                                 *)
THEOREM CleanRequestHolds == ExchangeSpec => []OneCleanRequest
BY WireInvInit, WireInvNext, SentIsClean, PTL DEF ExchangeSpec

---------------------------------------------------------------------------
(* A replay without edits.                                                 *)

(* The type of the device's request is the last one of the replay.         *)
LEMMA TypeIsKept ==
    ASSUME NEW r, IsRequest(r), r.route = "replay", r.device.sent.type \in {"json", "form", "text"},
           \A j \in 1..Len(r.headers) : Lower[r.headers[j].name] # "content-type"
    PROVE  \E k \in 1..Len(Spelled(r)) :
              /\ Lower[Spelled(r)[k].name] = "content-type"
              /\ Spelled(r)[k].value = <<r.device.sent.type>>
              /\ \A j \in 1..Len(Spelled(r)) : Lower[Spelled(r)[j].name] = "content-type" => j <= k
<1> DEFINE device == r.device.headers
           type == r.device.sent.type
           n == Len(device)
           hs == Spelled(r)
<1>1. AreHeaders(r.headers) /\ IsDevice(r.device) /\ AreHeaders(device)
  BY FieldFacts, DeviceFacts
<1>2. DOMAIN device = 1..n
  <2>1. device = [k \in 1..n |-> device[k]]
    BY <1>1, HeadersFacts
  <2> HIDE DEF device
  <2> QED BY <2>1
<1>3. PICK k \in 1..n :
         /\ Lower[device[k].name] = "content-type" /\ device[k].value = <<type>>
         /\ \A j \in 1..n : Lower[device[j].name] = "content-type" => j <= k
  BY <1>1, <1>2, DeviceFacts
<1>4. /\ AreHeaders(hs) /\ n \in Nat /\ n <= Len(hs)
      /\ \A j \in 1..n :
            /\ Lower[hs[j].name] = Lower[device[j].name]
            /\ \/ hs[j].value = device[j].value
               \/ \E i \in 1..Len(r.headers) : r.headers[i].name = Lower[device[j].name]
      /\ \A j \in (n + 1)..Len(hs) : \E i \in 1..Len(r.headers) :
            Lower[hs[j].name] = Lower[r.headers[i].name]
  BY SpelledFacts
<1>5. Len(hs) \in Nat
  BY <1>4, HeadersFacts
<1>6. \A i \in 1..Len(r.headers) : r.headers[i].name # "content-type"
  <2>1. Lower["content-type"] = "content-type"
    BY LowerFacts
  <2> QED BY <2>1
<1> HIDE DEF hs, n, device, type
<1>7. hs[k].value = <<type>> /\ Lower[hs[k].name] = "content-type"
  BY <1>3, <1>4, <1>6
<1>8. \A j \in 1..Len(hs) : Lower[hs[j].name] = "content-type" => j <= k
  <2>1. \A j \in 1..Len(hs) : j \in 1..n \/ j \in (n + 1)..Len(hs)
    BY <1>4, <1>5
  <2>2. \A j \in (n + 1)..Len(hs) : Lower[hs[j].name] # "content-type"
    BY <1>4
  <2> QED BY <1>3, <1>4, <2>1, <2>2
<1>9. k \in 1..Len(hs)
  BY <1>4, <1>5
<1> QED BY <1>7, <1>8, <1>9 DEF hs, type

(* The last of the headers that resolve to one of them, in its place.      *)
LEMMA LastIs ==
    ASSUME NEW q, Shaped(q), NEW low, NEW k \in 1..Len(q.headers),
           Lower[q.headers[k].name] = low,
           \A j \in 1..Len(q.headers) : Lower[q.headers[j].name] = low => j <= k
    PROVE  low \in Folded(q) /\ LastOf(q, low) = q.headers[k]
<1>1. Len(q.headers) \in Nat /\ DOMAIN q.headers = 1..Len(q.headers)
  <2>1. Len(q.headers) \in Nat /\ q.headers = [j \in 1..Len(q.headers) |-> q.headers[j]]
    BY HeadersFacts DEF Shaped
  <2> QED BY <2>1
<1>2. low \in Folded(q)
  BY <1>1 DEF Folded
<1>3. PICK l \in 1..Len(q.headers) :
         /\ LastOf(q, low) = q.headers[l] /\ Lower[q.headers[l].name] = low
         /\ \A j \in 1..Len(q.headers) : Lower[q.headers[j].name] = low => j <= l
  BY <1>1, <1>2, LastFacts
<1>4. l = k
  BY <1>1, <1>3
<1> QED BY <1>2, <1>3, <1>4

(* What a replay with the device's body is resolved to.                    *)
LEMMA ReplayResolved ==
    ASSUME NEW r \in Requests, Served(r), r.route = "replay", r.body.kind = "absent",
           Claims(r.device.sent), r.device.sent.text # <<>>,
           \A j \in 1..Len(r.headers) : Lower[r.headers[j].name] # "content-type"
    PROVE  LET o == Resolved(r)
               sent == r.device.sent
           IN  /\ Shaped(o)
               /\ o.body.kind = IF sent.type = "text" THEN "string" ELSE "document"
               /\ o.body.text = IF Templated(r) THEN Resolve(sent.text, r.vars) ELSE sent.text
               /\ "[k]" \in Range(o.body.text) => "[k]" \in Range(sent.text)
               /\ "content-type" \in Folded(o)
               /\ LastOf(o, "content-type").value = <<sent.type>>
<1> DEFINE o == Resolved(r)
           q == Prepared(r)
           sent == r.device.sent
           n == Len(q.headers)
<1>1. IsRequest(r) /\ DOMAIN r = Keys
  BY RequestFacts
<1>2. /\ Shaped(q) /\ q.body = Merged(r).body /\ q.headers = Merged(r).headers
      /\ Templated(q) <=> Templated(r)
      /\ Templated(r) => q.vars = r.vars
      /\ Templated(q) /\ VariablesOk(q) => ValuesOk(q.vars)
  BY <1>1, PreparedFacts
<1>3. /\ VariablesOk(q) /\ (Templated(q) => AllResolvable(q)) /\ Lacking(r) = 0
      /\ o = IF Templated(q) THEN ResolveFields(q) ELSE q
  BY DEF Served, Resolved
<1>4. ~Truncated(sent)
  BY <1>3 DEF Lacking
<1>5. Merged(r).body = CapBody(sent) /\ Merged(r).headers = Spelled(r)
  BY <1>1, MergedIs
<1>6. CapBody(sent) = [kind |-> IF sent.type = "text" THEN "string" ELSE "document", text |-> sent.text]
  BY <1>4 DEF CapBody, Truncated
<1>7. sent.type \in {"json", "form", "text"}
  BY DEF Claims
<1>8. PICK k \in 1..n :
         /\ Lower[q.headers[k].name] = "content-type" /\ q.headers[k].value = <<sent.type>>
         /\ \A j \in 1..n : Lower[q.headers[j].name] = "content-type" => j <= k
  <2> DEFINE hs == Spelled(r)
             type == sent.type
  <2>1. q.headers = hs
    BY <1>2, <1>5
  <2>2. PICK k \in 1..Len(hs) :
           /\ Lower[hs[k].name] = "content-type" /\ hs[k].value = <<type>>
           /\ \A j \in 1..Len(hs) : Lower[hs[j].name] = "content-type" => j <= k
    BY <1>1, <1>7, TypeIsKept
  <2> HIDE DEF hs, q, type
  <2> QED BY <2>1, <2>2 DEF type
<1> HIDE DEF o, q, n, sent
<1>9. CASE ~Templated(q)
  <2>1. "content-type" \in Folded(q) /\ LastOf(q, "content-type") = q.headers[k]
    BY <1>2, <1>8, LastIs DEF n
  <2> QED BY <1>2, <1>3, <1>5, <1>6, <1>8, <1>9, <2>1 DEF o, sent
<1>10. CASE Templated(q)
  <2>1. /\ Shaped(o)
        /\ o.body = [q.body EXCEPT !.text = Resolve(@, q.vars)]
        /\ "[k]" \in Range(o.body.text) => "[k]" \in Range(q.body.text)
        /\ Len(o.headers) = n
        /\ \A j \in 1..n :
              /\ o.headers[j].name = q.headers[j].name
              /\ o.headers[j].value = Resolve(q.headers[j].value, q.vars)
    BY <1>2, <1>3, <1>10, ResolveFieldsFacts DEF n
  <2>2. /\ q.body.text = sent.text
        /\ q.body.kind = IF sent.type = "text" THEN "string" ELSE "document"
        /\ DOMAIN q.body = {"kind", "text"}
    BY <1>2, <1>5, <1>6
  <2>3. o.body.kind = q.body.kind /\ o.body.text = Resolve(sent.text, r.vars)
    BY <1>2, <1>10, <2>1, <2>2
  <2>4. Resolve(<<sent.type>>, q.vars) = <<sent.type>>
    BY <1>7, TemplateFacts, ResolveOne
  <2>5. "content-type" \in Folded(o) /\ LastOf(o, "content-type") = o.headers[k]
    BY <1>8, <2>1, LastIs
  <2>6. LastOf(o, "content-type").value = <<sent.type>>
    BY <1>8, <2>1, <2>4, <2>5
  <2> QED BY <1>2, <1>10, <2>1, <2>2, <2>3, <2>5, <2>6 DEF o, sent
<1> QED BY <1>9, <1>10

LEMMA ReplayIsAsSent == WireInv => ReplayedAsSent
<1> DEFINE sent == request.device.sent
           typed == {h \in Range(request.headers) : Lower[h.name] = "content-type"}
           o == Resolved(request)
<1> SUFFICES ASSUME request \in Requests, wire = Sent(request), Served(request),
                    request.route = "replay", request.body.kind = "absent", typed = {},
                    Claims(sent), sent.text # <<>>,
                    ~(sent.type = "form" /\ "[k]" \in Range(sent.text))
             PROVE  /\ wire.body = IF Templated(request) THEN Resolve(sent.text, request.vars)
                                   ELSE sent.text
                    /\ wire.encoding = IF sent.type = "text" THEN "string" ELSE sent.type
  BY Zenon DEF WireInv, ReplayedAsSent
<1>1. \A j \in 1..Len(request.headers) : Lower[request.headers[j].name] # "content-type"
  <2> DEFINE hs == request.headers
  <2>1. IsRequest(request) /\ AreHeaders(hs)
    BY RequestFacts, FieldFacts
  <2>2. hs = [k \in 1..Len(hs) |-> hs[k]]
    BY <2>1, HeadersFacts
  <2>3. \A h \in Range(hs) : Lower[h.name] # "content-type"
    OBVIOUS
  <2> HIDE DEF hs
  <2>4. \A j \in 1..Len(hs) : hs[j] \in Range(hs)
    BY <2>2 DEF Range
  <2> QED BY <2>3, <2>4 DEF hs
<1>2. /\ Shaped(o)
      /\ o.body.kind = IF sent.type = "text" THEN "string" ELSE "document"
      /\ o.body.text = IF Templated(request) THEN Resolve(sent.text, request.vars) ELSE sent.text
      /\ "[k]" \in Range(o.body.text) => "[k]" \in Range(sent.text)
      /\ "content-type" \in Folded(o)
      /\ LastOf(o, "content-type").value = <<sent.type>>
  BY <1>1, ReplayResolved
<1>3. wire.encoding = Encoded(o) /\ wire.body = Written(o)
  BY DEF Sent
<1>4. sent.type \in {"json", "form", "text"}
  BY DEF Claims
<1> HIDE DEF o, sent
<1>5. Encoded(o) = IF sent.type = "text" THEN "string" ELSE sent.type
  <2>1. <<sent.type>> = <<"form">> <=> sent.type = "form"
    OBVIOUS
  <2> QED BY <1>2, <1>4, <2>1 DEF Encoded
<1>6. Encoded(o) # "form" \/ "[k]" \notin Range(o.body.text)
  BY <1>2, <1>4, <1>5 DEF sent
<1>7. Written(o) = o.body.text
  BY <1>2, <1>6, WrittenFacts
<1> QED BY <1>2, <1>3, <1>5, <1>7 DEF sent

(* A replay that edits neither the body nor the type sends the body of the *)
(* device, all of it and in its own encoding, or is refused (the replay    *)
(* route, with what requestLog keeps of a body).                           *)
THEOREM ReplayHolds == ExchangeSpec => []ReplayedAsSent
BY WireInvInit, WireInvNext, ReplayIsAsSent, PTL DEF ExchangeSpec
=============================================================================
