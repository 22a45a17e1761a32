--------------------------- MODULE BlockingProofs ---------------------------
(***************************************************************************)
(* Theorems about block rules and the suites that set them, for any paths, *)
(* any number of suites and mocks, and any bounds.                         *)
(*                                                                         *)
(* Covering is a partial order in which the rules above a path form a      *)
(* chain.  So a set of rules none of which is dead has one rule at most    *)
(* for a path, and adding a rule kills what was killed before and what the *)
(* rule kills, although it takes out the rules it covers.                  *)
(*                                                                         *)
(* That a frame restores what it found needs a strengthening: half-way     *)
(* through, the rules still to be lifted and still to be put back account  *)
(* for the difference, and the frames beneath the innermost are all in     *)
(* their bodies, so that a return uncovers a frame that promises nothing   *)
(* yet.                                                                    *)
(*                                                                         *)
(* The end is about MockFiles, where the mocks that suites switch on are   *)
(* kept: for any files, contents and instances.  A rename rewrites a file  *)
(* once for each of its mocks, and what each has done is not undone by     *)
(* those after it.                                                         *)
(***************************************************************************)
EXTENDS TestSuites, MockFiles, SequenceTheorems, WellFoundedInduction, TLAPS

---------------------------------------------------------------------------
(* Sequences flattened and minima.  An induction is an argument about the  *)
(* least number that refutes the claim.                                    *)

LEMMA HasLeast ==
    ASSUME NEW S, S \subseteq Nat, S # {}
    PROVE  \E k \in S : \A j \in S : k <= j
<1>1. PICK k \in S : \A j \in S : ~(<<j, k>> \in OpToRel(<, Nat))
  BY NatLessThanWellFounded, WFMin
<1>2. ASSUME NEW j \in S PROVE k <= j
  <2>1. j \in Nat /\ k \in Nat
    OBVIOUS
  <2>2. <<j, k>> \in Nat \X Nat /\ <<j, k>>[1] = j /\ <<j, k>>[2] = k
    BY <2>1
  <2>3. ~(j < k)
    BY <1>1, <2>2, Zenon DEF OpToRel
  <2> QED BY <2>1, <2>3
<1> QED BY <1>2

(* A set of numbers with 0 and with the successor of each of its members   *)
(* below top holds all of them up to top.                                  *)
LEMMA Climb ==
    ASSUME NEW top \in Nat, NEW S, 0 \in S,
           \A n \in 0..top : n > 0 /\ n - 1 \in S => n \in S
    PROVE  0..top \subseteq S
<1> DEFINE B == (0..top) \ S
<1>1. SUFFICES ASSUME B # {} PROVE FALSE
  OBVIOUS
<1>2. PICK k \in B : \A j \in B : k <= j
  <2>1. B \subseteq Nat
    OBVIOUS
  <2> HIDE DEF B
  <2> QED BY <1>1, <2>1, HasLeast
<1>3. k \in 0..top /\ k \notin S /\ k > 0
  BY <1>2
<1>4. k - 1 \in 0..top /\ k - 1 \notin B
  BY <1>2, <1>3
<1> QED BY <1>3, <1>4

(* The table of the sequences flattened so far.                            *)
Flattened(seqs, f) ==
    f = [i \in 1..Len(seqs) |-> IF i = 1 THEN seqs[i] ELSE f[i - 1] \o seqs[i]]

LEMMA FlattenedExists ==
    ASSUME NEW seqs, Len(seqs) \in Nat PROVE \E f : Flattened(seqs, f)
<1> DEFINE Good(m, f) == f = [i \in 1..m |-> IF i = 1 THEN seqs[i] ELSE f[i - 1] \o seqs[i]]
           S == {m \in Nat : \E f : Good(m, f)}
<1>1. 0 \in S
  <2>1. Good(0, [i \in 1..0 |-> 0])
    OBVIOUS
  <2> HIDE DEF Good
  <2> QED BY <2>1
<1>2. ASSUME NEW m \in 0..Len(seqs), m > 0, m - 1 \in S PROVE m \in S
  <2>1. PICK f : Good(m - 1, f)
    BY <1>2
  <2> DEFINE last == IF m = 1 THEN seqs[m] ELSE f[m - 1] \o seqs[m]
             g == [i \in 1..m |-> IF i = m THEN last ELSE f[i]]
  <2>2. m \in Nat /\ m - 1 \in Nat
    BY <1>2
  <2>3. \A i \in 1..(m - 1) : f[i] = IF i = 1 THEN seqs[i] ELSE f[i - 1] \o seqs[i]
    BY <2>1
  <2>4. \A i \in 1..m : g[i] = IF i = 1 THEN seqs[i] ELSE g[i - 1] \o seqs[i]
    BY <1>2, <2>2, <2>3
  <2>5. Good(m, g)
    BY <2>4
  <2> HIDE DEF Good
  <2> QED BY <2>2, <2>5
<1>3. Len(seqs) \in S
  <2> HIDE DEF S
  <2>1. 0..Len(seqs) \subseteq S
    BY <1>1, <1>2, Climb
  <2> QED BY <2>1
<1> QED BY <1>3 DEF Flattened

LEMMA JoinHas ==
    ASSUME NEW T, NEW s \in Seq(T), NEW t \in Seq(T)
    PROVE  s \o t \in Seq(T) /\ \A x : x \in Range(s \o t) <=> x \in Range(s) \/ x \in Range(t)
<1>1. /\ s \o t \in Seq(T) /\ DOMAIN (s \o t) = 1..(Len(s) + Len(t))
      /\ Len(s) \in Nat /\ Len(t) \in Nat /\ DOMAIN s = 1..Len(s) /\ DOMAIN t = 1..Len(t)
      /\ \A k \in 1..Len(s) : (s \o t)[k] = s[k]
      /\ \A k \in 1..Len(t) : (s \o t)[Len(s) + k] = t[k]
  OBVIOUS
<1>2. ASSUME NEW x, x \in Range(s \o t) PROVE x \in Range(s) \/ x \in Range(t)
  <2>1. PICK k \in 1..(Len(s) + Len(t)) : x = (s \o t)[k]
    BY <1>1, <1>2 DEF Range
  <2>2. CASE k <= Len(s)
    BY <1>1, <2>1, <2>2 DEF Range
  <2>3. CASE k > Len(s)
    <3>1. k - Len(s) \in 1..Len(t) /\ Len(s) + (k - Len(s)) = k
      BY <1>1, <2>1, <2>3
    <3>2. x = t[k - Len(s)]
      BY <1>1, <2>1, <3>1
    <3> QED BY <1>1, <3>1, <3>2 DEF Range
  <2> QED BY <1>1, <2>1, <2>2, <2>3
<1>3. ASSUME NEW x, x \in Range(s) \/ x \in Range(t) PROVE x \in Range(s \o t)
  <2>1. CASE x \in Range(s)
    BY <1>1, <2>1 DEF Range
  <2>2. CASE x \in Range(t)
    <3>1. PICK k \in 1..Len(t) : x = t[k]
      BY <1>1, <2>2 DEF Range
    <3>2. Len(s) + k \in 1..(Len(s) + Len(t))
      BY <1>1
    <3> QED BY <1>1, <3>1, <3>2 DEF Range
  <2> QED BY <1>3, <2>1, <2>2
<1> QED BY <1>1, <1>2, <1>3

(* The flattened sequence has what is in the sequences. *)
LEMMA FlattenHas ==
    ASSUME NEW T, NEW seqs \in Seq(Seq(T))
    PROVE  /\ FlattenSeq(seqs) \in Seq(T)
           /\ \A x : x \in Range(FlattenSeq(seqs)) <=> \E i \in 1..Len(seqs) : x \in Range(seqs[i])
<1>1. CASE Len(seqs) = 0
  <2>1. seqs = <<>> /\ FlattenSeq(seqs) = <<>>
    BY <1>1 DEF FlattenSeq
  <2>2. <<>> \in Seq(T) /\ Range(<<>>) = {}
    BY DEF Range
  <2>3. FlattenSeq(seqs) \in Seq(T) /\ Range(FlattenSeq(seqs)) = {}
    BY <2>1, <2>2
  <2>4. 1..Len(seqs) = {}
    BY <1>1
  <2> QED BY <2>3, <2>4
<1>2. CASE Len(seqs) # 0
  <2> DEFINE f == CHOOSE f : Flattened(seqs, f)
             Holds(i) == /\ f[i] \in Seq(T)
                         /\ \A x : x \in Range(f[i]) <=> \E k \in 1..i : x \in Range(seqs[k])
             S == {0} \cup {i \in 1..Len(seqs) : Holds(i)}
  <2>1. Len(seqs) \in Nat \ {0} /\ \A i \in 1..Len(seqs) : seqs[i] \in Seq(T)
    BY <1>2
  <2>2. Flattened(seqs, f)
    BY <2>1, FlattenedExists
  <2>3. FlattenSeq(seqs) = f[Len(seqs)]
    BY <1>2 DEF FlattenSeq, Flattened
  <2> HIDE DEF f
  <2>4. \A i \in 1..Len(seqs) : f[i] = IF i = 1 THEN seqs[i] ELSE f[i - 1] \o seqs[i]
    BY <2>2 DEF Flattened
  <2>5. ASSUME NEW n \in 0..Len(seqs), n > 0, n - 1 \in S PROVE n \in S
    <3>1. n \in 1..Len(seqs) /\ seqs[n] \in Seq(T)
      BY <2>1, <2>5
    <3>2. CASE n = 1
      <4>1. f[n] = seqs[1] /\ 1..n = {1}
        BY <2>4, <3>1, <3>2
      <4>2. Holds(n)
        BY <3>1, <3>2, <4>1
      <4> QED BY <3>1, <4>2
    <3>3. CASE n # 1
      <4>1. n - 1 # 0 /\ n \in Nat /\ 1..n = (1..(n - 1)) \cup {n}
        BY <3>1, <3>3
      <4>2. Holds(n - 1)
        BY <2>5, <4>1
      <4>3. f[n] = f[n - 1] \o seqs[n]
        BY <2>4, <3>1, <3>3
      <4>4. f[n] \in Seq(T) /\ \A x : x \in Range(f[n]) <=> x \in Range(f[n - 1]) \/ x \in Range(seqs[n])
        BY <3>1, <4>2, <4>3, JoinHas
      <4>5. Holds(n)
        BY <4>1, <4>2, <4>4
      <4> QED BY <3>1, <4>5
    <3> QED BY <3>2, <3>3
  <2>6. 0..Len(seqs) \subseteq S
    <3>1. 0 \in S
      OBVIOUS
    <3> HIDE DEF S
    <3> QED BY <2>1, <2>5, <3>1, Climb
  <2>7. Len(seqs) \in S /\ Len(seqs) # 0
    <3>1. Len(seqs) \in 0..Len(seqs) /\ Len(seqs) # 0
      BY <2>1
    <3> HIDE DEF S
    <3> QED BY <2>6, <3>1
  <2>8. Holds(Len(seqs))
    BY <2>7
  <2> HIDE DEF S
  <2> QED BY <2>3, <2>8
<1> QED BY <1>1, <1>2

LEMMA MinIsLeast ==
    ASSUME NEW S, S \subseteq Nat, S # {}
    PROVE  Min(S) \in S /\ \A k \in S : Min(S) <= k
<1>1. \E x \in S : \A y \in S : x <= y
  BY HasLeast
<1> QED BY <1>1 DEF Min

USE BlockingAssumption, TestSuitesAssumption DEF screen

---------------------------------------------------------------------------
(* Covering. *)

LEMMA CoversTransitive ==
    ASSUME NEW p \in Path, NEW q \in Path, NEW r \in Path, Covers(p, q), Covers(q, r)
    PROVE  Covers(p, r)
<1> p \in Seq(Segment) /\ q \in Seq(Segment) /\ r \in Seq(Segment)
  OBVIOUS
<1>1. CASE p = q
  BY <1>1
<1>2. CASE q = r
  BY <1>2
<1>3. CASE p # q /\ q # r
  <2>1. p # <<>> /\ StartsWith(q, p) /\ StartsWith(r, q)
    BY <1>3 DEF Covers
  <2>2. Len(p) < Len(r) /\ \A i \in 1..Len(p) : r[i] = p[i]
    BY <2>1 DEF StartsWith
  <2> QED
    BY <2>1, <2>2 DEF Covers, StartsWith
<1> QED
  BY <1>1, <1>2, <1>3

(* Two rules that kill the same path cover one another, one way or the     *)
(* other.                                                                  *)
LEMMA CoversChain ==
    ASSUME NEW p \in Path, NEW q \in Path, NEW r \in Path, Covers(p, r), Covers(q, r)
    PROVE  Covers(p, q) \/ Covers(q, p)
<1> p \in Seq(Segment) /\ q \in Seq(Segment) /\ r \in Seq(Segment)
  OBVIOUS
<1>1. CASE p = r \/ q = r
  BY <1>1
<1>2. CASE p # r /\ q # r
  <2>1. p # <<>> /\ q # <<>> /\ StartsWith(r, p) /\ StartsWith(r, q)
    BY <1>2 DEF Covers
  <2>2. CASE Len(p) < Len(q)
    BY <2>1, <2>2 DEF Covers, StartsWith
  <2>3. CASE Len(q) < Len(p)
    BY <2>1, <2>3 DEF Covers, StartsWith
  <2>4. CASE Len(p) = Len(q)
    <3>1. \A i \in 1..Len(p) : p[i] = q[i]
      BY <2>1, <2>4 DEF StartsWith
    <3>2. p = q
      BY <3>1, <2>4, SeqEqual
    <3> QED
      BY <3>2 DEF Covers
  <2> QED
    BY <2>2, <2>3, <2>4, LenProperties
<1> QED
  BY <1>1, <1>2

(* In a lean set at most one rule kills a path. *)
LEMMA LeanUnique ==
    ASSUME NEW R \in SUBSET Path, Lean(R), NEW p \in R, NEW q \in R, NEW r \in Path,
           Covers(p, r), Covers(q, r)
    PROVE  p = q
BY CoversChain DEF Lean

(* A path that is killed has a most specific rule that kills it, dead      *)
(* rules or not: no rule that kills it is longer than the path.            *)
LEMMA CoveringFound ==
    ASSUME NEW R \in SUBSET Path, NEW p \in Path, IsBlocked(p, R)
    PROVE  BlockCovering(p, R) \in R /\ Covers(BlockCovering(p, R), p)
<1> DEFINE own == {r \in R : Covers(r, p)}
           left == {Len(p) - Len(r) : r \in own}
<1>1. \A r \in own : r \in R /\ Covers(r, p) /\ Len(r) \in Nat /\ Len(p) \in Nat /\ Len(r) <= Len(p)
  <2> TAKE r \in own
  <2>1. r \in Seq(Segment) /\ p \in Seq(Segment)
    OBVIOUS
  <2>2. Len(r) \in Nat /\ Len(p) \in Nat
    BY <2>1, LenProperties
  <2> QED BY <2>2 DEF Covers, StartsWith
<1>2. left \subseteq Nat /\ left # {}
  <2>1. own # {}
    BY DEF IsBlocked
  <2> HIDE DEF own
  <2> QED BY <1>1, <2>1
<1>3. PICK k \in left : \A j \in left : k <= j
  <2> HIDE DEF left
  <2> QED BY <1>2, HasLeast
<1>4. PICK rule \in own : k = Len(p) - Len(rule)
  BY <1>3
<1>5. \A r \in own : Len(r) <= Len(rule)
  <2> TAKE r \in own
  <2>1. k <= Len(p) - Len(r)
    BY <1>3
  <2> HIDE DEF own, left
  <2> QED BY <1>1, <1>4, <2>1
<1>6. \E rule0 \in R : /\ Covers(rule0, p)
                       /\ \A r \in R : Covers(r, p) => Len(r) <= Len(rule0)
  BY <1>4, <1>5
<1> HIDE DEF own, left
<1> QED
  BY <1>6 DEF BlockCovering

---------------------------------------------------------------------------
(* Adding and removing. *)

LEMMA AddKeepsLean ==
    ASSUME NEW R, NEW p, Lean(R)
    PROVE  Lean(AddBlock(R, p))
BY DEF Lean, AddBlock, IsBlocked

LEMMA RemoveKeepsLean ==
    ASSUME NEW R, NEW p, Lean(R)
    PROVE  Lean(RemoveBlock(R, p))
BY DEF Lean, RemoveBlock

LEMMA AddInPath ==
    ASSUME NEW R \in SUBSET Path, NEW p \in Path
    PROVE  AddBlock(R, p) \in SUBSET Path
BY DEF AddBlock

(* What is killed after a rule is added: what was, and what it kills.  The *)
(* rules it takes out, or that made it unnecessary, change nothing.        *)
LEMMA AddExact ==
    ASSUME NEW R \in SUBSET Path, NEW p \in Path, NEW t \in Path
    PROVE  IsBlocked(t, AddBlock(R, p)) <=> IsBlocked(t, R) \/ Covers(p, t)
<1>1. CASE IsBlocked(p, R)
  <2>1. PICK r \in R : Covers(r, p)
    BY <1>1 DEF IsBlocked
  <2>2. Covers(p, t) => Covers(r, t)
    BY <2>1, CoversTransitive
  <2> QED
    BY <1>1, <2>2 DEF AddBlock, IsBlocked
<1>2. CASE ~ IsBlocked(p, R)
  <2>1. AddBlock(R, p) = {rule \in R : ~ Covers(p, rule)} \cup {p}
    BY <1>2 DEF AddBlock
  <2>2. ASSUME NEW r \in R, Covers(r, t), Covers(p, r)
        PROVE  Covers(p, t)
    BY <2>2, CoversTransitive
  <2> QED
    BY <2>1, <2>2 DEF IsBlocked
<1> QED
  BY <1>1, <1>2

---------------------------------------------------------------------------
(* The invariant of the suites. *)

(* The frames: one that is still to set its rule has a rule to set. *)
Frame ==
    {f \in BlockFrame \cup MockFrame :
        f.kind = "block" /\ f.at \in {"look", "set"} => f.path \in Path}

Typed ==
    /\ rules \in SUBSET Path /\ shown \in SUBSET Path /\ ssl \in BOOLEAN
    /\ toggle \in [Mock -> State]
    /\ stack \in [Suite -> Seq(Frame)]
    /\ calm \subseteq Suite \X {"block", "mock"}
    /\ calls \in 0..MaxCalls /\ outside \in 0..MaxOutside

(* The open menu is of one row, killed by the rule it names when it was    *)
(* opened.                                                                 *)
MenuOK ==
    /\ \A row \in menu : row \in Row /\ (row.by = NoRule \/ Covers(row.by, row.path))
    /\ \A r, q \in menu : r = q

(* Only the innermost frame is anywhere but in its body. *)
Beneath ==
    \A s \in Suite : \A i \in 1..(Len(stack[s]) - 1) : stack[s][i].at = "body"

(* What a frame that is putting things back has still to do makes up for   *)
(* what the host kills and did not, or did and does not.                   *)
Kept(s, f) ==
    /\ f.kind = "block" /\ f.at \in {"restore", "done"} /\ <<s, "block">> \in calm
          => Kills((rules \ f.lift) \cup f.put) = Kills(f.before)
    /\ f.kind = "block" /\ f.at = "done" => f.lift = {} /\ f.put = {}
    /\ f.kind = "mock" /\ f.at = "done" /\ <<s, "mock">> \in calm
          => ((toggle[f.mock] = "on") <=> (f.before = "on"))

Promises == \A s \in Suite : In(s) => Kept(s, Top(s))

SuitesInv == Typed /\ Beneath /\ Promises
WithMenu == SuitesInv /\ MenuOK

LEMMA TypedIsTypeOK == Typed /\ MenuOK => TypeOK
<1>1. Seq(Frame) \subseteq Seq(BlockFrame \cup MockFrame)
  BY DEF Frame
<1> QED
  BY <1>1 DEF Typed, MenuOK, TypeOK

---------------------------------------------------------------------------
(* The stacks. *)

LEMMA TopTyped ==
    ASSUME stack \in [Suite -> Seq(Frame)], NEW s \in Suite, In(s)
    PROVE  Top(s) \in Frame
BY LenProperties DEF In, Top

LEMMA StackBecomes ==
    ASSUME stack \in [Suite -> Seq(Frame)], Beneath, NEW s \in Suite, In(s),
           NEW f \in Frame, Becomes(s, f)
    PROVE  /\ stack' \in [Suite -> Seq(Frame)]
           /\ Beneath'
           /\ In(s)' /\ Top(s)' = f
           /\ \A t \in Suite \ {s} : stack'[t] = stack[t]
<1> DEFINE n == Len(stack[s])
           new == [stack[s] EXCEPT ![n] = f]
<1>1. n \in Nat /\ n >= 1 /\ stack[s] \in Seq(Frame)
  BY LenProperties DEF In
<1>2. new \in Seq(Frame) /\ Len(new) = n
  BY <1>1, ExceptSeq
<1>3. new[n] = f /\ \A i \in 1..(n - 1) : new[i] = stack[s][i]
  BY <1>1
<1>4. stack' = [stack EXCEPT ![s] = new]
  BY DEF Becomes
<1>5. stack'[s] = new /\ \A t \in Suite \ {s} : stack'[t] = stack[t]
  BY <1>4
<1>6. stack' \in [Suite -> Seq(Frame)]
  BY <1>2, <1>4
<1> HIDE DEF new
<1>7. \A i \in 1..(Len(stack'[s]) - 1) : stack'[s][i].at = "body"
  BY <1>2, <1>3, <1>5 DEF Beneath
<1>8. Beneath'
  BY <1>5, <1>7 DEF Beneath
<1>9. In(s)' /\ Top(s)' = f
  BY <1>1, <1>2, <1>3, <1>5 DEF In, Top
<1> QED
  BY <1>5, <1>6, <1>8, <1>9

LEMMA StackLeaves ==
    ASSUME stack \in [Suite -> Seq(Frame)], Beneath, NEW s \in Suite, In(s), Leaves(s)
    PROVE  /\ stack' \in [Suite -> Seq(Frame)]
           /\ Beneath'
           /\ In(s)' => Top(s)'.at = "body"
           /\ \A t \in Suite \ {s} : stack'[t] = stack[t]
<1> DEFINE n == Len(stack[s])
           new == SubSeq(stack[s], 1, n - 1)
<1>1. n \in Nat /\ n >= 1 /\ stack[s] \in Seq(Frame)
  BY LenProperties DEF In
<1>2. new \in Seq(Frame) /\ Len(new) = n - 1 /\ \A i \in 1..(n - 1) : new[i] = stack[s][i]
  <2>1. \A i \in 1..(n - 1) : i \in 1..Len(stack[s])
    BY <1>1
  <2>2. new \in Seq(Frame)
    BY <1>1, <2>1, SubSeqProperties
  <2>3. Len(new) = n - 1
    <3>1. n - 1 \in Int /\ 1 \in Int /\ \A i \in 1..(n - 1) : stack[s][i] \in Frame
      BY <1>1, <2>1
    <3>2. Len(new) = IF 1 <= n - 1 THEN (n - 1) - 1 + 1 ELSE 0
      BY <3>1, SubSeqProperties
    <3> HIDE DEF new, n
    <3> QED
      BY <1>1, <3>2
  <2>4. \A i \in 1..(n - 1) : new[i] = stack[s][i]
    BY <1>1
  <2> QED
    BY <2>2, <2>3, <2>4
<1>3. stack' = [stack EXCEPT ![s] = new]
  BY DEF Leaves
<1>4. stack'[s] = new /\ \A t \in Suite \ {s} : stack'[t] = stack[t]
  BY <1>3
<1>5. stack' \in [Suite -> Seq(Frame)]
  BY <1>2, <1>3
<1> HIDE DEF new
<1>6. \A i \in 1..(n - 1) : stack'[s][i].at = "body"
  BY <1>2, <1>4 DEF Beneath
<1>7. Beneath'
  BY <1>1, <1>2, <1>4, <1>6 DEF Beneath
<1>8. In(s)' => Top(s)'.at = "body"
  BY <1>1, <1>2, <1>4, <1>6, EmptySeq DEF In, Top
<1> QED
  BY <1>4, <1>5, <1>7, <1>8

LEMMA StackOpens ==
    ASSUME stack \in [Suite -> Seq(Frame)], Beneath, NEW s \in Suite,
           NEW f \in Frame, Opens(s, f)
    PROVE  /\ stack' \in [Suite -> Seq(Frame)]
           /\ Beneath'
           /\ In(s)' /\ Top(s)' = f
           /\ \A t \in Suite \ {s} : stack'[t] = stack[t]
<1> DEFINE n == Len(stack[s])
           new == Append(stack[s], f)
<1>1. n \in Nat /\ stack[s] \in Seq(Frame)
  BY LenProperties
<1>2. new \in Seq(Frame) /\ Len(new) = n + 1 /\ new[n + 1] = f
      /\ \A i \in 1..n : new[i] = stack[s][i]
  BY <1>1, AppendProperties
<1>3. stack' = [stack EXCEPT ![s] = new] /\ (In(s) => Top(s).at = "body")
  BY DEF Opens
<1>4. stack'[s] = new /\ \A t \in Suite \ {s} : stack'[t] = stack[t]
  BY <1>3
<1>5. stack' \in [Suite -> Seq(Frame)]
  BY <1>2, <1>3
<1> HIDE DEF new
<1>6. \A i \in 1..n : stack[s][i].at = "body"
  BY <1>1, <1>3, EmptySeq DEF Beneath, In, Top
<1>7. Beneath'
  BY <1>1, <1>2, <1>4, <1>6 DEF Beneath
<1>8. In(s)' /\ Top(s)' = f
  BY <1>1, <1>2, <1>4 DEF In, Top
<1> QED
  BY <1>4, <1>5, <1>7, <1>8

---------------------------------------------------------------------------
(* What the promises of the others need of a step.                         *)

LEMMA DisturbedBy ==
    ASSUME NEW kind, NEW by, NEW t, NEW k, <<t, k>> \in Disturbed(kind, by)
    PROVE  <<t, k>> \in calm /\ (k # kind \/ t \in by)
BY DEF Disturbed

LEMMA OthersKeep ==
    ASSUME Promises, NEW s \in Suite,
           \A t \in Suite \ {s} : stack'[t] = stack[t],
           \A t \in Suite \ {s} : \A k \in {"block", "mock"} :
              <<t, k>> \in calm' => <<t, k>> \in calm,
           rules' = rules \/ \A t \in Suite \ {s} : <<t, "block">> \notin calm',
           toggle' = toggle \/ \A t \in Suite \ {s} : <<t, "mock">> \notin calm',
           In(s)' => Kept(s, Top(s))'
    PROVE  Promises'
<1>1. ASSUME NEW t \in Suite \ {s}, In(t)'
      PROVE  Kept(t, Top(t))'
  <2>1. In(t) /\ Top(t)' = Top(t)
    BY <1>1 DEF In, Top
  <2>2. Kept(t, Top(t))
    BY <2>1 DEF Promises
  <2>3. QED
    BY <2>1, <2>2 DEF Kept
<1> QED
  BY <1>1 DEF Promises

(* Nobody's frame moves, and whoever's things were written is disturbed.   *)
LEMMA OutsideKeeps ==
    ASSUME SuitesInv, UNCHANGED stack,
           calm' \subseteq calm,
           rules' = rules \/ \A t \in Suite :
              <<t, "block">> \in calm' => In(t) /\ Top(t).at = "body",
           toggle' = toggle \/ \A t \in Suite : <<t, "mock">> \notin calm'
    PROVE  Beneath' /\ Promises'
<1>1. Beneath'
  BY DEF SuitesInv, Beneath
<1>2. ASSUME NEW t \in Suite, In(t)'
      PROVE  Kept(t, Top(t))'
  <2>1. In(t) /\ Top(t)' = Top(t)
    BY <1>2 DEF In, Top
  <2>2. Kept(t, Top(t))
    BY <2>1 DEF SuitesInv, Promises
  <2>3. QED
    BY <2>1, <2>2 DEF Kept
<1> QED
  BY <1>1, <1>2 DEF Promises

---------------------------------------------------------------------------
(* The initial states. *)

LEMMA SuitesInit == Init => WithMenu
<1> SUFFICES ASSUME Init PROVE SuitesInv
  BY DEF Init, MenuOK, WithMenu
<1>1. Typed
  BY EmptySeq DEF Init, Typed
<1>2. \A s \in Suite : stack[s] = <<>>
  BY DEF Init
<1>3. Beneath
  BY <1>2 DEF Beneath
<1>4. Promises
  BY <1>2 DEF Promises, In
<1> QED
  BY <1>1, <1>3, <1>4 DEF SuitesInv

---------------------------------------------------------------------------
(* The steps of a frame. *)

(* A step that moves the innermost frame, writes no rule and no mock, and  *)
(* leaves everybody as calm as they were. *)
LEMMA LooksKeep ==
    ASSUME SuitesInv, NEW s \in Suite, In(s), NEW f \in Frame, Becomes(s, f),
           Kept(s, f), UNCHANGED <<rules, ssl, toggle, shown, calm, calls, outside>>
    PROVE  SuitesInv'
<1>1. /\ stack' \in [Suite -> Seq(Frame)] /\ Beneath' /\ Top(s)' = f
      /\ \A t \in Suite \ {s} : stack'[t] = stack[t]
  BY StackBecomes DEF SuitesInv, Typed
<1>2. Typed'
  BY <1>1 DEF SuitesInv, Typed
<1>3. Kept(s, Top(s))'
  BY <1>1 DEF Kept, Kills
<1>4. Promises'
  BY <1>1, <1>3, OthersKeep DEF SuitesInv
<1> QED
  BY <1>1, <1>2, <1>4 DEF SuitesInv

LEMMA OpenKeeps ==
    ASSUME SuitesInv, NEW s \in Suite, NEW f \in Frame, Opens(s, f),
           f.at \notin {"restore", "done"},
           UNCHANGED <<rules, ssl, toggle, shown, calm, outside>>
    PROVE  SuitesInv'
<1>1. /\ stack' \in [Suite -> Seq(Frame)] /\ Beneath' /\ Top(s)' = f
      /\ \A t \in Suite \ {s} : stack'[t] = stack[t]
  BY StackOpens DEF SuitesInv, Typed
<1>2. Typed'
  BY <1>1 DEF SuitesInv, Typed, Opens
<1>3. Kept(s, Top(s))'
  BY <1>1 DEF Kept
<1>4. Promises'
  BY <1>1, <1>3, OthersKeep DEF SuitesInv
<1> QED
  BY <1>1, <1>2, <1>4 DEF SuitesInv

(* A frame that is left uncovers one that is in its body, whoever is       *)
(* disturbed by its last call.                                             *)
LEMMA LeaveKeeps ==
    ASSUME SuitesInv, NEW s \in Suite, In(s), Leaves(s),
           rules' \in SUBSET Path, toggle' \in [Mock -> State], calm' \subseteq calm,
           rules' = rules \/ \A t \in Suite \ {s} : <<t, "block">> \notin calm',
           toggle' = toggle \/ \A t \in Suite \ {s} : <<t, "mock">> \notin calm',
           UNCHANGED <<ssl, shown, calls, outside>>
    PROVE  SuitesInv'
<1>1. /\ stack' \in [Suite -> Seq(Frame)] /\ Beneath'
      /\ In(s)' => Top(s)'.at = "body"
      /\ \A t \in Suite \ {s} : stack'[t] = stack[t]
  BY StackLeaves DEF SuitesInv, Typed
<1>2. Typed'
  BY <1>1 DEF SuitesInv, Typed
<1>3. In(s)' => Kept(s, Top(s))'
  BY <1>1 DEF Kept
<1>4. Promises'
  BY <1>1, <1>3, OthersKeep DEF SuitesInv
<1> QED
  BY <1>1, <1>2, <1>4 DEF SuitesInv

(* The frame writes, and goes on.                                          *)
LEMMA WriteKeeps ==
    ASSUME SuitesInv, NEW s \in Suite, In(s), NEW f \in Frame, Becomes(s, f),
           rules' \in SUBSET Path, toggle' \in [Mock -> State],
           calm' \subseteq Suite \X {"block", "mock"},
           \A t \in Suite \ {s} : \A k \in {"block", "mock"} :
              <<t, k>> \in calm' => <<t, k>> \in calm,
           rules' = rules \/ \A t \in Suite \ {s} : <<t, "block">> \notin calm',
           toggle' = toggle \/ \A t \in Suite \ {s} : <<t, "mock">> \notin calm',
           Top(s)' = f => Kept(s, Top(s))',
           UNCHANGED <<ssl, shown, calls, outside>>
    PROVE  SuitesInv'
<1>1. /\ stack' \in [Suite -> Seq(Frame)] /\ Beneath' /\ Top(s)' = f
      /\ \A t \in Suite \ {s} : stack'[t] = stack[t]
  BY StackBecomes DEF SuitesInv, Typed
<1>2. Typed'
  BY <1>1 DEF SuitesInv, Typed
<1>4. Promises'
  BY <1>1, OthersKeep DEF SuitesInv
<1> QED
  BY <1>1, <1>2, <1>4 DEF SuitesInv

---------------------------------------------------------------------------
(* The steps that write rules. *)

LEMMA PostInPath ==
    ASSUME rules \in SUBSET Path, NEW p \in Path, NEW blocked, PostBlock(p, blocked)
    PROVE  rules' \in SUBSET Path
<1>1. AddBlock(rules, p) \in SUBSET Path
  BY AddInPath
<1>2. RemoveBlock(rules, p) \in SUBSET Path
  BY DEF RemoveBlock
<1> QED
  BY <1>1, <1>2 DEF PostBlock

(* Putting back a rule that is to be put back, whatever it takes out or is *)
(* covered by, leaves the same account.                                    *)
LEMMA PutBackAccount ==
    ASSUME NEW R \in SUBSET Path, NEW P \in SUBSET Path, NEW rule \in P
    PROVE  Kills((AddBlock(R, rule) \ {}) \cup (P \ {rule})) = Kills((R \ {}) \cup P)
<1> DEFINE after == (AddBlock(R, rule) \ {}) \cup (P \ {rule})
           to == (R \ {}) \cup P
<1>1. ASSUME NEW t \in Path
      PROVE  IsBlocked(t, after) <=> IsBlocked(t, to)
  <2>1. IsBlocked(t, AddBlock(R, rule)) <=> IsBlocked(t, R) \/ Covers(rule, t)
    BY AddExact
  <2>2. IsBlocked(t, after) <=> IsBlocked(t, AddBlock(R, rule)) \/ IsBlocked(t, P \ {rule})
    BY DEF IsBlocked
  <2>3. IsBlocked(t, to) <=> IsBlocked(t, R) \/ Covers(rule, t) \/ IsBlocked(t, P \ {rule})
    BY DEF IsBlocked
  <2> QED
    BY <2>1, <2>2, <2>3
<1> QED
  BY <1>1 DEF Kills

LEMMA SuiteStepKeeps ==
    ASSUME SuitesInv, NEW s \in Suite, SuiteStep(s)
    PROVE  SuitesInv'
<1> rules \in SUBSET Path /\ toggle \in [Mock -> State]
    /\ stack \in [Suite -> Seq(Frame)] /\ calm \subseteq Suite \X {"block", "mock"}
  BY DEF SuitesInv, Typed
<1> DEFINE f == Top(s)
<1>top. In(s) => f \in Frame /\ Kept(s, f)
  BY TopTyped DEF SuitesInv, Promises
<1>calm. \A kind, t, k : <<t, k>> \in Disturbed(kind, {s})
            => <<t, k>> \in calm /\ (k # kind \/ t = s)
  BY DisturbedBy
<1>sub. \A kind, by : Disturbed(kind, by) \subseteq calm
  BY DEF Disturbed
<1>1. ASSUME NEW p \in Path, WithBlock(s, p) PROVE SuitesInv'
  <2> DEFINE g == [kind |-> "block", path |-> p, before |-> {}, lift |-> {},
                   put |-> {}, at |-> "look"]
  <2>1. g \in Frame /\ g.at \notin {"restore", "done"}
    BY DEF Frame, BlockFrame
  <2> QED
    BY <1>1, <2>1, OpenKeeps DEF WithBlock
<1>2. ASSUME ClearBlocks(s) PROVE SuitesInv'
  <2> DEFINE g == [kind |-> "block", path |-> NoRule, before |-> {}, lift |-> {},
                   put |-> {}, at |-> "compare"]
  <2>1. g \in Frame /\ g.at \notin {"restore", "done"}
    BY DEF Frame, BlockFrame
  <2> QED
    BY <1>2, <2>1, OpenKeeps DEF ClearBlocks
<1>3. ASSUME NEW m \in Mock, NEW to \in {"on", "off"}, WithMock(s, m, to) PROVE SuitesInv'
  <2> DEFINE g == [kind |-> "mock", mock |-> m, to |-> to, before |-> "unset", at |-> "look"]
  <2>1. g \in Frame /\ g.at \notin {"restore", "done"}
    BY DEF Frame, MockFrame, State
  <2> QED
    BY <1>3, <2>1, OpenKeeps DEF WithMock
<1>4. ASSUME ListBefore(s) PROVE SuitesInv'
  <2> DEFINE g == [f EXCEPT !.before = HostBlocks, !.at = "set"]
  <2>1. In(s) /\ f \in BlockFrame /\ f.path \in Path /\ Becomes(s, g)
    BY <1>4, <1>top DEF ListBefore, Is, Frame, MockFrame
  <2>2. g \in Frame /\ Kept(s, g)
    BY <2>1 DEF Frame, BlockFrame, HostBlocks, Kept
  <2> QED
    BY <1>4, <2>1, <2>2, LooksKeep DEF ListBefore
<1>5. ASSUME Block(s) PROVE SuitesInv'
  <2> DEFINE g == [f EXCEPT !.at = "body"]
  <2>1. In(s) /\ f \in BlockFrame /\ f.path \in Path /\ PostBlock(f.path, TRUE)
        /\ calm' = Disturbed("block", {s}) /\ UNCHANGED <<ssl, toggle, shown, calls, outside>>
    BY <1>5, <1>top DEF Block, Is, Frame, MockFrame
  <2>2. rules' \in SUBSET Path
    BY <2>1, PostInPath
  <2>3. CASE Throws(s)
    BY <1>5, <1>calm, <1>sub, <2>1, <2>2, <2>3, LeaveKeeps DEF Block
  <2>4. CASE ~ Throws(s)
    <3>1. g \in Frame /\ g.at = "body" /\ Becomes(s, g)
      BY <1>5, <2>1, <2>4 DEF Block, Moves, Frame, BlockFrame
    <3>2. Top(s)' = g => Kept(s, Top(s))'
      BY <3>1 DEF Kept
    <3> HIDE DEF g, f
    <3>3. /\ toggle' \in [Mock -> State] /\ calm' \subseteq calm
          /\ \A t \in Suite \ {s} : <<t, "block">> \notin calm'
      BY <1>calm, <1>sub, <2>1
    <3> QED
      BY <2>1, <2>2, <3>1, <3>2, <3>3, WriteKeeps
  <2> QED
    BY <2>3, <2>4
<1>6. ASSUME EndBody(s) PROVE SuitesInv'
  <2> DEFINE g == [f EXCEPT !.at = IF f.kind = "block" THEN "compare" ELSE "restore"]
  <2>1. In(s) /\ f \in Frame /\ f.at = "body" /\ Becomes(s, g)
    BY <1>6, <1>top DEF EndBody, Moves
  <2>2. g \in Frame
    BY <2>1 DEF Frame, BlockFrame, MockFrame
  <2>3. Kept(s, g)
    BY <2>1 DEF Kept, Frame, BlockFrame, MockFrame
  <2> QED
    BY <1>6, <2>1, <2>2, <2>3, LooksKeep DEF EndBody
<1>7. ASSUME ListAfter(s) PROVE SuitesInv'
  <2> DEFINE before == f.before
             g == [f EXCEPT !.lift = HostBlocks \ before, !.put = before \ HostBlocks,
                            !.at = IF HostBlocks = before THEN "done" ELSE "restore"]
  <2>1. In(s) /\ f \in BlockFrame /\ Becomes(s, g) /\ calm' = calm \cup {<<s, "block">>}
        /\ UNCHANGED <<rules, ssl, toggle, shown, calls, outside>>
    BY <1>7, <1>top DEF ListAfter, Is, Frame, MockFrame
  <2>2. g \in Frame
    BY <2>1 DEF Frame, BlockFrame, HostBlocks
  <2>3. /\ g.kind = "block" /\ g.before = before
        /\ (rules \ g.lift) \cup g.put = before
        /\ g.at = "done" => g.lift = {} /\ g.put = {}
    BY <2>1 DEF BlockFrame, HostBlocks
  <2> HIDE DEF g
  <2>4. Top(s)' = g => Kept(s, Top(s))'
    BY <2>1, <2>3 DEF Kept
  <2> QED
    BY <2>1, <2>2, <2>4, WriteKeeps
<1>8. ASSUME NEW rule \in Path, Lift(s, rule) PROVE SuitesInv'
  <2> DEFINE g == [f EXCEPT !.lift = f.lift \ {rule}, !.put = f.put,
                     !.at = IF f.lift \ {rule} = {} /\ f.put = {} THEN "done" ELSE "restore"]
  <2>1. In(s) /\ f \in BlockFrame /\ f.at = "restore" /\ rule \in f.lift /\ Becomes(s, g)
        /\ PostBlock(rule, FALSE) /\ calm' = Disturbed("block", {s})
        /\ UNCHANGED <<ssl, toggle, shown, calls, outside>>
    BY <1>8, <1>top DEF Lift, Restoring, Is, Frame, MockFrame
  <2>2. g \in Frame /\ g.kind = "block" /\ g.before = f.before
        /\ g.lift = f.lift \ {rule} /\ g.put = f.put
        /\ (g.at = "done" => g.lift = {} /\ g.put = {})
    BY <2>1 DEF Frame, BlockFrame
  <2>3. rules' \in SUBSET Path
    BY <2>1, PostInPath
  <2>4. (rules' \ g.lift) \cup g.put = (rules \ f.lift) \cup f.put
    <3>1. rules' = rules \ {rule}
      BY <2>1 DEF PostBlock, RemoveBlock
    <3> HIDE DEF g
    <3> QED
      BY <2>1, <2>2, <3>1
  <2>5. <<s, "block">> \in calm' => Kills((rules \ f.lift) \cup f.put) = Kills(f.before)
    BY <1>top, <1>calm, <2>1 DEF Kept, BlockFrame
  <2> HIDE DEF g
  <2>6. Top(s)' = g => Kept(s, Top(s))'
    BY <2>2, <2>4, <2>5 DEF Kept
  <2> QED
    BY <1>calm, <1>sub, <2>1, <2>2, <2>3, <2>6, WriteKeeps
<1>9. ASSUME NEW rule \in Path, PutBack(s, rule) PROVE SuitesInv'
  <2> DEFINE g == [f EXCEPT !.lift = {}, !.put = f.put \ {rule},
                     !.at = IF {} = {} /\ f.put \ {rule} = {} THEN "done" ELSE "restore"]
  <2>1. In(s) /\ f \in BlockFrame /\ f.at = "restore" /\ f.lift = {} /\ rule \in f.put
        /\ PostBlock(rule, TRUE) /\ calm' = Disturbed("block", {s})
        /\ UNCHANGED <<ssl, toggle, shown, calls, outside>>
    BY <1>9, <1>top DEF PutBack, Is, Frame, MockFrame
  <2>2. g \in Frame /\ g.kind = "block" /\ g.before = f.before
        /\ g.lift = {} /\ g.put = f.put \ {rule}
        /\ (g.at = "done" => g.put = {})
    BY <2>1 DEF Frame, BlockFrame
  <2>3. rules' \in SUBSET Path
    BY <2>1, PostInPath
  <2>4. Kills((rules' \ g.lift) \cup g.put) = Kills((rules \ f.lift) \cup f.put)
    <3>1. rules' = AddBlock(rules, rule) /\ f.put \in SUBSET Path
      BY <2>1 DEF PostBlock, BlockFrame
    <3> HIDE DEF g
    <3>2. Kills((AddBlock(rules, rule) \ {}) \cup (f.put \ {rule}))
            = Kills((rules \ {}) \cup f.put)
      BY <2>1, <3>1, PutBackAccount
    <3> QED
      BY <2>1, <2>2, <3>1, <3>2
  <2>5. <<s, "block">> \in calm' => Kills((rules \ f.lift) \cup f.put) = Kills(f.before)
    BY <1>top, <1>calm, <2>1 DEF Kept, BlockFrame
  <2>6. CASE Throws(s)
    BY <1>9, <1>calm, <1>sub, <2>1, <2>3, <2>6, LeaveKeeps DEF PutBack
  <2>7. CASE ~ Throws(s)
    <3>1. Becomes(s, g)
      BY <1>9, <2>7 DEF PutBack, Restoring
    <3> HIDE DEF g
    <3>2. Top(s)' = g => Kept(s, Top(s))'
      BY <2>2, <2>4, <2>5 DEF Kept
    <3> QED
      BY <1>calm, <1>sub, <2>1, <2>2, <2>3, <3>1, <3>2, WriteKeeps
  <2> QED
    BY <2>6, <2>7
<1>10. ASSUME GetState(s) PROVE SuitesInv'
  <2> DEFINE g == [f EXCEPT !.before = toggle[f.mock], !.at = "set"]
  <2>1. In(s) /\ f \in MockFrame /\ Becomes(s, g)
    BY <1>10, <1>top DEF GetState, Is, Frame, BlockFrame
  <2>2. g \in Frame /\ Kept(s, g)
    BY <2>1 DEF Frame, MockFrame, Kept
  <2> QED
    BY <1>10, <2>1, <2>2, LooksKeep DEF GetState
<1>11. ASSUME SetMock(s) PROVE SuitesInv'
  <2> DEFINE g == [f EXCEPT !.at = "body"]
  <2>1. In(s) /\ f \in MockFrame /\ PostToggle(f.mock, f.to) /\ Becomes(s, g)
        /\ calm' = Disturbed("mock", {s}) /\ UNCHANGED <<rules, ssl, shown, calls, outside>>
    BY <1>11, <1>top DEF SetMock, Moves, Is, Frame, BlockFrame
  <2>2. g \in Frame /\ g.at = "body"
    BY <2>1 DEF Frame, MockFrame
  <2>3. toggle' \in [Mock -> State]
    BY <2>1 DEF PostToggle, MockFrame, State
  <2>4. Top(s)' = g => Kept(s, Top(s))'
    BY <2>2 DEF Kept
  <2> HIDE DEF g
  <2> QED
    BY <1>calm, <1>sub, <2>1, <2>2, <2>3, <2>4, WriteKeeps
<1>12. ASSUME ResetMock(s) PROVE SuitesInv'
  <2> DEFINE g == [f EXCEPT !.at = "done"]
  <2>1. In(s) /\ f \in MockFrame /\ PostToggle(f.mock, Prior(f.before)) /\ Becomes(s, g)
        /\ calm' = Disturbed("mock", {s}) \cup {<<s, "mock">>}
        /\ UNCHANGED <<rules, ssl, shown, calls, outside>>
    BY <1>12, <1>top DEF ResetMock, Moves, Is, Frame, BlockFrame
  <2>2. /\ g \in Frame /\ g.kind = "mock" /\ g.mock = f.mock /\ g.before = f.before
        /\ g.mock \in Mock /\ g.before \in State
    BY <2>1 DEF Frame, MockFrame
  <2>3. toggle' \in [Mock -> State]
    BY <2>1 DEF PostToggle, MockFrame, Prior, State
  <2>4. (toggle'[g.mock] = "on") <=> (g.before = "on")
    BY <2>1, <2>2 DEF PostToggle, Prior
  <2> HIDE DEF g
  <2>5. Top(s)' = g => Kept(s, Top(s))'
    BY <2>2, <2>4 DEF Kept
  <2>6. calm' \subseteq Suite \X {"block", "mock"}
    BY <1>sub, <2>1
  <2> QED
    BY <1>calm, <2>1, <2>2, <2>3, <2>5, <2>6, WriteKeeps
<1>13. ASSUME Return(s) PROVE SuitesInv'
  BY <1>13, LeaveKeeps DEF Return
<1>14. ASSUME CallFails(s) PROVE SuitesInv'
  <2>1. In(s) /\ f \in Frame /\ Effect(s) /\ Leaves(s)
        /\ calm' = Disturbed(f.kind, {s}) /\ UNCHANGED <<ssl, shown, calls, outside>>
    BY <1>14, <1>top DEF CallFails
  <2>2. CASE UNCHANGED <<rules, toggle>>
    BY <1>calm, <1>sub, <2>1, <2>2, LeaveKeeps
  <2>3. CASE f.kind = "block" /\ UNCHANGED toggle
             /\ \E p \in Path, blocked \in BOOLEAN : PostBlock(p, blocked)
    <3>1. rules' \in SUBSET Path
      BY <2>3, PostInPath
    <3> QED
      BY <1>calm, <1>sub, <2>1, <2>3, <3>1, LeaveKeeps
  <2>4. CASE f.kind = "mock" /\ UNCHANGED rules
             /\ \E m \in Mock, to \in State : PostToggle(m, to)
    <3>1. toggle' \in [Mock -> State]
      BY <2>4 DEF PostToggle
    <3>2. rules' \in SUBSET Path
      BY <2>4
    <3>3. In(s) /\ Leaves(s) /\ f.kind = "mock" /\ calm' = Disturbed("mock", {s})
          /\ UNCHANGED <<ssl, shown, calls, outside>> /\ UNCHANGED rules
      BY <2>1, <2>4
    <3> QED
      BY ZenonT(60), <1>calm, <1>sub, <3>1, <3>2, <3>3, LeaveKeeps
  <2>5. CASE f.kind = "block" /\ f.at = "set" /\ PostBlock(f.path, TRUE) /\ UNCHANGED toggle
    BY <2>1, <2>3, <2>5 DEF Frame
  <2>6. CASE /\ f.kind = "block" /\ UNCHANGED toggle
             /\ \/ \E rule \in f.lift : PostBlock(rule, FALSE)
                \/ f.lift = {} /\ \E rule \in f.put : PostBlock(rule, TRUE)
    <3>1. f.lift \subseteq Path /\ f.put \subseteq Path
      BY <2>1, <2>6 DEF Frame, BlockFrame, MockFrame
    <3> QED
      BY <2>3, <2>6, <3>1
  <2>7. CASE f.kind = "mock" /\ PostToggle(f.mock, f.to) /\ UNCHANGED rules
    BY <2>1, <2>4, <2>7 DEF Frame, BlockFrame, MockFrame, State
  <2>8. CASE f.kind = "mock" /\ PostToggle(f.mock, Prior(f.before)) /\ UNCHANGED rules
    <3>1. f.mock \in Mock /\ Prior(f.before) \in State
      BY <2>1, <2>8 DEF Frame, BlockFrame, MockFrame, Prior, State
    <3> QED
      BY <2>4, <2>8, <3>1
  <2> QED
    BY <2>1, <2>2, <2>5, <2>6, <2>7, <2>8 DEF Effect
<1>15. ASSUME NEW p \in Path, NEW blocked \in BOOLEAN, BodyCalls(s, p, blocked)
       PROVE  SuitesInv'
  <2>1. In(s) /\ f.at = "body" /\ PostBlock(p, blocked) /\ calm' = Disturbed("block", {s})
        /\ outside < MaxOutside /\ outside' = outside + 1
        /\ UNCHANGED <<stack, calls, ssl, toggle, shown>>
    BY <1>15 DEF BodyCalls, Outside, Writes
  <2>2. rules' \in SUBSET Path
    BY <2>1, PostInPath
  <2>3. Typed'
    BY <1>sub, <2>1, <2>2 DEF SuitesInv, Typed
  <2>4. /\ calm' \subseteq calm
        /\ \A t \in Suite : <<t, "block">> \in calm' => In(t) /\ Top(t).at = "body"
    <3>1. \A t \in Suite : <<t, "block">> \in calm' => t = s
      BY <1>calm, <2>1
    <3> QED
      BY <1>sub, <2>1, <3>1
  <2>5. Beneath' /\ Promises'
    BY <2>1, <2>4, OutsideKeeps
  <2> QED
    BY <2>3, <2>5 DEF SuitesInv
<1> QED
  BY <1>1, <1>2, <1>3, <1>4, <1>5, <1>6, <1>7, <1>8, <1>9, <1>10, <1>11, <1>12, <1>13,
     <1>14, <1>15 DEF SuiteStep

---------------------------------------------------------------------------
(* Everybody else's steps. *)

LEMMA OthersStepKeeps ==
    ASSUME SuitesInv,
           \/ \E raw : CmdBlock(raw) \/ CmdUnblock(raw)
           \/ \E m \in Mock, to \in {"on", "off"} : Toggled(m, to)
           \/ SetSsl \/ ForgetHost \/ Show
           \/ CloseMenu \/ \E p \in Path : OpenMenu(p)
           \/ \E row \in Row : Fire(row)
    PROVE  SuitesInv'
<1> rules \in SUBSET Path /\ shown \in SUBSET Path /\ toggle \in [Mock -> State]
    /\ calm \subseteq Suite \X {"block", "mock"}
    /\ outside \in 0..MaxOutside /\ MaxOutside \in Nat
  BY DEF SuitesInv, Typed
<1>calm. \A kind, t, k : <<t, k>> \in Disturbed(kind, {}) => <<t, k>> \in calm /\ k # kind
  BY DisturbedBy
<1>sub. \A kind, by : Disturbed(kind, by) \subseteq calm
  BY DEF Disturbed
<1>write. ASSUME NEW p \in Path, NEW blocked \in BOOLEAN, PostBlock(p, blocked), Writes,
                 calm' = Disturbed("block", {}), shown' \in SUBSET Path,
                 UNCHANGED <<ssl, toggle>>
          PROVE  SuitesInv'
  <2>1. rules' \in SUBSET Path
    BY <1>write, PostInPath
  <2>2. Typed'
    BY <1>write, <1>sub, <2>1 DEF SuitesInv, Typed, Outside, Writes
  <2>3. calm' \subseteq calm /\ \A t \in Suite : <<t, "block">> \notin calm'
    BY <1>write, <1>calm, <1>sub
  <2>4. Beneath' /\ Promises'
    BY <1>write, <2>3, OutsideKeeps DEF Outside, Writes
  <2> QED
    BY <2>2, <2>4 DEF SuitesInv
<1>1. ASSUME NEW raw, NEW blocked \in BOOLEAN, Commanded(raw, blocked) PROVE SuitesInv'
  BY <1>1, <1>write DEF Commanded, Outside
<1>2. ASSUME NEW m \in Mock, NEW to \in {"on", "off"}, Toggled(m, to) PROVE SuitesInv'
  <2>1. Typed'
    BY <1>2, <1>sub DEF Toggled, PostToggle, Outside, Writes, SuitesInv, Typed, State
  <2>2. calm' \subseteq calm /\ \A t \in Suite : <<t, "mock">> \notin calm'
    BY <1>2, <1>calm, <1>sub DEF Toggled
  <2>3. Beneath' /\ Promises'
    BY <1>2, <2>2, OutsideKeeps DEF Toggled, Outside, Writes
  <2> QED
    BY <2>1, <2>3 DEF SuitesInv
<1>3. ASSUME SetSsl PROVE SuitesInv'
  <2>1. outside' \in 0..MaxOutside
    BY <1>3 DEF SetSsl, Outside, Writes
  <2>2. ssl' \in BOOLEAN
    BY <1>3 DEF SetSsl
  <2>3. Typed'
    <3>1. UNCHANGED <<rules, toggle, shown, calm, stack, calls>>
      BY <1>3 DEF SetSsl, Outside, Writes
    <3> QED
      BY <2>1, <2>2, <3>1 DEF SuitesInv, Typed
  <2>4. Beneath' /\ Promises'
    BY <1>3, OutsideKeeps DEF SetSsl, Outside, Writes
  <2> QED
    BY <2>3, <2>4 DEF SuitesInv
<1>4. ASSUME ForgetHost PROVE SuitesInv'
  <2>1. Typed'
    <3>1. rules' \in SUBSET Path /\ outside' \in 0..MaxOutside
      BY <1>4 DEF ForgetHost, Outside, Writes
    <3>2. ssl' \in BOOLEAN
      BY <1>4 DEF ForgetHost
    <3>3. calm' \subseteq calm
      BY <1>4, <1>sub DEF ForgetHost
    <3>4. UNCHANGED <<toggle, shown, stack, calls>>
      BY <1>4 DEF ForgetHost, Outside, Writes
    <3> QED
      BY <3>1, <3>2, <3>3, <3>4 DEF SuitesInv, Typed
  <2>2. calm' \subseteq calm /\ \A t \in Suite : <<t, "block">> \notin calm'
    BY <1>4, <1>calm, <1>sub DEF ForgetHost
  <2>3. Beneath' /\ Promises'
    BY <1>4, <2>2, OutsideKeeps DEF ForgetHost, Outside, Writes
  <2> QED
    BY <2>1, <2>3 DEF SuitesInv
<1>5. ASSUME Show PROVE SuitesInv'
  <2>1. Typed'
    BY <1>5 DEF Show, SuitesInv, Typed
  <2>2. Beneath' /\ Promises'
    BY <1>5, OutsideKeeps DEF Show
  <2> QED
    BY <2>1, <2>2 DEF SuitesInv
<1>6. ASSUME NEW row \in Row, Fire(row) PROVE SuitesInv'
  <2>1. /\ Writes /\ PostBlock(Offered(row), row.by = NoRule) /\ shown' = rules'
        /\ calm' = Disturbed("block", {}) /\ UNCHANGED <<ssl, toggle>>
    BY <1>6 DEF Fire
  <2>2. Offered(row) \in Path /\ (row.by = NoRule) \in BOOLEAN
    BY DEF Offered, Row
  <2>3. rules' \in SUBSET Path
    BY <2>1, <2>2, PostInPath
  <2> QED
    BY <2>1, <2>2, <2>3, <1>write
<1>7. ASSUME CloseMenu \/ \E p \in Path : OpenMenu(p) PROVE SuitesInv'
  <2>1. UNCHANGED <<rules, ssl, toggle, shown, stack, calm, calls, outside>>
    BY <1>7 DEF CloseMenu, OpenMenu
  <2>2. Typed'
    BY <2>1 DEF SuitesInv, Typed
  <2>3. Beneath' /\ Promises'
    BY <2>1, OutsideKeeps
  <2> QED
    BY <2>2, <2>3 DEF SuitesInv
<1> QED
  <2>1. CASE \E raw : CmdBlock(raw) \/ CmdUnblock(raw)
    BY <2>1, <1>1 DEF CmdBlock, CmdUnblock
  <2> QED
    BY <2>1, <1>2, <1>3, <1>4, <1>5, <1>6, <1>7

(* The menu: opened on a row as the tree has it, or left, or closed.       *)
LEMMA MenuStep == Typed /\ MenuOK /\ [Next]_vars => MenuOK'
<1> SUFFICES ASSUME Typed, MenuOK, [Next]_vars PROVE MenuOK'
  OBVIOUS
<1>1. ASSUME menu' = menu \/ menu' = {} PROVE MenuOK'
  BY <1>1 DEF MenuOK
<1>2. ASSUME NEW p \in Path, OpenMenu(p) PROVE MenuOK'
  <2>1. menu' = {[path |-> p, by |-> BlockedBy(p)]}
    BY <1>2 DEF OpenMenu
  <2>2. shown \in SUBSET Path
    BY DEF Typed
  <2>3. BlockedBy(p) = NoRule \/ (BlockedBy(p) \in Path /\ Covers(BlockedBy(p), p))
    BY <2>2, CoveringFound DEF BlockedBy, BlockCovering
  <2> QED
    BY <2>1, <2>3 DEF MenuOK, Row
<1>3. ASSUME NEW s \in Suite, SuiteStep(s) PROVE menu' = menu \/ menu' = {}
  BY <1>3 DEF SuiteStep, WithBlock, ClearBlocks, WithMock, ListBefore, Block, EndBody, ListAfter,
     Lift, PutBack, GetState, SetMock, ResetMock, Return, CallFails, BodyCalls, Outside
<1>4. ASSUME \/ \E raw : CmdBlock(raw) \/ CmdUnblock(raw)
             \/ \E m \in Mock, to \in {"on", "off"} : Toggled(m, to)
             \/ SetSsl \/ ForgetHost \/ Show \/ CloseMenu
             \/ \E row \in menu : Fire(row)
      PROVE  menu' = menu \/ menu' = {}
  BY <1>4 DEF CmdBlock, CmdUnblock, Commanded, Toggled, SetSsl, ForgetHost, Show, CloseMenu, Fire,
     Outside
<1>5. CASE UNCHANGED vars
  BY <1>1, <1>5 DEF vars
<1> QED
  BY <1>1, <1>2, <1>3, <1>4, <1>5 DEF Next

LEMMA SuitesNext == WithMenu /\ [Next]_vars => WithMenu'
<1> SUFFICES ASSUME SuitesInv, MenuOK, [Next]_vars PROVE SuitesInv'
  BY MenuStep DEF WithMenu, SuitesInv
<1>1. CASE UNCHANGED vars
  <2>1. Typed' /\ Beneath'
    BY <1>1 DEF vars, SuitesInv, Typed, Beneath
  <2>2. Promises'
    BY <1>1 DEF vars, SuitesInv, Promises, In, Top, Kept
  <2> QED
    BY <2>1, <2>2 DEF SuitesInv
<1>2. CASE Next
  <2>1. \A row \in menu : row \in Row
    BY DEF MenuOK
  <2> QED BY <1>2, <2>1, SuiteStepKeeps, OthersStepKeeps DEF Next
<1> QED
  BY <1>1, <1>2

(* Every variable keeps its type: the rules are paths, a frame that is to  *)
(* set a rule has one, and a suite is in frames of the two kinds.          *)
THEOREM SuitesTypeCorrect == Spec => []TypeOK
<1>1. WithMenu => TypeOK
  BY TypedIsTypeOK DEF SuitesInv, WithMenu
<1> QED
  BY <1>1, SuitesInit, SuitesNext, PTL DEF Spec

(* What withBlock, clearBlocks and withMock promise: a frame that came to  *)
(* its end leaves the host killing, and the mock answering, what it did    *)
(* before, however frames nest and whatever their bodies did, unless       *)
(* another wrote while it put things back.                                 *)
THEOREM FramesRestore == Spec => []SuiteRestores
<1>1. WithMenu => SuiteRestores
  <2> SUFFICES ASSUME SuitesInv, NEW s \in Suite, In(s), Top(s).at = "done",
                      <<s, Top(s).kind>> \in calm
               PROVE  IF Top(s).kind = "block" THEN Kills(rules) = Kills(Top(s).before)
                      ELSE (toggle[Top(s).mock] = "on") = (Top(s).before = "on")
    BY DEF SuiteRestores, WithMenu
  <2>1. Kept(s, Top(s)) /\ Top(s) \in Frame
    BY TopTyped DEF SuitesInv, Promises, Typed
  <2>2. CASE Top(s).kind = "block"
    <3>1. Kills((rules \ Top(s).lift) \cup Top(s).put) = Kills(Top(s).before)
          /\ Top(s).lift = {} /\ Top(s).put = {}
      BY <2>1, <2>2 DEF Kept
    <3>2. (rules \ {}) \cup {} = rules
      OBVIOUS
    <3> QED
      BY <2>2, <3>1, <3>2
  <2>3. CASE Top(s).kind = "mock"
    BY <2>1, <2>3 DEF Kept
  <2> QED
    BY <2>1, <2>2, <2>3 DEF Frame, BlockFrame, MockFrame
<1> QED
  BY <1>1, SuitesInit, SuitesNext, PTL DEF Spec

---------------------------------------------------------------------------
(* Lean rules. *)

LEMMA PostKeepsLean ==
    ASSUME NEW p, NEW blocked, PostBlock(p, blocked), Lean(rules)
    PROVE  Lean(rules')
BY AddKeepsLean, RemoveKeepsLean DEF PostBlock

(* No call of the server, whoever makes it and with whichever path, leaves *)
(* a rule that another one covers where there was none.                    *)
THEOREM CallsKeepLean == Spec => StaysLean
<1>1. ASSUME Next, Lean(rules)
      PROVE  Lean(rules')
  <2>1. ASSUME NEW s \in Suite, SuiteStep(s)
        PROVE  Lean(rules')
    <3>1. \/ rules' = rules \/ \E p, blocked : PostBlock(p, blocked)
      BY <2>1 DEF SuiteStep, WithBlock, ClearBlocks, WithMock, ListBefore, Block, EndBody,
         ListAfter, Lift, PutBack, GetState, SetMock, ResetMock, Return, CallFails, Effect,
         BodyCalls
    <3> QED
      BY <1>1, <3>1, PostKeepsLean
  <2>2. ASSUME \/ \E raw : CmdBlock(raw) \/ CmdUnblock(raw)
               \/ \E row \in menu : Fire(row)
        PROVE  Lean(rules')
    <3>1. \E p, blocked : PostBlock(p, blocked)
      BY <2>2 DEF CmdBlock, CmdUnblock, Commanded, Fire
    <3> QED
      BY <1>1, <3>1, PostKeepsLean
  <2>3. ASSUME \/ \E m \in Mock, to \in {"on", "off"} : Toggled(m, to)
               \/ SetSsl \/ Show \/ CloseMenu
               \/ \E p \in Path : OpenMenu(p)
        PROVE  Lean(rules')
    BY <1>1, <2>3 DEF Toggled, SetSsl, Show, CloseMenu, OpenMenu
  <2>4. ASSUME ForgetHost PROVE Lean(rules')
    BY <2>4 DEF ForgetHost, Lean
  <2> QED
    BY <1>1, <2>1, <2>2, <2>3, <2>4 DEF Next
<1>2. [Next]_vars => [Lean(rules) => Lean(rules')]_vars
  BY <1>1
<1> QED
  BY <1>2, PTL DEF Spec, StaysLean

(* What is killed once a rule is lifted from lean rules: what no other     *)
(* rule killed lives again, and no other rule killed what it did.          *)
LEMMA LiftRevives ==
    ASSUME NEW R \in SUBSET Path, Lean(R), NEW rule \in R
    PROVE  Kills(RemoveBlock(R, rule)) = {q \in Kills(R) : ~ Covers(rule, q)}
<1>1. ASSUME NEW q \in Path
      PROVE  IsBlocked(q, R \ {rule}) <=> IsBlocked(q, R) /\ ~ Covers(rule, q)
  <2>1. ASSUME NEW r \in R, Covers(r, q), Covers(rule, q) PROVE r = rule
    BY <2>1, LeanUnique
  <2> QED BY <2>1 DEF IsBlocked
<1> QED
  BY <1>1 DEF Kills, RemoveBlock

(* Of a menu that is open, whenever its item is clicked.                   *)
LEMMA FireTurns ==
    ASSUME rules \in SUBSET Path, MenuOK, NEW row \in menu, Fire(row)
    PROVE  IF row.by = NoRule
           THEN Kills(rules) \cup {row.path} \subseteq Kills(rules')
           ELSE Lean(rules) =>
                  IF row.by \in rules
                  THEN /\ Kills(rules') = {q \in Kills(rules) : ~ Covers(row.by, q)}
                       /\ row.path \notin Kills(rules')
                  ELSE Kills(rules') = Kills(rules)
<1>1. PostBlock(Offered(row), row.by = NoRule)
  BY DEF Fire
<1>2. row \in Row /\ row.path \in Path /\ (row.by = NoRule \/ Covers(row.by, row.path))
  BY DEF MenuOK, Row
<1>3. CASE row.by = NoRule
  <2>1. rules' = AddBlock(rules, row.path)
    BY <1>1, <1>3 DEF PostBlock, Offered
  <2>2. \A q \in Path : IsBlocked(q, rules') <=> IsBlocked(q, rules) \/ Covers(row.path, q)
    BY <1>2, <2>1, AddExact
  <2>3. Covers(row.path, row.path)
    BY DEF Covers
  <2> QED
    BY <1>2, <1>3, <2>2, <2>3 DEF Kills
<1>4. CASE row.by # NoRule
  <2>1. rules' = RemoveBlock(rules, row.by)
    BY <1>1, <1>4 DEF PostBlock, Offered
  <2>2. CASE row.by \in rules
    <3>1. Lean(rules) => Kills(rules') = {q \in Kills(rules) : ~ Covers(row.by, q)}
      BY <2>1, <2>2, LiftRevives
    <3> QED
      BY <1>2, <1>4, <2>2, <3>1
  <2>3. CASE row.by \notin rules
    <3>1. rules' = rules
      BY <2>1, <2>3 DEF RemoveBlock
    <3> QED
      BY <1>4, <2>3, <3>1
  <2> QED
    BY <2>2, <2>3
<1> QED
  BY <1>3, <1>4

(* A menu does what it said, whenever its item is clicked and whatever was *)
(* written since it was opened (blockMenuItem in modules/hosts.js, whose   *)
(* node modules/contextmenu.js keeps).                                     *)
THEOREM ClicksWork == Spec => ClickWorks
<1>1. WithMenu /\ [Next]_vars =>
        [\A row \in menu : outside' # outside /\ Fire(row) =>
          IF row.by = NoRule
          THEN Kills(rules) \cup {row.path} \subseteq Kills(rules')
          ELSE Lean(rules) =>
                 IF row.by \in rules
                 THEN /\ Kills(rules') = {q \in Kills(rules) : ~ Covers(row.by, q)}
                      /\ row.path \notin Kills(rules')
                 ELSE Kills(rules') = Kills(rules)]_vars
  BY FireTurns DEF WithMenu, SuitesInv, Typed
<1> QED
  BY <1>1, SuitesInit, SuitesNext, PTL DEF Spec, ClickWorks

---------------------------------------------------------------------------
(* MockFiles: the registry is as fresh as what the watcher has reported.   *)

(* On the same files, a load leaves a fresh registry. *)
LEMMA LoadIsFresh ==
    ASSUME CacheFresh, Load, disk' = disk
    PROVE  CacheFresh'
(* A watcher that runs is one that ran before, and one that is about to be *)
(* started is not running.                                                 *)
<1>1. OnDisk(disk)' = OnDisk(disk)
  BY DEF OnDisk, Entries
<1>2. Registry = IF valid THEN cache ELSE OnDisk(disk)
  BY DEF Registry
<1> QED
  BY <1>1, <1>2 DEF Load, CacheFresh

(* What is not valid, not watched, about to be reported or changed unseen   *)
(* promises nothing.                                                       *)
LEMMA NotInUse ==
    ASSUME ~valid' \/ ~watching' \/ pending' \/ missed'
    PROVE  CacheFresh'
BY DEF CacheFresh

(* Where the loader and the files stay as they are, freshness does. *)
LEMMA LoaderIsLeft ==
    ASSUME CacheFresh, UNCHANGED <<disk, loaderVars>>
    PROVE  CacheFresh'
<1>1. OnDisk(disk)' = OnDisk(disk)
  BY DEF OnDisk, Entries
<1> QED
  BY <1>1 DEF CacheFresh, loaderVars

LEMMA RouteIsFresh ==
    ASSUME NEW d, Stored(d)
    PROVE  CacheFresh'
BY NotInUse DEF Stored, Written, Invalidated

(* While the watcher is being started, what is missing is known to be.     *)
StartKnown == starting => valid /\ ~watching /\ (missed \/ cache = OnDisk(disk))
FreshInv == CacheFresh /\ StartKnown

LEMMA StartKnownStep == FreshInv /\ [FilesNext]_filesVars => StartKnown'
<1> SUFFICES ASSUME FreshInv, [FilesNext]_filesVars PROVE StartKnown'
  OBVIOUS
<1> USE DEF FreshInv, StartKnown
<1>1. CASE UNCHANGED filesVars
  <2>1. OnDisk(disk)' = OnDisk(disk)
    BY <1>1 DEF filesVars, OnDisk, Entries
  <2> QED BY <1>1, <2>1 DEF filesVars
<1>2. CASE StartWatcher \/ Restart
  BY <1>2 DEF StartWatcher, Restart, Restarted
<1>3. ASSUME NEW f \in File, NEW c \in Contents \cup {Absent}, NEW byName \in BOOLEAN,
             Edit(f, c, byName)
      PROVE  StartKnown'
  BY <1>3 DEF Edit
<1>4. ASSUME ~starting, Load, disk' = disk PROVE StartKnown'
  <2>1. OnDisk(disk)' = OnDisk(disk)
    BY <1>4 DEF OnDisk, Entries
  <2>2. Registry = IF valid THEN cache ELSE OnDisk(disk)
    BY DEF Registry
  <2> QED BY <1>4, <2>1, <2>2 DEF Load
<1>5. ASSUME ~starting, \/ Load /\ disk' = disk
                        \/ starting' = starting
                        \/ ~starting'
      PROVE  StartKnown'
  BY <1>4, <1>5
<1>6. ASSUME ~starting, List \/ WatchEvent \/ WatchFails PROVE StartKnown'
  BY <1>5, <1>6 DEF List, WatchEvent, WatchFails
<1>7. ASSUME ~starting, NEW f \in File, OnFile(f) PROVE StartKnown'
  <2>1. starting' = starting
    BY <1>7 DEF OnFile, SaveMock, CreateMock, MockScope, RenameMock, DeleteMock, DuplicateMock,
                Stored, Written
  <2> QED BY <1>5, <1>7, <2>1
<1>8. ASSUME ~starting, NEW i \in Id, OnInstance(i) PROVE StartKnown'
  <2>1. CASE \/ \E n \in Name : Toggle(i, n, TRUE)
             \/ \E up \in BOOLEAN : CmdBulk(i, up)
             \/ \E f \in File : ToggleByPath(i, f, TRUE)
    BY <1>5, <1>8, <2>1 DEF Toggle, CmdBulk, ToggleBulk, ToggleByPath
  <2>2. CASE AddInstance(i) \/ RemoveInstance(i)
    BY <1>5, <1>8, <2>2 DEF AddInstance, RemoveInstance, loaderVars
  <2>3. ASSUME NEW j \in Id, Rename(i, j) PROVE StartKnown'
    BY <1>5, <1>8, <2>3 DEF Rename, WrittenAfterLoad
  <2>4. ASSUME NEW j \in Id, RenameDies(i, j) PROVE StartKnown'
    BY <1>5, <1>8, <2>4 DEF RenameDies, Restarted
  <2> QED BY <1>8, <2>1, <2>2, <2>3, <2>4 DEF OnInstance
<1> QED BY <1>1, <1>2, <1>3, <1>6, <1>7, <1>8 DEF FilesNext

LEMMA FreshStep == FreshInv /\ [FilesNext]_filesVars => CacheFresh'
<1> SUFFICES ASSUME FreshInv, [FilesNext]_filesVars PROVE CacheFresh'
  OBVIOUS
<1> USE DEF FreshInv
<1>1. CASE UNCHANGED filesVars
  BY <1>1, LoaderIsLeft DEF filesVars, loaderVars
<1>12. CASE StartWatcher
  <2>1. OnDisk(disk)' = OnDisk(disk)
    BY <1>12 DEF StartWatcher, OnDisk, Entries
  <2> QED BY <1>12, <2>1 DEF StartWatcher, CacheFresh, StartKnown
<1>2. CASE List
  BY <1>2, LoadIsFresh DEF List
<1>3. CASE WatchEvent
  BY <1>3, NotInUse DEF WatchEvent, Invalidated
<1>4. CASE WatchFails
  BY <1>4, NotInUse DEF WatchFails
<1>5. CASE Restart
  BY <1>5, NotInUse DEF Restart, Restarted
<1>6. ASSUME NEW f \in File, NEW c \in Contents \cup {Absent}, NEW byName \in BOOLEAN,
             Edit(f, c, byName)
      PROVE  CacheFresh'
  (* The watcher has the edit to report, or is not there, or misses it. *)
  BY <1>6, NotInUse DEF Edit
<1>7. ASSUME NEW f \in File, OnFile(f)
      PROVE  CacheFresh'
  <2>1. \E d : Stored(d)
    BY <1>7 DEF OnFile, SaveMock, CreateMock, MockScope, RenameMock, DeleteMock, DuplicateMock
  <2> QED
    BY <2>1, RouteIsFresh
<1>8. ASSUME NEW i \in Id,
             \/ \E n \in Name : Toggle(i, n, TRUE)
             \/ \E up \in BOOLEAN : CmdBulk(i, up)
             \/ \E f \in File : ToggleByPath(i, f, TRUE)
      PROVE  CacheFresh'
  <2>1. Load /\ disk' = disk
    BY <1>8 DEF Toggle, CmdBulk, ToggleBulk, ToggleByPath
  <2> QED
    BY <2>1, LoadIsFresh
<1>9. ASSUME NEW i \in Id, AddInstance(i) \/ RemoveInstance(i)
      PROVE  CacheFresh'
  BY <1>9, LoaderIsLeft DEF AddInstance, RemoveInstance
<1>10. ASSUME NEW i \in Id, NEW j \in Id, Rename(i, j)
       PROVE  CacheFresh'
  <2>1. \/ Load /\ disk' = disk
        \/ ~valid'
    BY <1>10 DEF Rename, WrittenAfterLoad, Invalidated
  <2> QED
    BY <2>1, LoadIsFresh, NotInUse
<1>11. ASSUME NEW i \in Id, NEW j \in Id, RenameDies(i, j)
       PROVE  CacheFresh'
  BY <1>11, NotInUse DEF RenameDies, Restarted, Invalidated
<1>13. ASSUME NEW i \in Id, OnInstance(i) PROVE CacheFresh'
  BY <1>8, <1>9, <1>10, <1>11, <1>13 DEF OnInstance
<1> HIDE DEF FreshInv
<1> QED
  BY <1>1, <1>2, <1>3, <1>4, <1>5, <1>6, <1>7, <1>12, <1>13 DEF FilesNext

(* A registry in use while the watcher runs and has nothing to report is   *)
(* what the files say, whoever wrote them and however loads, writes,       *)
(* events, failures and restarts follow each other, unless a file changed  *)
(* between the load and the start of the watcher or under its folder's     *)
(* name (mock-loader.js).                                                  *)
THEOREM FilesStayFresh == FilesSpec => []CacheFresh
<1>1. FilesInit => FreshInv
  BY DEF FilesInit, FreshInv, CacheFresh, StartKnown
<1>2. FreshInv /\ [FilesNext]_filesVars => FreshInv'
  BY FreshStep, StartKnownStep DEF FreshInv
<1>3. FreshInv => CacheFresh
  BY DEF FreshInv
<1> QED
  BY <1>1, <1>2, <1>3, PTL DEF FilesSpec

---------------------------------------------------------------------------
(* What is on disk and in the registry. *)

Listed == [file : File, name : Name, scope : SUBSET Id]
Stocked(d) == d \in [File -> {Absent} \cup Seq(MockEntry)]

LEMMA FilesFacts ==
    /\ FileOrder \in Seq(File) /\ File = Range(FileOrder)
    /\ CopyOf \in [File -> Seq(File)]
    /\ Contents \subseteq Seq(MockEntry) /\ Absent \notin Seq(MockEntry) /\ MaxWrites \in Nat
BY MockFilesAssumption DEF File

LEMMA EntriesFacts ==
    ASSUME NEW d, Stocked(d), NEW f \in File
    PROVE  /\ Entries(d, f) \in Seq(Listed)
           /\ d[f] = Absent => Entries(d, f) = <<>>
           /\ d[f] # Absent =>
                 /\ d[f] \in Seq(MockEntry)
                 /\ Len(Entries(d, f)) = Len(d[f])
                 /\ \A k \in DOMAIN d[f] :
                       Entries(d, f)[k] = [file |-> f, name |-> d[f][k].name, scope |-> d[f][k].scope]
<1>1. CASE d[f] = Absent
  <2>1. Entries(d, f) = <<>> /\ <<>> \in Seq(Listed)
    BY <1>1 DEF Entries
  <2> QED BY <1>1, <2>1
<1>2. CASE d[f] # Absent
  <2>1. d[f] \in Seq(MockEntry) /\ DOMAIN d[f] = 1..Len(d[f]) /\ Len(d[f]) \in Nat
    BY <1>2 DEF Stocked
  <2>2. \A k \in 1..Len(d[f]) : d[f][k] \in MockEntry
    BY <2>1
  <2>3. Entries(d, f) =
          [k \in 1..Len(d[f]) |-> [file |-> f, name |-> d[f][k].name, scope |-> d[f][k].scope]]
    BY <1>2, <2>1 DEF Entries
  <2>4. \A k \in 1..Len(d[f]) :
          [file |-> f, name |-> d[f][k].name, scope |-> d[f][k].scope] \in Listed
    BY <2>2 DEF Listed, MockEntry
  <2>5. Entries(d, f) \in Seq(Listed) /\ Len(Entries(d, f)) = Len(d[f])
    BY <2>1, <2>3, <2>4
  <2> QED BY <1>2, <2>1, <2>3, <2>5
<1> QED BY <1>1, <1>2

(* The registry has the mocks of the files that there are, each with its   *)
(* file, its name and its scope.                                           *)
LEMMA OnDiskHas ==
    ASSUME NEW d, Stocked(d)
    PROVE  /\ OnDisk(d) \in Seq(Listed)
           /\ \A e : e \in Range(OnDisk(d)) <=>
                \E f \in File : d[f] # Absent /\ \E k \in DOMAIN d[f] :
                   e = [file |-> f, name |-> d[f][k].name, scope |-> d[f][k].scope]
<1> DEFINE seqs == [k \in DOMAIN FileOrder |-> Entries(d, FileOrder[k])]
<1>1. FileOrder \in Seq(File) /\ DOMAIN FileOrder = 1..Len(FileOrder) /\ Len(FileOrder) \in Nat
  BY FilesFacts
<1>2. \A k \in 1..Len(FileOrder) : FileOrder[k] \in File /\ Entries(d, FileOrder[k]) \in Seq(Listed)
  BY <1>1, EntriesFacts
<1>3. seqs \in Seq(Seq(Listed)) /\ Len(seqs) = Len(FileOrder)
  BY <1>1, <1>2
<1>4. \A k \in 1..Len(FileOrder) : seqs[k] = Entries(d, FileOrder[k])
  BY <1>1
<1>5. OnDisk(d) = FlattenSeq(seqs)
  BY DEF OnDisk
<1> HIDE DEF seqs
<1>6. OnDisk(d) \in Seq(Listed)
  BY <1>3, <1>5, FlattenHas
<1>7. \A e : e \in Range(OnDisk(d)) <=> \E k \in 1..Len(FileOrder) : e \in Range(Entries(d, FileOrder[k]))
  BY <1>3, <1>4, <1>5, FlattenHas
<1>8. \A f : f \in File <=> \E k \in 1..Len(FileOrder) : f = FileOrder[k]
  BY <1>1, FilesFacts DEF Range
<1>9. ASSUME NEW f \in File, NEW e
      PROVE  e \in Range(Entries(d, f)) <=>
               d[f] # Absent /\ \E k \in DOMAIN d[f] :
                  e = [file |-> f, name |-> d[f][k].name, scope |-> d[f][k].scope]
  <2>1. CASE d[f] = Absent
    BY <2>1, EntriesFacts DEF Range
  <2>2. CASE d[f] # Absent
    <3> DEFINE E == Entries(d, f)
    <3>1. /\ E \in Seq(Listed) /\ d[f] \in Seq(MockEntry) /\ Len(E) = Len(d[f])
          /\ \A k \in DOMAIN d[f] : E[k] = [file |-> f, name |-> d[f][k].name, scope |-> d[f][k].scope]
      BY <2>2, EntriesFacts
    <3>2. DOMAIN E = DOMAIN d[f]
      BY <3>1
    <3> HIDE DEF E
    <3>3. e \in Range(E) <=> \E k \in DOMAIN d[f] : e = E[k]
      BY <3>2 DEF Range
    <3>4. e \in Range(E) <=> \E k \in DOMAIN d[f] :
                               e = [file |-> f, name |-> d[f][k].name, scope |-> d[f][k].scope]
      BY <3>1, <3>3
    <3> QED BY <2>2, <3>4 DEF E
  <2> QED BY <2>1, <2>2
<1>10. \A e : e \in Range(OnDisk(d)) <=> \E f \in File : e \in Range(Entries(d, f))
  BY <1>7, <1>8
<1> QED BY <1>6, <1>9, <1>10

---------------------------------------------------------------------------
(* Rewriting a file, one mock of the registry after the other. *)

(* The table of the contents after each mock. *)
Rescopes(reg, content, f, i, j, g) ==
    g = [k \in 0..Len(reg) |->
            IF k = 0 THEN content ELSE Rescoped(g[k - 1], reg[k], f, i, j)]

LEMMA RescopesExist ==
    ASSUME NEW reg, Len(reg) \in Nat, NEW content, NEW f, NEW i, NEW j
    PROVE  \E g : Rescopes(reg, content, f, i, j, g)
<1> DEFINE Good(m, g) ==
      g = [k \in 0..m |-> IF k = 0 THEN content ELSE Rescoped(g[k - 1], reg[k], f, i, j)]
    S == {m \in Nat : \E g : Good(m, g)}
<1>1. 0 \in S
  <2>1. Good(0, [k \in 0..0 |-> content])
    OBVIOUS
  <2> HIDE DEF Good
  <2> QED BY <2>1
<1>2. ASSUME NEW m \in 0..Len(reg), m > 0, m - 1 \in S PROVE m \in S
  <2>1. PICK g : Good(m - 1, g)
    BY <1>2
  <2> DEFINE h == [k \in 0..m |-> IF k = m THEN Rescoped(g[m - 1], reg[m], f, i, j) ELSE g[k]]
  <2>2. m \in Nat /\ m - 1 \in Nat
    BY <1>2
  <2>3. \A k \in 0..(m - 1) :
           g[k] = IF k = 0 THEN content ELSE Rescoped(g[k - 1], reg[k], f, i, j)
    BY <2>1
  <2>4. \A k \in 0..m : h[k] = IF k = 0 THEN content ELSE Rescoped(h[k - 1], reg[k], f, i, j)
    BY <1>2, <2>2, <2>3
  <2>5. Good(m, h)
    BY <2>4
  <2> HIDE DEF Good
  <2> QED BY <2>2, <2>5
<1>3. Len(reg) \in S
  <2> HIDE DEF S
  <2>1. 0..Len(reg) \subseteq S
    BY <1>1, <1>2, Climb
  <2> QED BY <2>1
<1> QED BY <1>3 DEF Rescopes

(* c is d, some of whose mocks have got a scope with j in it. *)
Like(c, d, j) ==
    /\ c \in Seq(MockEntry) /\ Len(c) = Len(d)
    /\ \A k \in 1..Len(d) :
          /\ c[k].name = d[k].name /\ c[k].multi = d[k].multi
          /\ c[k].scope = d[k].scope \/ j \in c[k].scope

LEMMA LikeNamed ==
    ASSUME NEW d \in Seq(MockEntry), NEW c, NEW j, Like(c, d, j), NEW n
    PROVE  Named(c, n) = Named(d, n) /\ Named(d, n) \subseteq 1..Len(d)
<1>1. DOMAIN c = 1..Len(d) /\ DOMAIN d = 1..Len(d)
  BY DEF Like
<1> QED BY <1>1 DEF Like, Named

LEMMA RescopedLike ==
    ASSUME NEW d \in Seq(MockEntry), NEW c, NEW i \in Id, NEW j \in Id, Like(c, d, j),
           NEW m \in Listed, NEW f
    PROVE  /\ Like(Rescoped(c, m, f, i, j), d, j)
           /\ \A k \in 1..Len(d) : j \in c[k].scope => j \in Rescoped(c, m, f, i, j)[k].scope
           /\ \A k \in 1..Len(d) :
                 m.file = f /\ i \in m.scope /\ k = Min(Named(d, m.name)) /\ ~d[k].multi
                    => j \in Rescoped(c, m, f, i, j)[k].scope
<1> DEFINE scope == Respelled(m.scope, i, j)
           first == Min(Named(d, m.name))
           r == Rescoped(c, m, f, i, j)
<1>1. CASE ~(m.file = f /\ i \in m.scope)
  BY <1>1 DEF Rescoped
<1>2. CASE m.file = f /\ i \in m.scope
  <2>1. c \in Seq(MockEntry) /\ DOMAIN c = 1..Len(d) /\ Len(d) \in Nat
    BY DEF Like
  <2>2. Named(c, m.name) = Named(d, m.name)
    BY LikeNamed
  <2>3. r = [k \in 1..Len(d) |-> IF k = first /\ ~c[k].multi
                                 THEN [c[k] EXCEPT !.scope = scope] ELSE c[k]]
    BY <1>2, <2>1, <2>2 DEF Rescoped, SetMockServers
  <2>4. scope \in SUBSET Id /\ j \in scope
    BY <1>2 DEF Respelled, Listed
  <2> HIDE DEF scope, first, r
  <2>5. \A k \in 1..Len(d) : c[k] \in MockEntry
    BY <2>1
  <2>6. ASSUME NEW k \in 1..Len(d)
        PROVE  /\ r[k] \in MockEntry /\ r[k].name = c[k].name /\ r[k].multi = c[k].multi
               /\ r[k].scope = c[k].scope \/ j \in r[k].scope
               /\ k = first /\ ~c[k].multi => j \in r[k].scope
    <3>1. CASE k = first /\ ~c[k].multi
      <4>1. r[k] = [c[k] EXCEPT !.scope = scope]
        BY <2>3, <3>1
      <4> QED BY <2>4, <2>5, <4>1 DEF MockEntry
    <3>2. CASE ~(k = first /\ ~c[k].multi)
      <4>1. r[k] = c[k]
        BY <2>3, <3>2
      <4> QED BY <2>5, <3>2, <4>1
    <3> QED BY <3>1, <3>2
  <2>7. r \in Seq(MockEntry) /\ Len(r) = Len(d)
    BY <2>1, <2>3, <2>6
  <2>8. Like(r, d, j)
    BY <2>6, <2>7 DEF Like
  <2>9. \A k \in 1..Len(d) : j \in c[k].scope => j \in r[k].scope
    BY <2>6
  <2>10. \A k \in 1..Len(d) : k = first /\ ~d[k].multi => j \in r[k].scope
    BY <2>6 DEF Like
  <2> QED BY <2>8, <2>9, <2>10 DEF r, first
<1> QED BY <1>1, <1>2

(* All the mocks of the registry that name i have been rewritten to j, if  *)
(* the editor sees them.                                                   *)
Moved(c, d, f, i, j, m) ==
    LET k == Min(Named(d, m.name))
    IN  m.file = f /\ i \in m.scope /\ k \in 1..Len(d) /\ ~d[k].multi => j \in c[k].scope

LEMMA RewrittenFacts ==
    ASSUME NEW f, disk[f] \in Seq(MockEntry), Registry \in Seq(Listed), NEW i \in Id, NEW j \in Id
    PROVE  /\ Like(Rewritten(f, i, j), disk[f], j)
           /\ \A m \in Range(Registry) : Moved(Rewritten(f, i, j), disk[f], f, i, j, m)
<1> DEFINE d == disk[f]
           reg == Registry
           g == CHOOSE g : Rescopes(reg, d, f, i, j, g)
           Holds(n) == Like(g[n], d, j) /\ \A l \in 1..n : Moved(g[n], d, f, i, j, reg[l])
           S == {n \in 0..Len(reg) : Holds(n)}
<1>1. Len(reg) \in Nat /\ DOMAIN reg = 1..Len(reg) /\ \A l \in 1..Len(reg) : reg[l] \in Listed
  OBVIOUS
<1>2. Rescopes(reg, d, f, i, j, g)
  BY <1>1, RescopesExist
<1>3. Rewritten(f, i, j) = g[Len(reg)]
  BY DEF Rewritten, Rescopes
<1> HIDE DEF g
<1>4. \A k \in 0..Len(reg) : g[k] = IF k = 0 THEN d ELSE Rescoped(g[k - 1], reg[k], f, i, j)
  BY <1>2 DEF Rescopes
<1> HIDE DEF reg
<1>5. d \in Seq(MockEntry)
  OBVIOUS
<1> HIDE DEF d
<1>6. Holds(0)
  <2>1. g[0] = d /\ 1..0 = {}
    BY <1>1, <1>4
  <2>2. Like(d, d, j)
    BY <1>5 DEF Like
  <2> QED BY <2>1, <2>2
<1>7. ASSUME NEW n \in 0..Len(reg), n > 0, n - 1 \in S PROVE n \in S
  <2>1. n \in 1..Len(reg) /\ n - 1 \in 0..Len(reg) /\ 1..n = (1..(n - 1)) \cup {n}
    BY <1>1, <1>7
  <2>2. Like(g[n - 1], d, j) /\ \A l \in 1..(n - 1) : Moved(g[n - 1], d, f, i, j, reg[l])
    BY <1>7
  <2> DEFINE r == Rescoped(g[n - 1], reg[n], f, i, j)
  <2>3. g[n] = r /\ reg[n] \in Listed
    BY <1>1, <1>4, <2>1
  <2>4. /\ Like(r, d, j)
        /\ \A k \in 1..Len(d) : j \in g[n - 1][k].scope => j \in r[k].scope
        /\ \A k \in 1..Len(d) :
              reg[n].file = f /\ i \in reg[n].scope /\ k = Min(Named(d, reg[n].name)) /\ ~d[k].multi
                 => j \in r[k].scope
    BY <1>5, <2>2, <2>3, RescopedLike
  <2> HIDE DEF r
  <2>5. \A l \in 1..(n - 1) : Moved(r, d, f, i, j, reg[l])
    BY <2>2, <2>4, Zenon DEF Moved
  <2>6. Moved(r, d, f, i, j, reg[n])
    BY <2>4, Zenon DEF Moved
  <2>7. Holds(n)
    BY <2>1, <2>3, <2>4, <2>5, <2>6
  <2> QED BY <2>7
<1>8. 0..Len(reg) \subseteq S
  <2>1. 0 \in S
    BY <1>1, <1>6
  <2> HIDE DEF S
  <2> QED BY <1>1, <1>7, <2>1, Climb
<1>9. Holds(Len(reg))
  BY <1>1, <1>8
<1>10. \A m \in Range(reg) : Moved(g[Len(reg)], d, f, i, j, m)
  <2>1. \A m \in Range(reg) : \E l \in 1..Len(reg) : m = reg[l]
    BY <1>1 DEF Range
  <2> QED BY <1>9, <2>1
<1> QED BY <1>3, <1>9, <1>10 DEF reg, d

---------------------------------------------------------------------------
(* The types, with what is cached. *)

LoaderOK ==
    /\ Stocked(disk) /\ cache \in Seq(Listed)
    /\ valid \in BOOLEAN /\ starting \in BOOLEAN /\ watching \in BOOLEAN
    /\ pending \in BOOLEAN /\ missed \in BOOLEAN
TogglesOK ==
    /\ live \subseteq Id
    /\ on \in [Id -> SUBSET Name] /\ \A i \in Id \ live : on[i] = {}
    /\ writes \in 0..MaxWrites
FilesInv == LoaderOK /\ TogglesOK

LEMMA InvTypes == FilesInv => FilesTypeOK
<1> SUFFICES ASSUME FilesInv PROVE FilesTypeOK
  OBVIOUS
<1>1. \A f \in File : disk[f] = Absent \/ \A k \in DOMAIN disk[f] : disk[f][k] \in MockEntry
  <2> TAKE f \in File
  <2>1. disk[f] \in {Absent} \cup Seq(MockEntry)
    BY DEF FilesInv, LoaderOK, Stocked
  <2> QED BY <2>1
<1> QED BY <1>1 DEF FilesInv, LoaderOK, TogglesOK, FilesTypeOK

LEMMA RegistryListed == ASSUME LoaderOK PROVE Registry \in Seq(Listed)
BY OnDiskHas DEF LoaderOK, Registry

LEMMA LoadTypes == ASSUME LoaderOK, Load, disk' = disk PROVE LoaderOK'
BY RegistryListed DEF Load, LoaderOK, Stocked

LEMMA WrittenTypes ==
    ASSUME LoaderOK, NEW d, Stocked(d), Written(d) PROVE LoaderOK'
BY DEF Written, Invalidated, LoaderOK, Stocked

LEMMA StoredTypes == ASSUME FilesInv, NEW d, Stocked(d), Stored(d) PROVE FilesInv'
<1>1. LoaderOK'
  BY WrittenTypes DEF Stored, FilesInv
<1>2. TogglesOK'
  <2>1. writes' \in 0..MaxWrites
    BY FilesFacts DEF Stored, FilesInv, TogglesOK
  <2> QED BY <2>1 DEF Stored, FilesInv, TogglesOK
<1> QED BY <1>1, <1>2 DEF FilesInv

LEMMA SwitchedTypes ==
    ASSUME FilesInv, NEW i \in live, NEW names, names \subseteq Name, NEW up \in BOOLEAN,
           Load, Switched(i, names, up), UNCHANGED <<disk, live, writes>>
    PROVE  FilesInv'
<1>1. LoaderOK'
  BY LoadTypes DEF FilesInv
<1>2. TogglesOK'
  BY DEF Switched, FilesInv, TogglesOK
<1> QED BY <1>1, <1>2 DEF FilesInv

LEMMA SetTypes ==
    ASSUME NEW c \in Seq(MockEntry), NEW n, NEW scope \in SUBSET Id
    PROVE  SetMockServers(c, n, scope) \in Seq(MockEntry)
<1>1. DOMAIN c = 1..Len(c) /\ Len(c) \in Nat /\ \A k \in 1..Len(c) : c[k] \in MockEntry
  OBVIOUS
<1> DEFINE new(k) == IF k = Min(Named(c, n)) /\ ~c[k].multi
                     THEN [c[k] EXCEPT !.scope = scope] ELSE c[k]
<1>2. \A k \in 1..Len(c) : new(k) \in MockEntry
  BY <1>1 DEF MockEntry
<1>3. SetMockServers(c, n, scope) = [k \in 1..Len(c) |-> new(k)]
  BY <1>1 DEF SetMockServers
<1> HIDE DEF new
<1> QED BY <1>1, <1>2, <1>3

(* What a rename rewrites is there, and stays a list of mocks. *)
LEMMA RewrittenTypes ==
    ASSUME LoaderOK, NEW i \in Id, NEW j \in Id, Plannable(i), NEW f \in Planned(i)
    PROVE  /\ f \in File /\ disk[f] \in Seq(MockEntry) /\ Rewritten(f, i, j) \in Seq(MockEntry)
<1>1. PICK m \in Range(Registry) : i \in m.scope /\ m.file = f
  BY DEF Planned, Affected
<1>2. m \in Listed /\ Registry \in Seq(Listed)
  BY <1>1, RegistryListed DEF Range
<1>3. f \in File /\ disk[f] # Absent
  BY <1>1, <1>2 DEF Listed, Plannable, Affected, Exists
<1>4. disk[f] \in Seq(MockEntry)
  BY <1>3 DEF LoaderOK, Stocked
<1> QED BY <1>2, <1>3, <1>4, RewrittenFacts DEF Like

LEMMA ReKeyedTypes ==
    ASSUME TogglesOK, NEW i \in live, NEW j \in Id \ live, ReKeyed(i, j), writes' = writes
    PROVE  TogglesOK'
BY DEF ReKeyed, TogglesOK

LEMMA FilesInvInit == FilesInit => FilesInv
<1> SUFFICES ASSUME FilesInit PROVE FilesInv
  OBVIOUS
<1>1. Stocked(disk)
  BY FilesFacts DEF FilesInit, Stocked
<1>2. <<>> \in Seq(Listed)
  OBVIOUS
<1>3. LoaderOK
  BY <1>1, <1>2 DEF FilesInit, LoaderOK
<1>4. on = [i \in Id |-> {}] /\ live \subseteq Id /\ writes = 0
  BY DEF FilesInit
<1>5. on \in [Id -> SUBSET Name] /\ \A i \in Id \ live : on[i] = {}
  BY <1>4
<1> QED BY <1>3, <1>4, <1>5, FilesFacts DEF FilesInv, TogglesOK

LEMMA RoutesOnFiles ==
    ASSUME FilesInv, NEW f \in File,
           OnFile(f)
    PROVE  FilesInv'
<1>1. Stocked(disk)
  BY DEF FilesInv, LoaderOK
<1>2. disk[f] # Absent => disk[f] \in Seq(MockEntry)
  BY <1>1 DEF Stocked
<1>3. ASSUME NEW g \in File, NEW c \in {Absent} \cup Seq(MockEntry)
      PROVE  Stocked([disk EXCEPT ![g] = c])
  BY <1>1 DEF Stocked
<1>4. ASSUME NEW c \in Contents, SaveMock(f, c) PROVE FilesInv'
  BY <1>3, <1>4, FilesFacts, StoredTypes DEF SaveMock
<1>5. ASSUME NEW n \in Name, CreateMock(f, n) PROVE FilesInv'
  <2>1. <<[name |-> n, scope |-> {}, multi |-> FALSE]>> \in Seq(MockEntry)
    BY DEF MockEntry
  <2> QED BY <1>3, <1>5, <2>1, StoredTypes DEF CreateMock
<1>6. ASSUME NEW n \in Name, NEW ids \in SUBSET Id, MockScope(f, n, ids) PROVE FilesInv'
  <2>1. ScopeFor(ids) \in SUBSET Id
    BY DEF ScopeFor
  <2>2. disk[f] \in Seq(MockEntry)
    BY <1>2, <1>6 DEF MockScope, Exists
  <2>3. SetMockServers(disk[f], n, ScopeFor(ids)) \in Seq(MockEntry)
    BY <2>1, <2>2, SetTypes
  <2>4. Stored([disk EXCEPT ![f] = SetMockServers(disk[f], n, ScopeFor(ids))])
    BY <1>6 DEF MockScope
  <2> QED BY <1>3, <2>3, <2>4, StoredTypes
<1>7. ASSUME NEW g \in File \ {f}, RenameMock(f, g) PROVE FilesInv'
  <2>1. Stocked([disk EXCEPT ![f] = Absent, ![g] = disk[f]])
    BY <1>1 DEF Stocked
  <2> QED BY <1>7, <2>1, StoredTypes DEF RenameMock
<1>8. CASE DeleteMock(f)
  BY <1>3, <1>8, StoredTypes DEF DeleteMock
<1>9. CASE DuplicateMock(f)
  <2>1. PICK k \in DOMAIN CopyOf[f] : Stored([disk EXCEPT ![CopyOf[f][k]] = disk[f]])
    BY <1>9 DEF DuplicateMock
  <2>2. CopyOf[f][k] \in File
    BY <2>1, FilesFacts
  <2>3. disk[f] \in {Absent} \cup Seq(MockEntry)
    BY <1>1 DEF Stocked
  <2> QED BY <1>3, <2>1, <2>2, <2>3, StoredTypes
<1> QED BY <1>4, <1>5, <1>6, <1>7, <1>8, <1>9 DEF OnFile

LEMMA TogglesTypes ==
    ASSUME FilesInv, NEW i \in Id,
           \/ \E n \in Name : Toggle(i, n, TRUE)
           \/ \E up \in BOOLEAN : CmdBulk(i, up)
           \/ \E f \in File : ToggleByPath(i, f, TRUE)
    PROVE  FilesInv'
<1>1. ASSUME NEW n \in Name, Toggle(i, n, TRUE) PROVE FilesInv'
  <2>1. {n} \subseteq Name /\ TRUE \in BOOLEAN
    OBVIOUS
  <2> QED BY <1>1, <2>1, SwitchedTypes DEF Toggle
<1>2. ASSUME NEW up \in BOOLEAN, CmdBulk(i, up) PROVE FilesInv'
  <2> DEFINE names == {n \in Name : \A k \in FirstOf(Registry, n) : InScope(Registry[k], i)}
  <2>1. i \in live /\ Load /\ Switched(i, names, up) /\ UNCHANGED <<disk, live, writes>>
    BY <1>2 DEF CmdBulk, ToggleBulk
  <2>2. names \subseteq Name
    OBVIOUS
  <2> HIDE DEF names
  <2> QED BY <2>1, <2>2, SwitchedTypes
<1>3. ASSUME NEW f \in File, ToggleByPath(i, f, TRUE) PROVE FilesInv'
  <2>1. PICK k \in DOMAIN Registry : Switched(i, {Registry[k].name}, TRUE)
    BY <1>3 DEF ToggleByPath
  <2>2. Registry \in Seq(Listed)
    BY RegistryListed DEF FilesInv
  <2>3. Registry[k] \in Listed
    BY <2>1, <2>2
  <2>4. {Registry[k].name} \subseteq Name /\ TRUE \in BOOLEAN
    BY <2>3 DEF Listed
  <2> QED BY <1>3, <2>1, <2>4, SwitchedTypes DEF ToggleByPath
<1> QED BY <1>1, <1>2, <1>3

LEMMA RenameTypes ==
    ASSUME FilesInv, NEW i \in Id, NEW j \in Id, Rename(i, j) \/ RenameDies(i, j)
    PROVE  FilesInv'
<1>1. i \in live /\ j \in Id \ live /\ Plannable(i) /\ ReKeyed(i, j) /\ writes' = writes
  BY DEF Rename, RenameDies
<1>2. TogglesOK'
  BY <1>1, ReKeyedTypes DEF FilesInv
<1>3. \A f \in Planned(i) : f \in File /\ Rewritten(f, i, j) \in Seq(MockEntry)
  BY <1>1, RewrittenTypes DEF FilesInv
<1>4. Stocked(disk)
  BY DEF FilesInv, LoaderOK
<1>5. CASE Rename(i, j)
  <2>1. CASE Planned(i) = {}
    BY <1>5, <2>1, LoadTypes, <1>2 DEF Rename, FilesInv
  <2>2. CASE Planned(i) # {}
    <3> DEFINE d == [f \in File |-> IF f \in Planned(i) THEN Rewritten(f, i, j) ELSE disk[f]]
    <3>1. Stocked(d)
      BY <1>3, <1>4 DEF Stocked
    <3>2. WrittenAfterLoad(d)
      BY <1>5, <2>2 DEF Rename
    <3> HIDE DEF d
    <3>3. Registry \in Seq(Listed)
      BY RegistryListed DEF FilesInv
    <3>4. LoaderOK'
      BY <3>1, <3>2, <3>3 DEF WrittenAfterLoad, Invalidated, FilesInv, LoaderOK, Stocked
    <3> QED BY <1>2, <3>4 DEF FilesInv
  <2> QED BY <2>1, <2>2
<1>6. CASE RenameDies(i, j)
  <2> DEFINE Left(done, torn) ==
           disk' = [f \in File |-> IF f \in torn THEN <<>>
                                   ELSE IF f \in done THEN Rewritten(f, i, j) ELSE disk[f]]
  <2>1. PICK done \in SUBSET Planned(i), torn \in SUBSET Planned(i) : Left(done, torn)
    <3>1. \E done \in SUBSET Planned(i), torn \in SUBSET Planned(i) :
             /\ Cardinality(torn) <= 1 /\ done \cap torn = {}
             /\ done \cup torn # Planned(i) \/ torn # {}
             /\ Left(done, torn)
      BY <1>6 DEF RenameDies
    <3> HIDE DEF Left
    <3> QED BY <3>1
  <2>2. <<>> \in Seq(MockEntry) /\ <<>> \in Seq(Listed)
    OBVIOUS
  <2>3. Stocked(disk')
    BY <1>3, <1>4, <2>1, <2>2 DEF Stocked
  <2> QED BY <1>2, <1>6, <2>2, <2>3 DEF RenameDies, Restarted, Invalidated, FilesInv, LoaderOK, Stocked
<1> QED BY <1>5, <1>6

LEMMA FilesInvStep == FilesInv /\ [FilesNext]_filesVars => FilesInv'
<1> SUFFICES ASSUME FilesInv, [FilesNext]_filesVars PROVE FilesInv'
  OBVIOUS
<1>1. CASE UNCHANGED filesVars
  BY <1>1 DEF filesVars, FilesInv, LoaderOK, TogglesOK, Stocked
<1>2. CASE List
  BY <1>2, LoadTypes DEF List, FilesInv, TogglesOK
<1>3. CASE WatchEvent
  BY <1>3 DEF WatchEvent, Invalidated, FilesInv, LoaderOK, TogglesOK, Stocked
<1>4. CASE WatchFails
  BY <1>4 DEF WatchFails, FilesInv, LoaderOK, TogglesOK, Stocked
<1>5. CASE Restart
  <2>1. <<>> \in Seq(Listed)
    OBVIOUS
  <2> QED BY <1>5, <2>1 DEF Restart, Restarted, Invalidated, FilesInv, LoaderOK, TogglesOK, Stocked
<1>6. ASSUME NEW f \in File, NEW c \in Contents \cup {Absent}, NEW byName \in BOOLEAN,
             Edit(f, c, byName)
      PROVE  FilesInv'
  <2>1. Stocked(disk')
    BY <1>6, FilesFacts DEF Edit, FilesInv, LoaderOK, Stocked
  <2>2. writes' \in 0..MaxWrites
    BY <1>6, FilesFacts DEF Edit, FilesInv, TogglesOK
  <2> QED BY <1>6, <2>1, <2>2 DEF Edit, FilesInv, LoaderOK, TogglesOK, Stocked
<1>7. ASSUME NEW i \in Id, AddInstance(i) PROVE FilesInv'
  BY <1>7 DEF AddInstance, loaderVars, FilesInv, LoaderOK, TogglesOK, Stocked
<1>8. ASSUME NEW i \in Id, RemoveInstance(i) PROVE FilesInv'
  BY <1>8 DEF RemoveInstance, loaderVars, FilesInv, LoaderOK, TogglesOK, Stocked
<1>9. CASE StartWatcher
  BY <1>9 DEF StartWatcher, FilesInv, LoaderOK, TogglesOK, Stocked
<1>10. ASSUME NEW f \in File, OnFile(f) PROVE FilesInv'
  BY <1>10, RoutesOnFiles
<1>11. ASSUME NEW i \in Id, OnInstance(i) PROVE FilesInv'
  <2>1. ASSUME NEW j \in Id, Rename(i, j) \/ RenameDies(i, j) PROVE FilesInv'
    BY <2>1, RenameTypes
  <2> QED BY <1>7, <1>8, <1>11, <2>1, TogglesTypes DEF OnInstance
<1> QED
  BY <1>1, <1>2, <1>3, <1>4, <1>5, <1>6, <1>9, <1>10, <1>11 DEF FilesNext

(* The files hold lists of mocks of the shape the loader reads, and what   *)
(* is switched on is switched on for an instance that there is             *)
(* (store.instanceStatus against serverConfigs).                           *)
THEOREM FilesTypes == FilesSpec => []FilesTypeOK
BY FilesInvInit, FilesInvStep, InvTypes, PTL DEF FilesSpec

---------------------------------------------------------------------------
(* Renames. *)

(* A mock in a file that is in scope answers. *)
LEMMA AnswersFrom ==
    ASSUME Stocked(disk'), NEW f \in File, disk'[f] # Absent, NEW k \in DOMAIN disk'[f], NEW j,
           disk'[f][k].name \in on'[j], disk'[f][k].scope = {} \/ j \in disk'[f][k].scope
    PROVE  <<f, disk'[f][k].name>> \in Answering(j)'
<1> DEFINE e == [file |-> f, name |-> disk'[f][k].name, scope |-> disk'[f][k].scope]
<1>1. e \in Range(OnDisk(disk'))
  BY OnDiskHas
<1>2. InScope(e, j) /\ e.name \in on'[j] /\ e.file = f /\ e.name = disk'[f][k].name
  BY DEF InScope
<1>3. OnDisk(disk)' = OnDisk(disk')
  BY DEF OnDisk, Entries
<1> HIDE DEF e
<1>4. Answering(j)' = {<<m.file, m.name>> : m \in {x \in Range(OnDisk(disk')) :
                                                     InScope(x, j) /\ x.name \in on'[j]}}
  BY <1>3 DEF Answering, InScope
<1> QED BY <1>1, <1>2, <1>4

LEMMA RenameStep ==
    ASSUME FilesInv, NEW i \in Id, NEW j \in Id, Registry = OnDisk(disk), Visible(i), Rename(i, j)
    PROVE  Answering(i) \subseteq Answering(j)'
<1>1. /\ i \in live /\ j \notin live /\ Plannable(i) /\ ReKeyed(i, j)
      /\ Planned(i) = {} => disk' = disk
      /\ Planned(i) # {} => disk' = [f \in File |-> IF f \in Planned(i) THEN Rewritten(f, i, j)
                                                     ELSE disk[f]]
  BY DEF Rename, WrittenAfterLoad
<1>2. on'[j] = on[i]
  BY <1>1 DEF ReKeyed, FilesInv, TogglesOK
<1>3. Stocked(disk) /\ Stocked(disk') /\ Registry \in Seq(Listed)
  <2>1. LoaderOK'
    BY RenameTypes DEF FilesInv
  <2> QED BY <2>1, RegistryListed DEF FilesInv, LoaderOK, Stocked
<1> SUFFICES ASSUME NEW e \in Range(OnDisk(disk)), InScope(e, i), e.name \in on[i]
             PROVE  <<e.file, e.name>> \in Answering(j)'
  BY DEF Answering
<1>4. PICK f \in File : /\ disk[f] # Absent
                        /\ \E k \in DOMAIN disk[f] :
                              e = [file |-> f, name |-> disk[f][k].name, scope |-> disk[f][k].scope]
  BY <1>3, OnDiskHas
<1>5. PICK k \in DOMAIN disk[f] :
              e = [file |-> f, name |-> disk[f][k].name, scope |-> disk[f][k].scope]
  BY <1>4
<1>6. disk[f] \in Seq(MockEntry) /\ DOMAIN disk[f] = 1..Len(disk[f]) /\ k \in 1..Len(disk[f])
  BY <1>3, <1>4, <1>5 DEF Stocked
<1>7. CASE f \notin Planned(i)
  <2>1. i \notin e.scope
    BY <1>5, <1>7 DEF Planned, Affected
  <2>2. disk[f][k].scope = {} /\ disk[f][k].name = e.name /\ e.file = f
    BY <1>5, <2>1 DEF InScope
  <2>3. disk'[f] = disk[f]
    BY <1>1, <1>7
  <2>4. /\ disk'[f] # Absent /\ k \in DOMAIN disk'[f]
        /\ disk'[f][k].name = e.name /\ disk'[f][k].scope = {} /\ e.name \in on'[j]
    BY <1>2, <1>4, <1>5, <2>2, <2>3
  <2> QED BY <1>3, <2>2, <2>4, AnswersFrom
<1>8. CASE f \in Planned(i)
  <2> DEFINE c == Rewritten(f, i, j)
             d == disk[f]
  <2>1. disk'[f] = c /\ disk'[f] # Absent
    BY <1>1, <1>3, <1>8, RewrittenTypes, FilesFacts DEF FilesInv
  <2>2. Like(c, d, j) /\ \A m \in Range(Registry) : Moved(c, d, f, i, j, m)
    BY <1>3, <1>6, RewrittenFacts
  <2>3. DOMAIN disk'[f] = 1..Len(d)
    BY <2>1, <2>2 DEF Like
  <2> HIDE DEF c
  <2>4. CASE i \in e.scope
    <3> DEFINE first == Min(Named(d, e.name))
    <3>1. first \in 1..Len(d) /\ d[first].name = e.name
      <4>1. k \in Named(d, e.name) /\ Named(d, e.name) \subseteq 1..Len(d)
        BY <1>5, <1>6 DEF Named
      <4>2. first \in Named(d, e.name)
        BY <4>1, MinIsLeast
      <4> QED BY <4>1, <4>2 DEF Named
    <3>2. ~d[first].multi
      <4>1. d[k].name = e.name /\ d[k].scope = e.scope
        BY <1>5
      <4> QED BY <1>4, <1>6, <2>4, <4>1 DEF Visible, Exists
    <3>3. e.file = f /\ Moved(c, d, f, i, j, e)
      BY <1>5, <2>2
    <3>4. j \in c[first].scope /\ c[first].name = e.name
      BY <2>2, <2>4, <3>1, <3>2, <3>3 DEF Moved, Like
    <3> HIDE DEF first, d
    <3> QED BY <1>2, <1>3, <2>1, <2>3, <3>1, <3>3, <3>4, AnswersFrom
  <2>5. CASE i \notin e.scope
    <3>1. d[k].scope = {} /\ d[k].name = e.name /\ e.file = f
      BY <1>5, <2>5 DEF InScope
    <3>2. (c[k].scope = {} \/ j \in c[k].scope) /\ c[k].name = e.name
      BY <1>6, <2>2, <3>1 DEF Like
    <3> QED BY <1>2, <1>3, <1>6, <2>1, <2>3, <3>1, <3>2, AnswersFrom
  <2> QED BY <2>4, <2>5
<1> QED BY <1>7, <1>8

(* The mocks that answered for an instance answer for it after a rename,   *)
(* for any files, scopes and names, whatever else is rewritten in the same *)
(* file (planScopeRewrites and the rename route).                          *)
THEOREM RenameKeepsMocks == FilesSpec => RenameFollows
<1> DEFINE Follows == \A i \in live \ live', j \in live' \ live :
                         Registry = OnDisk(disk) /\ Visible(i) /\ Rename(i, j)
                            => Answering(i) \subseteq Answering(j)'
<1>1. FilesInv /\ FilesInv' => Follows
  <2>1. FilesInv /\ FilesInv' => live \subseteq Id /\ live' \subseteq Id
    BY DEF FilesInv, TogglesOK
  <2> QED BY <2>1, RenameStep
<1>2. FilesInv /\ FilesInv' => [Follows]_filesVars
  BY <1>1
<1> QED BY <1>2, FilesInvInit, FilesInvStep, PTL DEF FilesSpec, RenameFollows
=============================================================================
