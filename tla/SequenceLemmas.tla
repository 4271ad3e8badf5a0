--------------------------- MODULE SequenceLemmas ---------------------------
(* What the sequence operators of the modules do, for all sequences. *)
EXTENDS Integers, SequencesExt, SequenceTheorems, WellFoundedInduction, TLAPS

(* Append adds its element to the sequence's set. *)
LEMMA ToSetAppend ==
  ASSUME NEW S, NEW s \in Seq(S), NEW kind \in S
  PROVE  /\ Append(s, kind) \in Seq(S)
         /\ ToSet(Append(s, kind)) = ToSet(s) \cup {kind}
<1>1. /\ Append(s, kind) \in Seq(S)
      /\ Len(Append(s, kind)) = Len(s) + 1
      /\ \A i \in 1..Len(s) : Append(s, kind)[i] = s[i]
      /\ Append(s, kind)[Len(s) + 1] = kind
  BY AppendProperties
<1>2. Len(s) \in Nat /\ DOMAIN s = 1..Len(s)
  OBVIOUS
<1>3. DOMAIN Append(s, kind) = 1..(Len(s) + 1)
  BY <1>1, <1>2
<1>4. ToSet(s) = {s[i] : i \in 1..Len(s)}
      /\ ToSet(Append(s, kind)) = {Append(s, kind)[i] : i \in 1..(Len(s) + 1)}
  BY <1>2, <1>3 DEF ToSet
<1>5. 1..(Len(s) + 1) = 1..Len(s) \cup {Len(s) + 1}
  BY <1>2
<1> QED
  BY <1>1, <1>4, <1>5

(* A set of numbers that is not empty has a least one. *)
LEMMA MinIsLeast ==
  ASSUME NEW S \in SUBSET Nat, S # {}
  PROVE  Min(S) \in S /\ \A y \in S : Min(S) <= y
<1> DEFINE R == {p \in Nat \X Nat : p[1] < p[2]}
<1>1. IsWellFoundedOn(R, Nat)
  BY NatLessThanWellFounded DEF OpToRel
<1> HIDE DEF R
<1>2. PICK x \in S : \A y \in S : ~ (<<y, x>> \in R)
  BY <1>1, WFMin
<1>3. ASSUME NEW y \in S
      PROVE  x <= y
  <2> DEFINE p == <<y, x>>
  <2>1. p \in Nat \X Nat /\ p[1] = y /\ p[2] = x /\ p \notin R
    BY <1>2
  <2>2. ~ (y < x)
    BY <2>1 DEF R
  <2> QED
    BY <2>2
<1> QED
  BY <1>3 DEF Min

(* The same for a list whose elements are not typed. *)
LEMMA ListAppend ==
  ASSUME NEW q, q \in Seq(ToSet(q)), NEW e
  PROVE  /\ Append(q, e) \in Seq(ToSet(Append(q, e)))
         /\ ToSet(Append(q, e)) = ToSet(q) \cup {e}
<1> DEFINE S == ToSet(q) \cup {e}
<1>1. q \in Seq(S)
  OBVIOUS
<1> HIDE DEF S
<1>2. e \in S /\ S = ToSet(q) \cup {e}
  BY DEF S
<1>3. Append(q, e) \in Seq(S) /\ ToSet(Append(q, e)) = ToSet(q) \cup {e}
  BY <1>1, <1>2, ToSetAppend
<1> QED
  BY <1>2, <1>3

(* Removing one element moves those behind it up. *)
LEMMA RemoveAtProperties ==
  ASSUME NEW S, NEW q \in Seq(S), NEW i \in 1..Len(q)
  PROVE  /\ RemoveAt(q, i) \in Seq(S) /\ Len(RemoveAt(q, i)) = Len(q) - 1
         /\ \A j \in 1..(i - 1) : RemoveAt(q, i)[j] = q[j]
         /\ \A j \in i..(Len(q) - 1) : RemoveAt(q, i)[j] = q[j + 1]
<1> DEFINE low == SubSeq(q, 1, i - 1)
           high == SubSeq(q, i + 1, Len(q))
           r == low \o high
<1>1. /\ Len(q) \in Nat /\ i \in Nat /\ i - 1 \in Int /\ i + 1 \in Int
      /\ \A j \in 1..Len(q) : q[j] \in S
  OBVIOUS
<1>2. /\ low \in Seq(S) /\ Len(low) = i - 1
      /\ \A j \in 1..(i - 1) : low[j] = q[j]
  <2>1. \A j \in 1..(i - 1) : q[j] \in S
    BY <1>1
  <2>2. /\ low \in Seq(S) /\ Len(low) = IF 1 <= i - 1 THEN (i - 1) - 1 + 1 ELSE 0
        /\ \A j \in 1..((i - 1) - 1 + 1) : low[j] = q[1 + j - 1]
    BY <1>1, <2>1, SubSeqProperties
  <2> QED
    BY <1>1, <2>2
<1>3. /\ high \in Seq(S) /\ Len(high) = Len(q) - i
      /\ \A j \in 1..(Len(q) - i) : high[j] = q[i + j]
  <2>1. \A j \in (i + 1)..Len(q) : q[j] \in S
    BY <1>1
  <2>2. /\ high \in Seq(S)
        /\ Len(high) = IF i + 1 <= Len(q) THEN Len(q) - (i + 1) + 1 ELSE 0
        /\ \A j \in 1..(Len(q) - (i + 1) + 1) : high[j] = q[(i + 1) + j - 1]
    BY <1>1, <2>1, SubSeqProperties
  <2> QED
    BY <1>1, <2>2
<1> HIDE DEF low, high
<1>4. /\ r \in Seq(S) /\ Len(r) = Len(low) + Len(high)
      /\ \A j \in 1..(Len(low) + Len(high)) :
           r[j] = IF j <= Len(low) THEN low[j] ELSE high[j - Len(low)]
  BY <1>2, <1>3, ConcatProperties
<1>5. RemoveAt(q, i) = r
  BY DEF RemoveAt, low, high
<1> HIDE DEF r
<1>6. ASSUME NEW j \in 1..(i - 1) PROVE r[j] = q[j]
  BY <1>1, <1>2, <1>3, <1>4
<1>7. ASSUME NEW j \in i..(Len(q) - 1) PROVE r[j] = q[j + 1]
  <2>1. /\ j \in 1..(Len(low) + Len(high)) /\ ~(j <= Len(low))
        /\ j - Len(low) \in 1..(Len(q) - i) /\ i + (j - Len(low)) = j + 1
    BY <1>1, <1>2, <1>3
  <2> QED
    BY <1>3, <1>4, <2>1
<1>8. Len(r) = Len(q) - 1
  BY <1>1, <1>2, <1>3, <1>4
<1> QED
  BY <1>4, <1>5, <1>6, <1>7, <1>8

(* Removing one element keeps the others, and adds none. *)
LEMMA ListRemove ==
  ASSUME NEW S, NEW q \in Seq(S), NEW i \in 1..Len(q)
  PROVE  /\ RemoveAt(q, i) \in Seq(ToSet(RemoveAt(q, i)))
         /\ \A j \in 1..Len(q) : j # i => q[j] \in ToSet(RemoveAt(q, i))
<1> DEFINE r == RemoveAt(q, i)
<1>1. /\ r \in Seq(S) /\ Len(r) = Len(q) - 1
      /\ \A j \in 1..(i - 1) : r[j] = q[j]
      /\ \A j \in i..(Len(q) - 1) : r[j] = q[j + 1]
  BY RemoveAtProperties
<1> HIDE DEF r
<1>2. r \in Seq(ToSet(r)) /\ ToSet(r) = {r[j] : j \in 1..Len(r)}
  <2>1. Len(r) \in Nat /\ DOMAIN r = 1..Len(r) /\ r = [j \in 1..Len(r) |-> r[j]]
    BY <1>1
  <2>2. ToSet(r) = {r[j] : j \in 1..Len(r)}
    BY <2>1 DEF ToSet
  <2>3. r \in [1..Len(r) -> ToSet(r)]
    BY <2>1, <2>2
  <2> QED
    BY <2>1, <2>2, <2>3, SeqDef
<1>3. ASSUME NEW j \in 1..Len(q), j # i
      PROVE  q[j] \in ToSet(r)
  <2>0. Len(q) \in Nat /\ i \in Nat /\ j \in Nat
    OBVIOUS
  <2>1. CASE j < i
    BY <1>1, <1>2, <2>0, <2>1
  <2>2. CASE j > i
    <3>1. j - 1 \in i..(Len(q) - 1) /\ (j - 1) + 1 = j /\ j - 1 \in 1..Len(r)
      BY <1>1, <2>0, <2>2
    <3>2. r[j - 1] = q[j]
      BY <1>1, <3>1
    <3> QED
      BY <1>2, <3>1, <3>2
  <2> QED
    BY <1>3, <2>0, <2>1, <2>2
<1> QED
  BY <1>2, <1>3 DEF r

(* What FlattenSeq computes.  Its recursion is unfolded by hand: a set of
   lengths for which something fails would have a least member. *)
Flattened(q, f) ==
  /\ f = [i \in 1..Len(q) |-> f[i]]
  /\ \A i \in 1..Len(q) : f[i] = IF i = 1 THEN q[i] ELSE f[i - 1] \o q[i]

(* FlattenSeq is the last value of such a function f, if there is one. *)
LEMMA FlattenIsLast ==
  ASSUME NEW q, Len(q) # 0, \E f : Flattened(q, f)
  PROVE  \E f : Flattened(q, f) /\ FlattenSeq(q) = f[Len(q)]
<1> DEFINE Recursive(f) == f = [i \in 1..Len(q) |-> IF i = 1 THEN q[i] ELSE f[i - 1] \o q[i]]
           g == CHOOSE f : Recursive(f)
<1>1. \A f : Recursive(f) <=> Flattened(q, f)
  <2>1. ASSUME NEW f, Recursive(f) PROVE Flattened(q, f)
    BY <2>1 DEF Flattened
  <2>2. ASSUME NEW f, Flattened(q, f) PROVE Recursive(f)
    BY <2>2 DEF Flattened
  <2> QED
    BY <2>1, <2>2
<1>2. \E f : Recursive(f)
  BY <1>1
<1>3. Recursive(g)
  BY <1>2
<1>4. FlattenSeq(q) = g[Len(q)]
  BY Zenon DEF FlattenSeq
<1> HIDE DEF g, Recursive
<1> QED
  BY <1>1, <1>3, <1>4

(* There is at most one: the least place where two differ has a predecessor. *)
LEMMA FlattenedOnce ==
  ASSUME NEW q, Len(q) \in Nat, NEW f, NEW g, Flattened(q, f), Flattened(q, g)
  PROVE  f = g
<1> DEFINE Bad == {i \in 1..Len(q) : f[i] # g[i]}
<1>1. Bad = {}
  <2> SUFFICES ASSUME Bad # {} PROVE FALSE
    OBVIOUS
  <2>1. Bad \in SUBSET Nat
    OBVIOUS
  <2>2. PICK i : i \in Bad /\ \A j \in Bad : i <= j
    BY <2>1, MinIsLeast
  <2>3. i \in 1..Len(q) /\ f[i] # g[i]
    BY <2>2
  <2>4. i # 1
    BY <2>3 DEF Flattened
  <2>5. i - 1 \in 1..Len(q) /\ ~(i <= i - 1)
    BY <2>3, <2>4
  <2>6. f[i - 1] = g[i - 1]
    BY <2>2, <2>5
  <2> QED
    BY <2>3, <2>4, <2>6 DEF Flattened
<1> QED
  BY <1>1 DEF Flattened

(* There is one: a least length that has none would come after one that has. *)
LEMMA FlattenedExists ==
  ASSUME NEW S, NEW q \in Seq(Seq(S))
  PROVE  \E f : Flattened(q, f) /\ \A i \in 1..Len(q) : f[i] \in Seq(S)
<1> DEFINE Step(f, i) == f[i] = IF i = 1 THEN q[i] ELSE f[i - 1] \o q[i]
           Upto(n) == \E f \in [1..n -> Seq(S)] : \A i \in 1..n : Step(f, i)
           Bad == {n \in 0..Len(q) : ~Upto(n)}
<1>0. Len(q) \in Nat /\ \A i \in 1..Len(q) : q[i] \in Seq(S)
  OBVIOUS
<1>1. Bad = {}
  <2> SUFFICES ASSUME Bad # {} PROVE FALSE
    OBVIOUS
  <2>1. Bad \in SUBSET Nat
    BY <1>0
  <2>2. PICK n : n \in Bad /\ \A j \in Bad : n <= j
    <3> HIDE DEF Bad
    <3> QED
      BY <2>1, MinIsLeast
  <2>3. n \in 0..Len(q) /\ ~Upto(n)
    BY <2>2
  <2>4. n # 0
    <3> DEFINE f == [i \in 1..0 |-> q[i]]
    <3>1. f \in [1..0 -> Seq(S)]
      OBVIOUS
    <3>2. \A i \in 1..0 : Step(f, i)
      OBVIOUS
    <3>3. Upto(0)
      BY <3>1, <3>2
    <3> QED
      BY <2>3, <3>3
  <2>5. n - 1 \in 0..Len(q) /\ ~(n <= n - 1) /\ n \in Nat
    BY <1>0, <2>3, <2>4
  <2>6. Upto(n - 1)
    BY <2>2, <2>5
  <2>7. PICK g \in [1..(n - 1) -> Seq(S)] : \A i \in 1..(n - 1) : Step(g, i)
    BY <2>6
  <2> DEFINE f == [i \in 1..n |-> IF i < n THEN g[i]
                                  ELSE IF i = 1 THEN q[i] ELSE g[i - 1] \o q[i]]
  <2>8. ASSUME NEW i \in 1..n
        PROVE  f[i] \in Seq(S) /\ Step(f, i)
    <3>1. q[i] \in Seq(S)
      BY <1>0, <2>3
    <3>2. CASE i < n
      <4>1. i \in 1..(n - 1) /\ f[i] = g[i] /\ (i # 1 => f[i - 1] = g[i - 1])
        BY <2>5, <3>2
      <4>2. Step(g, i)
        BY <2>7, <4>1
      <4> QED
        BY <4>1, <4>2
    <3>3. CASE i = 1 /\ ~(i < n)
      BY <3>1, <3>3
    <3>4. CASE i # 1 /\ ~(i < n)
      <4>1. i - 1 \in 1..(n - 1) /\ i - 1 \in 1..n /\ i - 1 < n
        BY <2>5, <3>4
      <4>2. f[i - 1] = g[i - 1] /\ g[i - 1] \in Seq(S)
        BY <4>1
      <4>3. f[i] = g[i - 1] \o q[i]
        BY <3>4
      <4>4. g[i - 1] \o q[i] \in Seq(S)
        BY <3>1, <4>2, ConcatProperties
      <4> QED
        BY <3>4, <4>2, <4>3, <4>4
    <3> QED
      BY <3>2, <3>3, <3>4
  <2>9. f \in [1..n -> Seq(S)]
    <3>1. \A i \in 1..n : f[i] \in Seq(S)
      BY <2>8
    <3> QED
      BY <3>1
  <2> HIDE DEF f
  <2> QED
    BY <2>3, <2>8, <2>9
<1>2. Upto(Len(q))
  <2>1. Len(q) \in 0..Len(q)
    BY <1>0
  <2> HIDE DEF Upto
  <2> QED
    BY <1>1, <2>1
<1>3. PICK f \in [1..Len(q) -> Seq(S)] : \A i \in 1..Len(q) : Step(f, i)
  BY <1>2
<1> QED
  BY <1>3 DEF Flattened

(* FlattenSeq, one element at a time. *)
LEMMA FlattenSeqProperties ==
  ASSUME NEW S, NEW q \in Seq(Seq(S)), NEW m \in Seq(S)
  PROVE  /\ FlattenSeq(q) \in Seq(S)
         /\ FlattenSeq(Append(q, m)) = FlattenSeq(q) \o m
<1>0. Len(q) \in Nat
  OBVIOUS
<1>1. /\ Append(q, m) \in Seq(Seq(S)) /\ Len(Append(q, m)) = Len(q) + 1
      /\ \A i \in 1..Len(q) : Append(q, m)[i] = q[i]
      /\ Append(q, m)[Len(q) + 1] = m
  BY AppendProperties
<1>2. PICK p \in Seq(Seq(S)) : p = Append(q, m)
  BY <1>1
<1>3. PICK f : Flattened(p, f) /\ FlattenSeq(p) = f[Len(p)]
  <2>1. \E f : Flattened(p, f)
    BY FlattenedExists
  <2>2. Len(p) # 0
    BY <1>0, <1>1, <1>2
  <2> QED
    BY <2>1, <2>2, FlattenIsLast
<1>4. Len(p) = Len(q) + 1 /\ p[Len(q) + 1] = m
  BY <1>1, <1>2
<1>5. CASE Len(q) = 0
  <2>1. q = <<>> /\ FlattenSeq(q) = <<>>
    BY <1>5 DEF FlattenSeq
  <2>2. FlattenSeq(p) = m
    BY <1>3, <1>4, <1>5 DEF Flattened
  <2>3. <<>> \o m = m /\ <<>> \in Seq(S)
    BY ConcatEmptySeq
  <2> QED
    BY <1>2, <2>1, <2>2, <2>3
<1>6. CASE Len(q) # 0
  <2>1. PICK g : /\ Flattened(q, g) /\ FlattenSeq(q) = g[Len(q)]
                 /\ \A i \in 1..Len(q) : g[i] \in Seq(S)
    <3>1. PICK h : Flattened(q, h) /\ \A i \in 1..Len(q) : h[i] \in Seq(S)
      BY FlattenedExists
    <3>2. PICK g : Flattened(q, g) /\ FlattenSeq(q) = g[Len(q)]
      BY <1>6, <3>1, FlattenIsLast
    <3>3. g = h
      BY <1>0, <3>1, <3>2, FlattenedOnce
    <3> QED
      BY <3>1, <3>2, <3>3
  <2>2. PICK h : h = [i \in 1..Len(q) |-> f[i]]
    OBVIOUS
  <2>3. Flattened(q, h)
    <3>1. ASSUME NEW i \in 1..Len(q)
          PROVE  h[i] = IF i = 1 THEN q[i] ELSE h[i - 1] \o q[i]
      <4>1. i \in 1..Len(p) /\ p[i] = q[i] /\ h[i] = f[i]
        BY <1>0, <1>1, <1>2, <1>4, <2>2
      <4>2. i # 1 => h[i - 1] = f[i - 1]
        BY <1>0, <2>2
      <4> QED
        BY <1>3, <4>1, <4>2 DEF Flattened
    <3>2. h = [i \in 1..Len(q) |-> h[i]]
      BY <2>2
    <3> QED
      BY <3>1, <3>2 DEF Flattened
  <2>4. h = g
    BY <1>0, <2>1, <2>3, FlattenedOnce
  <2>5. Len(q) \in 1..Len(q) /\ Len(q) + 1 \in 1..Len(p) /\ Len(q) + 1 # 1
        /\ (Len(q) + 1) - 1 = Len(q)
    BY <1>0, <1>4, <1>6
  <2>6. f[Len(q) + 1] = f[Len(q)] \o m
    BY <1>3, <1>4, <2>5 DEF Flattened
  <2>7. f[Len(q)] = g[Len(q)]
    BY <2>2, <2>4, <2>5
  <2> QED
    BY <1>2, <1>3, <1>4, <2>1, <2>5, <2>6, <2>7
<1> QED
  BY <1>5, <1>6

-----------------------------------------------------------------------------
(* Concatenation and Append by name: the provers take \o and Append apart. *)
Cat(a, b) == a \o b
Add(a, e) == Append(a, e)

(* The empty sequence and the order of grouping. *)
LEMMA CatProperties ==
  ASSUME NEW T, NEW a \in Seq(T), NEW b \in Seq(T)
  PROVE  /\ Cat(a, b) \in Seq(T) /\ Cat(a, <<>>) = a /\ Cat(<<>>, b) = b
         /\ \A c \in Seq(T) : Cat(Cat(a, b), c) = Cat(a, Cat(b, c))
         /\ \A e \in T : /\ Add(b, e) \in Seq(T)
                         /\ Add(Cat(a, b), e) = Cat(a, Add(b, e))
<1>1. Cat(a, b) \in Seq(T) /\ Cat(a, <<>>) = a /\ Cat(<<>>, b) = b
  BY ConcatProperties, ConcatEmptySeq DEF Cat
<1>2. \A c \in Seq(T) : Cat(Cat(a, b), c) = Cat(a, Cat(b, c))
  BY DEF Cat
<1>3. \A e \in T : Add(b, e) \in Seq(T)
  BY DEF Add
<1>4. \A e \in T : Add(Cat(a, b), e) = Cat(a, Add(b, e))
  BY DEF Cat, Add
<1> QED
  BY <1>1, <1>2, <1>3, <1>4

(* FlattenSeq, by the same names. *)
LEMMA FlattenAdd ==
  ASSUME NEW S, NEW q \in Seq(Seq(S)), NEW m \in Seq(S)
  PROVE  FlattenSeq(q) \in Seq(S) /\ FlattenSeq(Add(q, m)) = Cat(FlattenSeq(q), m)
BY FlattenSeqProperties DEF Add, Cat

(* FlattenSeq of two lists, by a least length of the second that fails. *)
LEMMA FlattenCat ==
  ASSUME NEW S, NEW q \in Seq(Seq(S)), NEW r \in Seq(Seq(S))
  PROVE  FlattenSeq(Cat(q, r)) = Cat(FlattenSeq(q), FlattenSeq(r))
<1> DEFINE Cats(n) == \A p \in Seq(Seq(S)) :
             Len(p) = n => FlattenSeq(Cat(q, p)) = Cat(FlattenSeq(q), FlattenSeq(p))
           Bad == {n \in Nat : ~Cats(n)}
<1>0. <<>> \in Seq(S)
  OBVIOUS
<1>1. Bad = {}
  <2> SUFFICES ASSUME Bad # {} PROVE FALSE
    OBVIOUS
  <2>1. Bad \in SUBSET Nat
    OBVIOUS
  <2>2. PICK n : n \in Bad /\ \A j \in Bad : n <= j
    <3> HIDE DEF Bad
    <3> QED
      BY <2>1, MinIsLeast
  <2>3. PICK p \in Seq(Seq(S)) : /\ n \in Nat /\ Len(p) = n
                                 /\ FlattenSeq(Cat(q, p)) # Cat(FlattenSeq(q), FlattenSeq(p))
    BY <2>2
  <2>4. FlattenSeq(q) \in Seq(S)
    BY <1>0, FlattenAdd
  <2>5. n # 0
    <3> SUFFICES ASSUME n = 0 PROVE FALSE
      OBVIOUS
    <3>1. p = <<>>
      BY <2>3
    <3>2. FlattenSeq(p) = <<>>
      BY <3>1 DEF FlattenSeq
    <3>3. Cat(q, p) = q /\ Cat(FlattenSeq(q), <<>>) = FlattenSeq(q)
      BY <2>4, <3>1, CatProperties
    <3> QED
      BY <2>3, <3>2, <3>3
  <2>6. PICK front \in Seq(Seq(S)), last \in Seq(S) : p = Add(front, last)
    <3>1. p # <<>>
      BY <2>3, <2>5
    <3> QED
      BY <3>1, SequenceEmptyOrAppend DEF Add
  <2>7. Len(front) = n - 1 /\ n - 1 \in Nat /\ ~(n <= n - 1)
    <3>1. Len(p) = Len(front) + 1 /\ Len(front) \in Nat
      BY <2>6, AppendProperties DEF Add
    <3> QED
      BY <2>3, <3>1
  <2>8. FlattenSeq(Cat(q, front)) = Cat(FlattenSeq(q), FlattenSeq(front))
    <3>1. Cats(n - 1)
      BY <2>2, <2>7
    <3> QED
      BY <2>7, <3>1
  <2> HIDE DEF Cats, Bad
  <2>9. Cat(q, front) \in Seq(Seq(S)) /\ Cat(q, p) = Add(Cat(q, front), last)
    BY <2>6, CatProperties
  <2>10. /\ FlattenSeq(Cat(q, p)) = Cat(FlattenSeq(Cat(q, front)), last)
         /\ FlattenSeq(p) = Cat(FlattenSeq(front), last)
         /\ FlattenSeq(front) \in Seq(S)
    BY <2>6, <2>9, FlattenAdd
  <2>11. Cat(Cat(FlattenSeq(q), FlattenSeq(front)), last)
           = Cat(FlattenSeq(q), Cat(FlattenSeq(front), last))
    BY <2>4, <2>6, <2>10, CatProperties
  <2> QED
    BY <2>3, <2>8, <2>10, <2>11
<1>2. Len(r) \in Nat
  OBVIOUS
<1>3. Cats(Len(r))
  <2> HIDE DEF Cats
  <2> QED
    BY <1>1, <1>2
<1> QED
  BY <1>3

-----------------------------------------------------------------------------
(* A fold is computed with a recursive function on sets.  The library's theorem
   about it takes operators as parameters; here the step is a function of the
   position and of the value so far, and each use unfolds its own fold. *)

(* A set of numbers up to n that is not empty has a greatest one. *)
LEMMA MaxIsGreatest ==
  ASSUME NEW n \in Nat, NEW S \in SUBSET (1..n), S # {}
  PROVE  Max(S) \in S /\ \A y \in S : Max(S) >= y
<1> DEFINE R == {n - y : y \in S}
<1>1. R \in SUBSET Nat /\ R # {}
  <2>1. \A y \in S : n - y \in Nat
    OBVIOUS
  <2>2. \E y \in S : TRUE
    OBVIOUS
  <2> QED
    BY <2>1, <2>2
<1>2. PICK r \in R : \A y \in R : r <= y
  <2> HIDE DEF R
  <2> QED
    BY <1>1, MinIsLeast
<1>3. PICK x \in S : r = n - x
  BY <1>2
<1>4. \A y \in S : x >= y
  <2> TAKE y \in S
  <2>1. n - x <= n - y /\ x \in Nat /\ y \in Nat
    BY <1>2, <1>3
  <2> QED
    BY <2>1
<1>5. \E z \in S : \A y \in S : z >= y
  BY <1>4
<1> QED
  BY <1>5 DEF Max

(* The greatest of 1..n is n. *)
LEMMA MaxOfUpto ==
  ASSUME NEW n \in Nat, n # 0
  PROVE  Max(1..n) = n /\ (1..n) \ {n} = 1..(n - 1)
<1>1. /\ Max(1..n) \in 1..n
      /\ \A y \in 1..n : Max(1..n) >= y
  <2>1. 1..n \in SUBSET (1..n) /\ 1..n # {}
    OBVIOUS
  <2> QED
    BY <2>1, MaxIsGreatest
<1>2. n \in 1..n
  OBVIOUS
<1>3. Max(1..n) >= n
  BY <1>1, <1>2
<1>4. Max(1..n) = n
  BY <1>1, <1>3
<1> QED
  BY <1>4

(* The sets 1..i, by which a fold over 1..n goes up. *)
LEMMA Upto ==
  ASSUME NEW n \in Nat
  PROVE  \A i \in 1..n : /\ 1..i \in SUBSET (1..n) /\ 1..i # {} /\ i \in 0..n /\ i - 1 \in 0..n
                         /\ Max(1..i) = i /\ (1..i) \ {i} = 1..(i - 1)
<1> TAKE i \in 1..n
<1>1. 1..i \in SUBSET (1..n) /\ 1..i # {} /\ i \in 0..n /\ i - 1 \in 0..n
      /\ i \in Nat /\ i # 0
  OBVIOUS
<1>2. Max(1..i) = i /\ (1..i) \ {i} = 1..(i - 1)
  BY <1>1, MaxOfUpto
<1> QED
  BY <1>1, <1>2

(* The function a fold over the set 1..n is computed with: step i of the fold
   takes the value v so far to st[<<i, v>>]. *)
Folded(f, n, base, st) ==
  \A s \in SUBSET (1..n) : f[s] = IF s = {} THEN base ELSE st[<<Max(s), f[s \ {Max(s)}]>>]

(* There is one, by a least n that has none. *)
LEMMA FoldExists ==
  ASSUME NEW m \in Nat, NEW V, NEW base \in V, NEW st \in [(1..m) \X V -> V]
  PROVE  \E f \in [SUBSET (1..m) -> V] : Folded(f, m, base, st)
<1> DEFINE Has(n) == \E f \in [SUBSET (1..n) -> V] : Folded(f, n, base, st)
           Bad == {n \in 0..m : ~Has(n)}
<1>1. Bad = {}
  <2> SUFFICES ASSUME Bad # {} PROVE FALSE
    OBVIOUS
  <2>1. Bad \in SUBSET Nat
    OBVIOUS
  <2>2. PICK n : n \in Bad /\ \A j \in Bad : n <= j
    <3> HIDE DEF Bad
    <3> QED
      BY <2>1, MinIsLeast
  <2>3. n \in 0..m /\ ~Has(n)
    BY <2>2
  <2>4. n # 0
    <3>1. PICK f : f = [s \in SUBSET (1..0) |-> base]
      OBVIOUS
    <3>2. \A s \in SUBSET (1..0) : s = {}
      OBVIOUS
    <3>3. f \in [SUBSET (1..0) -> V] /\ \A s \in SUBSET (1..0) : f[s] = base
      BY <3>1
    <3>4. Has(0)
      BY <3>2, <3>3 DEF Folded
    <3> QED
      BY <2>3, <3>4
  <2>5. n - 1 \in 0..m /\ ~(n <= n - 1) /\ n \in Nat /\ n \in 1..m
    BY <2>3, <2>4
  <2>6. Has(n - 1)
    BY <2>2, <2>5
  <2>7. PICK g \in [SUBSET (1..(n - 1)) -> V] : Folded(g, n - 1, base, st)
    BY <2>6
  <2>8. PICK f : f = [s \in SUBSET (1..n) |-> IF n \in s THEN st[<<n, g[s \ {n}]>>] ELSE g[s]]
    OBVIOUS
  <2>9. ASSUME NEW s \in SUBSET (1..n), n \in s
        PROVE  s \ {n} \in SUBSET (1..(n - 1)) /\ Max(s) = n
    <3>1. Max(s) \in s /\ \A y \in s : Max(s) >= y
      BY <2>5, <2>9, MaxIsGreatest
    <3>2. Max(s) >= n /\ Max(s) \in 1..n
      BY <2>9, <3>1
    <3> QED
      BY <2>5, <3>2
  <2>10. ASSUME NEW s \in SUBSET (1..n), n \notin s
         PROVE  s \in SUBSET (1..(n - 1))
    BY <2>5, <2>10
  <2>11. f \in [SUBSET (1..n) -> V]
    <3>1. ASSUME NEW s \in SUBSET (1..n)
          PROVE  f[s] \in V
      <4>1. CASE n \in s
        <5>1. g[s \ {n}] \in V
          BY <2>7, <2>9, <4>1
        <5>2. <<n, g[s \ {n}]>> \in (1..m) \X V
          BY <2>5, <5>1
        <5>3. st[<<n, g[s \ {n}]>>] \in V
          BY <5>2
        <5> QED
          BY <2>8, <4>1, <5>3
      <4>2. CASE n \notin s
        BY <2>7, <2>8, <2>10, <4>2
      <4> QED
        BY <4>1, <4>2
    <3> QED
      BY <2>8, <3>1
  <2>12. Folded(f, n, base, st)
    <3> SUFFICES ASSUME NEW s \in SUBSET (1..n)
                 PROVE  f[s] = IF s = {} THEN base ELSE st[<<Max(s), f[s \ {Max(s)}]>>]
      BY DEF Folded
    <3>1. CASE n \in s
      <4>1. Max(s) = n /\ s \ {n} \in SUBSET (1..n) /\ n \notin s \ {n} /\ s # {}
        BY <2>9, <3>1
      <4>2. f[s \ {n}] = g[s \ {n}]
        BY <2>8, <4>1
      <4>3. f[s] = st[<<n, g[s \ {n}]>>]
        BY <2>8, <3>1
      <4> QED
        BY <4>1, <4>2, <4>3
    <3>2. CASE n \notin s
      <4>1. s \in SUBSET (1..(n - 1)) /\ f[s] = g[s]
        BY <2>8, <2>10, <3>2
      <4>2. f[s \ {Max(s)}] = g[s \ {Max(s)}]
        BY <2>8, <3>2
      <4> QED
        BY <2>7, <4>1, <4>2 DEF Folded
    <3> QED
      BY <3>1, <3>2
  <2> QED
    BY <2>3, <2>11, <2>12
<1>2. m \in 0..m
  OBVIOUS
<1>3. Has(m)
  <2> HIDE DEF Has
  <2> QED
    BY <1>1, <1>2
<1> QED
  BY <1>3

(* Induction over 0..n, for a set of them. *)
LEMMA AllUpto ==
  ASSUME NEW n \in Nat, NEW G, 0 \in G, \A i \in 1..n : i - 1 \in G => i \in G
  PROVE  \A i \in 0..n : i \in G
<1> DEFINE Bad == {i \in 0..n : i \notin G}
<1>1. Bad = {}
  <2> SUFFICES ASSUME Bad # {} PROVE FALSE
    OBVIOUS
  <2>1. PICK i : i \in Bad /\ \A j \in Bad : i <= j
    <3>1. Bad \in SUBSET Nat
      OBVIOUS
    <3> HIDE DEF Bad
    <3> QED
      BY <3>1, MinIsLeast
  <2>2. i \in 0..n /\ i \notin G
    BY <2>1
  <2>3. i # 0
    BY <2>2
  <2>4. i \in 1..n /\ i - 1 \in 0..n /\ ~(i <= i - 1)
    BY <2>2, <2>3
  <2>5. i - 1 \in G
    BY <2>1, <2>4
  <2> QED
    BY <2>2, <2>4, <2>5
<1> QED
  BY <1>1

-----------------------------------------------------------------------------
(* Induction over sequences, for a set of them: one that has the empty
   sequence and with each sequence the longer ones by one element has all. *)
LEMMA AllByAdd ==
  ASSUME NEW S, NEW G \in SUBSET Seq(S), <<>> \in G,
         \A q \in G : \A e \in S : Add(q, e) \in G
  PROVE  \A q \in Seq(S) : q \in G
<1> DEFINE Bad == {n \in Nat : \E q \in Seq(S) : Len(q) = n /\ q \notin G}
<1>1. Bad = {}
  <2> SUFFICES ASSUME Bad # {} PROVE FALSE
    OBVIOUS
  <2>1. PICK n : n \in Bad /\ \A j \in Bad : n <= j
    <3>1. Bad \in SUBSET Nat
      OBVIOUS
    <3> HIDE DEF Bad
    <3> QED
      BY <3>1, MinIsLeast
  <2>2. PICK q \in Seq(S) : n \in Nat /\ Len(q) = n /\ q \notin G
    BY <2>1
  <2>3. q # <<>>
    BY <2>2
  <2>4. PICK front \in Seq(S), last \in S : q = Add(front, last)
    BY <2>3, SequenceEmptyOrAppend DEF Add
  <2>5. Len(front) = n - 1 /\ n - 1 \in Nat /\ ~(n <= n - 1)
    <3>1. Len(q) = Len(front) + 1 /\ Len(front) \in Nat
      BY <2>4, AppendProperties DEF Add
    <3> QED
      BY <2>2, <3>1
  <2>6. front \in G
    BY <2>1, <2>5
  <2> QED
    BY <2>2, <2>4, <2>6
<1> TAKE q \in Seq(S)
<1>2. Len(q) \in Nat
  OBVIOUS
<1> QED
  BY <1>1, <1>2

(* The first element of a concatenation. *)
LEMMA CatFirst ==
  ASSUME NEW S, NEW a \in Seq(S), NEW b \in Seq(S)
  PROVE  /\ a # <<>> => Cat(a, b) # <<>> /\ Cat(a, b)[1] = a[1]
         /\ a = <<>> => Cat(a, b) = b
<1>1. CASE a = <<>>
  BY <1>1, CatProperties
<1>2. CASE a # <<>>
  <2>1. Len(a) \in Nat /\ Len(a) # 0 /\ Len(b) \in Nat
    BY <1>2
  <2>2. 1 \in 1..(Len(a) + Len(b)) /\ 1 <= Len(a) /\ Len(a) + Len(b) # 0
    BY <2>1
  <2>3. Len(Cat(a, b)) = Len(a) + Len(b) /\ Cat(a, b)[1] = a[1]
    BY <2>2, ConcatProperties DEF Cat
  <2>4. Cat(a, b) # <<>>
    BY <2>2, <2>3
  <2> QED
    BY <1>2, <2>3, <2>4
<1> QED
  BY <1>1, <1>2

(* A list by its first element and the others. *)
LEMMA ConsProperties ==
  ASSUME NEW S, NEW e \in S, NEW r \in Seq(S)
  PROVE  /\ Cat(<<e>>, r) \in Seq(S) /\ Cat(<<e>>, r) # <<>>
         /\ r # <<>> => /\ Head(r) \in S /\ Tail(r) \in Seq(S)
                        /\ r = Cat(<<Head(r)>>, Tail(r))
         /\ Cat(<<e>>, <<>>) = <<e>> /\ Add(<<>>, e) = <<e>>
<1>1. Cat(<<e>>, r) \in Seq(S) /\ Cat(<<e>>, r) # <<>>
  BY DEF Cat
<1>2. ASSUME r # <<>>
      PROVE  /\ Head(r) \in S /\ Tail(r) \in Seq(S)
             /\ r = Cat(<<Head(r)>>, Tail(r))
  BY <1>2 DEF Cat
<1>3. Cat(<<e>>, <<>>) = <<e>> /\ Add(<<>>, e) = <<e>>
  BY DEF Cat, Add
<1> QED
  BY <1>1, <1>2, <1>3

(* Its head and its tail. *)
LEMMA ConsHead ==
  ASSUME NEW S, NEW e \in S, NEW r \in Seq(S)
  PROVE  Head(Cat(<<e>>, r)) = e /\ Tail(Cat(<<e>>, r)) = r
BY DEF Cat

(* It grows at its end. *)
LEMMA ConsAdd ==
  ASSUME NEW S, NEW e \in S, NEW r \in Seq(S), NEW x \in S
  PROVE  Add(Cat(<<e>>, r), x) = Cat(<<e>>, Add(r, x))
BY DEF Cat, Add

(* A function of the elements, one element after the other. *)
Maps(f, S, V) == f \in [S -> V]
Mapped(a, f, q) == a = [i \in 1..Len(q) |-> f[q[i]]]

(* A longer list is mapped to one longer by the value of its last element. *)
LEMMA MapAdd ==
  ASSUME NEW S, NEW V, NEW f, Maps(f, S, V), NEW q \in Seq(S), NEW e \in S,
         NEW a, Mapped(a, f, q), NEW b, Mapped(b, f, Add(q, e))
  PROVE  a \in Seq(V) /\ b = Add(a, f[e])
<1>0. f \in [S -> V]
  BY DEF Maps
<1>1. PICK p : p = Add(q, e)
  OBVIOUS
<1>2. PICK n \in Nat : n = Len(q)
  OBVIOUS
<1>3. /\ p \in Seq(S) /\ Len(p) = n + 1 /\ p[n + 1] = e
      /\ \A i \in 1..n : p[i] = q[i]
  BY <1>1, <1>2, AppendProperties DEF Add
<1>4. a = [i \in 1..n |-> f[q[i]]]
  BY <1>2 DEF Mapped
<1>5. b = [i \in 1..(n + 1) |-> f[p[i]]]
  BY <1>1, <1>3 DEF Mapped
<1>6. a \in Seq(V) /\ Len(a) = n
  BY <1>0, <1>2, <1>4
<1>7. PICK m \in V : m = f[e]
  BY <1>0
<1>8. PICK c : c = Add(a, m)
  OBVIOUS
<1>9. /\ c \in Seq(V) /\ Len(c) = n + 1 /\ c[n + 1] = m
      /\ \A i \in 1..n : c[i] = a[i]
  BY <1>6, <1>8, AppendProperties DEF Add
<1>10. \A i \in 1..(n + 1) : c[i] = b[i]
  <2> TAKE i \in 1..(n + 1)
  <2>1. CASE i = n + 1
    BY <1>3, <1>5, <1>7, <1>9, <2>1
  <2>2. CASE i # n + 1
    <3>1. i \in 1..n
      BY <1>2, <2>2
    <3> QED
      <4>1. c[i] = a[i] /\ p[i] = q[i]
        BY <1>3, <1>9, <3>1
      <4>2. a[i] = f[q[i]]
        BY <1>4, <3>1
      <4>3. b[i] = f[p[i]]
        BY <1>5
      <4> QED
        BY <4>1, <4>2, <4>3, Zenon
  <2> QED
    BY <2>1, <2>2
<1>11. c = [i \in 1..(n + 1) |-> c[i]]
  BY <1>2, <1>9
<1>12. c = b
  BY <1>5, <1>10, <1>11
<1> QED
  BY <1>6, <1>7, <1>8, <1>12

(* Two parts of a sequence that touch. *)
LEMMA Halves ==
  ASSUME NEW S, NEW s \in Seq(S), NEW k \in Nat, NEW t \in Nat, k + t <= Len(s)
  PROVE  SubSeq(s, k + 1, Len(s)) = Cat(SubSeq(s, k + 1, k + t), SubSeq(s, k + t + 1, Len(s)))
<1>1. /\ k + 1 \in 1..(Len(s) + 1) /\ k + t \in ((k + 1) - 1)..Len(s)
      /\ Len(s) \in (k + t)..Len(s)
  OBVIOUS
<1>2. SubSeq(s, k + 1, k + t) \o SubSeq(s, (k + t) + 1, Len(s)) = SubSeq(s, k + 1, Len(s))
  BY <1>1, ConcatAdjacentSubSeq, Zenon
<1> QED
  BY <1>2, Zenon DEF Cat

(* A part of a sequence, k places on. *)
LEMMA Part ==
  ASSUME NEW S, NEW s \in Seq(S), NEW k \in Nat, NEW t \in Nat, k + t <= Len(s)
  PROVE  /\ SubSeq(s, k + 1, k + t) \in Seq(S) /\ Len(SubSeq(s, k + 1, k + t)) = t
         /\ \A i \in 1..t : SubSeq(s, k + 1, k + t)[i] = s[k + i]
<1>1. \A i \in (k + 1)..(k + t) : s[i] \in S
  OBVIOUS
<1>2. /\ SubSeq(s, k + 1, k + t) \in Seq(S)
      /\ Len(SubSeq(s, k + 1, k + t)) = IF k + 1 <= k + t THEN (k + t) - (k + 1) + 1 ELSE 0
      /\ \A i \in 1..((k + t) - (k + 1) + 1) : SubSeq(s, k + 1, k + t)[i] = s[(k + 1) + i - 1]
  BY <1>1, SubSeqProperties
<1> QED
  BY <1>2
=============================================================================
