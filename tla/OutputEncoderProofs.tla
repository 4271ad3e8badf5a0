------------------------ MODULE OutputEncoderProofs -------------------------
(* What holds of the output side for every set of packets, of ports and every
   size of the buffers: no buffer is written past its end, and, if the packets
   hold whole words, the device puts out what the clients sent.  The second is
   proved along the bytes of the queue.  Where a packet can be cut, a round
   cuts a word off (CutWord); the reader of bytes that RoundTrip compares with
   does not look across that cut (ScanCat), and the word is what the mspacket
   holds.  QueueInv keeps a place to cut at the front of the queue, CleanInv
   what joining the next packet to the bytes sent before needs. *)
EXTENDS OutputEncoder, SequenceLemmas

(* The reader of bytes: the values of its scan. *)
ScanState == [skip : BOOLEAN, out : Seq(Byte)]

(* A step of the scan, by fields: the bytes that are no undefined status. *)
LEMMA KeepTyped ==
  ASSUME NEW acc \in ScanState, NEW b \in Byte
  PROVE  /\ Keep(acc, b) \in ScanState
         /\ b \in Illegal => Keep(acc, b).skip /\ Keep(acc, b).out = acc.out
         /\ b \notin Illegal /\ ~acc.skip =>
              ~Keep(acc, b).skip /\ Keep(acc, b).out = Add(acc.out, b)
         /\ b \notin Illegal /\ b \notin Data =>
              ~Keep(acc, b).skip /\ Keep(acc, b).out = Add(acc.out, b)
         /\ b \in Data /\ b \notin Illegal /\ acc.skip => Keep(acc, b) = acc
BY DEF Keep, ScanState, Add

(* The states of a scan, one byte after the other. *)
Scanned(bs, g) ==
  /\ g \in [0..Len(bs) -> ScanState]
  /\ g[0] = Start
  /\ \A i \in 1..Len(bs) : g[i] = Keep(g[i - 1], bs[i])

(* A scan has such states, and ends in the last of them. *)
LEMMA ScanTrace ==
  ASSUME NEW bs \in Seq(Byte)
  PROVE  \E g : Scanned(bs, g) /\ Scan(bs) = g[Len(bs)]
<1>n. PICK n \in Nat : n = Len(bs)
  OBVIOUS
<1>m. n \in Nat
  BY <1>n
<1> DEFINE step == [x \in (1..n) \X ScanState |-> Keep(x[2], bs[x[1]])]
           Recursive(f) == f = [s \in SUBSET DOMAIN bs |->
                                  IF s = {} THEN Start
                                  ELSE Keep(f[s \ {Max(s)}], bs[Max(s)])]
           iter == CHOOSE f : Recursive(f)
<1>0. n \in Nat /\ DOMAIN bs = 1..n /\ n = Len(bs) /\ (\A i \in 1..n : bs[i] \in Byte) /\ Start \in ScanState
  BY <1>n DEF Start, ScanState
<1>1. Scan(bs) = iter[DOMAIN bs]
  BY Zenon DEF Scan, FoldLeft, MapThenFoldSet
<1>2. step \in [(1..n) \X ScanState -> ScanState]
  <2>1. ASSUME NEW x \in (1..n) \X ScanState
        PROVE  Keep(x[2], bs[x[1]]) \in ScanState
    BY <1>0, KeepTyped
  <2> QED
    BY <2>1
<1>3. PICK f : f \in [SUBSET (1..n) -> ScanState] /\ Folded(f, n, Start, step)
  <2> HIDE DEF step
  <2> QED
    BY <1>0, <1>2, FoldExists
<1>4. Recursive(f)
  <2>1. ASSUME NEW s \in SUBSET (1..n), s # {}
        PROVE  f[s] = Keep(f[s \ {Max(s)}], bs[Max(s)])
    <3>1. Max(s) \in s
      BY <1>0, <2>1, MaxIsGreatest
    <3>2. <<Max(s), f[s \ {Max(s)}]>> \in (1..n) \X ScanState
      BY <1>3, <3>1
    <3>3. f[s] = step[<<Max(s), f[s \ {Max(s)}]>>]
      BY <1>3, <2>1 DEF Folded
    <3> QED
      BY <3>2, <3>3
  <2>2. f[{}] = Start
    <3>1. {} \in SUBSET (1..n)
      OBVIOUS
    <3> QED
      BY <1>3, <3>1, Zenon DEF Folded
  <2>3. f = [s \in SUBSET (1..n) |-> f[s]]
    BY <1>3
  <2>4. \A s \in SUBSET (1..n) : f[s] = IF s = {} THEN Start ELSE Keep(f[s \ {Max(s)}], bs[Max(s)])
    BY <2>1, <2>2
  <2> QED
    BY <1>0, <2>3, <2>4, Zenon
<1>5. Recursive(iter)
  BY <1>4, Zenon
<1>6. ASSUME NEW k, Recursive(k)
      PROVE  k[1..0] = Start /\ \A i \in 1..n : k[1..i] = Keep(k[1..(i - 1)], bs[i])
  <2>1. \A s \in SUBSET (1..n) : k[s] = IF s = {} THEN Start
                                       ELSE Keep(k[s \ {Max(s)}], bs[Max(s)])
    <3>1. k = [s \in SUBSET (1..n) |-> IF s = {} THEN Start
                                       ELSE Keep(k[s \ {Max(s)}], bs[Max(s)])]
      <4> QED
        BY <1>0, <1>6, Zenon
    <3> QED
      BY <3>1, Zenon
  <2>2. 1..0 = {} /\ {} \in SUBSET (1..n)
    OBVIOUS
  <2>3. k[1..0] = Start
    <3> QED
      BY <2>1, <2>2, Zenon
  <2>4. ASSUME NEW i \in 1..n
        PROVE  k[1..i] = Keep(k[1..(i - 1)], bs[i])
    <3>1. 1..i \in SUBSET (1..n) /\ 1..i # {}
      BY <1>m, Upto, Zenon
    <3>2. Max(1..i) = i /\ (1..i) \ {i} = 1..(i - 1)
      BY <1>m, Upto, Zenon
    <3>3. k[1..i] = Keep(k[(1..i) \ {Max(1..i)}], bs[Max(1..i)])
      <4> QED
        BY <2>1, <3>1, Zenon
    <3> QED
      BY <3>2, <3>3
  <2> QED
    BY <2>3, <2>4
<1>7. PICK g : g = [i \in 0..n |-> f[1..i]]
  OBVIOUS
<1>8. PICK h : h = [i \in 0..n |-> iter[1..i]]
  OBVIOUS
<1>9. g[0] = Start /\ h[0] = Start /\ g \in [0..n -> ScanState]
  <2>1. 0 \in 0..n /\ \A i \in 0..n : f[1..i] \in ScanState
    <3>1. \A i \in 0..n : 1..i \in SUBSET (1..n)
      BY <1>m
    <3> QED
      BY <1>3, <1>m, <3>1
  <2>2. f[1..0] = Start
    BY <1>4, <1>6
  <2>3. iter[1..0] = Start
    BY <1>5, <1>6
  <2> HIDE DEF iter
  <2> QED
    BY <1>7, <1>8, <2>1, <2>2, <2>3
<1>10. ASSUME NEW i \in 1..n
       PROVE  g[i] = Keep(g[i - 1], bs[i]) /\ h[i] = Keep(h[i - 1], bs[i])
  <2>1. i \in 0..n /\ i - 1 \in 0..n
    BY <1>0
  <2>2. f[1..i] = Keep(f[1..(i - 1)], bs[i])
    BY <1>4, <1>6
  <2>3. iter[1..i] = Keep(iter[1..(i - 1)], bs[i])
    BY <1>5, <1>6
  <2> HIDE DEF iter
  <2> QED
    BY <1>7, <1>8, <2>1, <2>2, <2>3
<1>11. \A i \in 0..n : g[i] = h[i]
  <2>1. g[0] = h[0]
    BY <1>9
  <2>2. \A i \in 1..n : g[i - 1] = h[i - 1] => g[i] = h[i]
    BY <1>10, Zenon
  <2> HIDE DEF iter
  <2> DEFINE G == {i \in 0..n : g[i] = h[i]}
  <2>3. 0 \in G
    BY <1>m, <2>1
  <2>4. ASSUME NEW i \in 1..n, i - 1 \in G
        PROVE  i \in G
    BY <1>m, <2>2, <2>4
  <2>5. \A i \in 0..n : i \in G
    <3> HIDE DEF G
    <3> QED
      BY <1>m, <2>1, <2>3, <2>4, AllUpto
  <2> QED
    BY <2>5
<1>12. Scan(bs) = g[n]
  <2>1. n \in 0..n
    BY <1>0
  <2> HIDE DEF iter
  <2> QED
    BY <1>0, <1>1, <1>8, <1>11, <2>1
<1> QED
  BY <1>n, <1>9, <1>10, <1>12 DEF Scanned

(* A longer message is scanned one byte further. *)
LEMMA ScanAdd ==
  ASSUME NEW bs \in Seq(Byte), NEW b \in Byte
  PROVE  Scan(bs) \in ScanState /\ Scan(Add(bs, b)) = Keep(Scan(bs), b)
<1> DEFINE n == Len(bs)
<1>1. PICK p \in Seq(Byte) : p = Add(bs, b)
  BY CatProperties
<1>2. n \in Nat /\ Len(p) = n + 1 /\ (\A i \in 1..n : p[i] = bs[i]) /\ p[n + 1] = b
  BY <1>1, AppendProperties DEF Add
<1>3. PICK g : Scanned(bs, g) /\ Scan(bs) = g[n]
  BY ScanTrace
<1>4. PICK h : Scanned(p, h) /\ Scan(p) = h[n + 1]
  BY <1>2, ScanTrace
<1> HIDE DEF n
<1>5. /\ g \in [0..n -> ScanState] /\ g[0] = Start
      /\ \A i \in 1..n : g[i] = Keep(g[i - 1], bs[i])
  BY <1>3 DEF Scanned, n
<1>6. /\ h[0] = Start
      /\ \A i \in 1..(n + 1) : h[i] = Keep(h[i - 1], p[i])
  BY <1>2, <1>4 DEF Scanned
<1>7. \A i \in 0..n : g[i] = h[i]
  <2>1. g[0] = h[0] /\ n \in Nat
    BY <1>2, <1>5, <1>6
  <2>2. \A i \in 1..n : g[i - 1] = h[i - 1] => g[i] = h[i]
    <3> TAKE i \in 1..n
    <3>1. i \in 1..(n + 1) /\ p[i] = bs[i]
      BY <1>2
    <3> QED
      BY <1>5, <1>6, <3>1
  <2> DEFINE G == {i \in 0..n : g[i] = h[i]}
  <2>3. 0 \in G
    BY <2>1
  <2>4. ASSUME NEW i \in 1..n, i - 1 \in G
        PROVE  i \in G
    BY <2>1, <2>2, <2>4
  <2>5. \A i \in 0..n : i \in G
    <3> HIDE DEF G
    <3> QED
      BY <2>1, <2>3, <2>4, AllUpto
  <2> QED
    BY <2>5
<1>8. n \in 0..n /\ n + 1 \in 1..(n + 1) /\ (n + 1) - 1 = n
  BY <1>2
<1>9. h[n + 1] = Keep(h[n], b)
  BY <1>2, <1>6, <1>8
<1> QED
  BY <1>1, <1>3, <1>4, <1>5, <1>7, <1>8, <1>9

(* Nothing is scanned. *)
LEMMA ScanEmpty == Scan(<<>>) = Start /\ Start \in ScanState /\ Defined(<<>>) = <<>>
<1>1. PICK g : Scanned(<<>>, g) /\ Scan(<<>>) = g[Len(<<>>)]
  <2>1. <<>> \in Seq(Byte)
    OBVIOUS
  <2> QED
    BY <2>1, ScanTrace, Zenon
<1>2. Len(<<>>) = 0
  OBVIOUS
<1>3. Scan(<<>>) = Start
  BY <1>1, <1>2 DEF Scanned
<1> QED
  BY <1>3 DEF Defined, Start, ScanState

(* A step after bytes o that a scan does not look back at. *)
LEMMA KeepCat ==
  ASSUME NEW x \in ScanState, NEW y \in ScanState, NEW o \in Seq(Byte), NEW b \in Byte,
         x.skip = y.skip \/ b \notin Data, x.out = Cat(o, y.out)
  PROVE  Keep(x, b).skip = Keep(y, b).skip /\ Keep(x, b).out = Cat(o, Keep(y, b).out)
<1>1. x.out \in Seq(Byte) /\ y.out \in Seq(Byte) /\ x.skip \in BOOLEAN /\ y.skip \in BOOLEAN
  BY DEF ScanState
<1>2. Add(x.out, b) = Cat(o, Add(y.out, b))
  BY <1>1, CatProperties
<1>3. CASE b \in Illegal
  BY <1>1, <1>3 DEF Keep
<1>4. CASE b \notin Illegal /\ b \in Data /\ x.skip
  <2>1. y.skip
    BY <1>4, Zenon
  <2>2. Keep(x, b) = x /\ Keep(y, b) = y
    BY <1>4, <2>1, Zenon DEF Keep
  <2> QED
    BY <1>4, <2>1, <2>2, Zenon
<1>5. CASE b \notin Illegal /\ ~(b \in Data /\ x.skip)
  <2>1. ~(b \in Data /\ y.skip)
    BY <1>5, Zenon
  <2>2. /\ Keep(x, b) = [skip |-> FALSE, out |-> Add(x.out, b)]
        /\ Keep(y, b) = [skip |-> FALSE, out |-> Add(y.out, b)]
    BY <1>5, <2>1, Zenon DEF Keep, Add
  <2>3. /\ Keep(x, b).skip = FALSE /\ Keep(x, b).out = Add(x.out, b)
        /\ Keep(y, b).skip = FALSE /\ Keep(y, b).out = Add(y.out, b)
    BY <2>2
  <2> QED
    BY <1>2, <2>3, Zenon
<1> QED
  BY <1>3, <1>4, <1>5

(* The scan of two lists, unless the second continues an undefined message of
   the first. *)
LEMMA ScanCat ==
  ASSUME NEW a \in Seq(Byte), NEW b \in Seq(Byte),
         ~Scan(a).skip \/ b = <<>> \/ b[1] \notin Data
  PROVE  /\ Defined(Cat(a, b)) = Cat(Defined(a), Defined(b))
         /\ b # <<>> => Scan(Cat(a, b)).skip = Scan(b).skip
<1> DEFINE Free(q) == ~Scan(a).skip \/ q = <<>> \/ q[1] \notin Data
           Cats(q) == /\ Scan(Cat(a, q)).out = Cat(Scan(a).out, Scan(q).out)
                      /\ q # <<>> => Scan(Cat(a, q)).skip = Scan(q).skip
           G == {q \in Seq(Byte) : Free(q) => Cats(q)}
<1>0. Scan(a) \in ScanState /\ Scan(a).out \in Seq(Byte)
  <2>1. 0 \in Byte
    BY DEF Byte, Data
  <2> QED
    BY <2>1, ScanAdd DEF ScanState
<1>1. <<>> \in G
  <2>1. Cat(a, <<>>) = a /\ Cat(Scan(a).out, <<>>) = Scan(a).out
    BY <1>0, CatProperties
  <2>2. Scan(<<>>).out = <<>>
    BY ScanEmpty DEF Start
  <2>3. Cats(<<>>)
    BY <2>1, <2>2
  <2> QED
    BY <2>3
<1>2. ASSUME NEW q \in G, NEW e \in Byte
      PROVE  Add(q, e) \in G
  <2> DEFINE p == Add(q, e)
  <2>1. q \in Seq(Byte) /\ p \in Seq(Byte) /\ Cat(a, q) \in Seq(Byte)
        /\ Cat(a, p) = Add(Cat(a, q), e) /\ p # <<>>
        /\ p[1] = IF q = <<>> THEN e ELSE q[1]
    <3>1. q \in Seq(Byte)
      OBVIOUS
    <3>2. p \in Seq(Byte) /\ Cat(a, q) \in Seq(Byte) /\ Cat(a, p) = Add(Cat(a, q), e)
      BY <3>1, CatProperties
    <3>3. p # <<>> /\ p[1] = IF q = <<>> THEN e ELSE q[1]
      BY <3>1, AppendProperties DEF Add
    <3> QED
      BY <3>1, <3>2, <3>3
  <2> HIDE DEF p
  <2>2. ASSUME Free(p)
        PROVE  Cats(p)
    <3>1. Free(q)
      BY <2>1, <2>2
    <3>2. Cats(q)
      BY <3>1
    <3>3. Scan(Cat(a, q)) \in ScanState /\ Scan(q) \in ScanState
      BY <2>1, ScanAdd
    <3>4. Scan(Cat(a, q)).skip = Scan(q).skip \/ e \notin Data
      <4>1. CASE q = <<>>
        <5>1. Scan(q).skip = FALSE
          BY <4>1, ScanEmpty DEF Start
        <5>2. Cat(a, q) = a
          BY <4>1, CatProperties
        <5>3. ~Scan(a).skip \/ e \notin Data
          BY <2>1, <2>2, <4>1
        <5>4. Scan(a).skip \in BOOLEAN
          BY <1>0 DEF ScanState
        <5> QED
          BY <5>1, <5>2, <5>3, <5>4
      <4>2. CASE q # <<>>
        BY <3>2, <4>2
      <4> QED
        BY <4>1, <4>2
    <3>5. /\ Keep(Scan(Cat(a, q)), e).skip = Keep(Scan(q), e).skip
          /\ Keep(Scan(Cat(a, q)), e).out = Cat(Scan(a).out, Keep(Scan(q), e).out)
      BY <1>0, <3>2, <3>3, <3>4, KeepCat
    <3>6. Scan(Cat(a, p)) = Keep(Scan(Cat(a, q)), e)
      BY <2>1, ScanAdd
    <3>7. Scan(p) = Keep(Scan(q), e)
      BY <2>1, ScanAdd DEF p
    <3> QED
      BY <3>5, <3>6, <3>7
  <2> QED
    BY <2>1, <2>2 DEF p
<1>3. G \in SUBSET Seq(Byte)
  OBVIOUS
<1> HIDE DEF G
<1>4. b \in G
  BY <1>1, <1>2, <1>3, AllByAdd
<1>5. Free(b)
  OBVIOUS
<1> QED
  BY <1>4, <1>5 DEF G, Defined

(* Bytes without an undefined status are all kept. *)
LEMMA ScanLegal ==
  ASSUME NEW w \in Seq(Byte \ Illegal)
  PROVE  Defined(w) = w /\ ~Scan(w).skip
<1> DEFINE L == Byte \ Illegal
           G == {q \in Seq(L) : Scan(q).out = q /\ ~Scan(q).skip}
<1>1. <<>> \in G
  BY ScanEmpty DEF Start
<1>2. ASSUME NEW q \in G, NEW e \in L
      PROVE  Add(q, e) \in G
  <2>1. q \in Seq(L) /\ q \in Seq(Byte) /\ e \in Byte /\ e \notin Illegal
    OBVIOUS
  <2>2. Add(q, e) \in Seq(L)
    BY <2>1, CatProperties
  <2>3. Scan(Add(q, e)) = Keep(Scan(q), e) /\ Scan(q) \in ScanState
    BY <2>1, ScanAdd
  <2>4. Scan(q).out = q /\ ~Scan(q).skip
    OBVIOUS
  <2>5. ~Keep(Scan(q), e).skip /\ Keep(Scan(q), e).out = Add(q, e)
    BY <2>1, <2>3, <2>4, KeepTyped
  <2> QED
    BY <2>2, <2>3, <2>5
<1>3. G \in SUBSET Seq(L)
  OBVIOUS
<1> HIDE DEF G
<1>4. w \in G
  BY <1>1, <1>2, <1>3, AllByAdd
<1> QED
  BY <1>4 DEF G, Defined

(* An undefined status and its data bytes are skipped. *)
LEMMA ScanIllegal ==
  ASSUME NEW c \in Illegal, NEW d \in Seq(Data)
  PROVE  Defined(Cat(<<c>>, d)) = <<>> /\ Scan(Cat(<<c>>, d)).skip
<1> DEFINE G == {q \in Seq(Data) : Scan(Cat(<<c>>, q)).out = <<>> /\ Scan(Cat(<<c>>, q)).skip}
<1>0. <<c>> \in Seq(Byte) /\ c \in Byte /\ Data \subseteq Byte
  BY DEF Illegal, Byte, Status
<1>1. <<>> \in G
  <2>1. Cat(<<c>>, <<>>) = <<c>> /\ <<c>> = Add(<<>>, c)
    <3>1. Cat(<<c>>, <<>>) = <<c>>
      BY <1>0, CatProperties
    <3>2. <<c>> = Add(<<>>, c)
      BY DEF Add
    <3> QED
      BY <3>1, <3>2
  <2>2. Scan(Add(<<>>, c)) = Keep(Start, c)
    <3>1. <<>> \in Seq(Byte)
      OBVIOUS
    <3> QED
      BY <1>0, <3>1, ScanAdd, ScanEmpty
  <2>3. Keep(Start, c).skip /\ Keep(Start, c).out = <<>>
    BY <1>0, ScanEmpty, KeepTyped DEF Start
  <2> QED
    BY <2>1, <2>2, <2>3
<1>2. ASSUME NEW q \in G, NEW e \in Data
      PROVE  Add(q, e) \in G
  <2>1. q \in Seq(Data) /\ q \in Seq(Byte) /\ e \in Byte
    BY <1>0
  <2>2. Add(q, e) \in Seq(Data) /\ Cat(<<c>>, q) \in Seq(Byte)
        /\ Cat(<<c>>, Add(q, e)) = Add(Cat(<<c>>, q), e)
    <3>1. Cat(<<c>>, q) \in Seq(Byte) /\ Cat(<<c>>, Add(q, e)) = Add(Cat(<<c>>, q), e)
      <4>1. PICK o : o = <<c>>
        OBVIOUS
      <4>2. o \in Seq(Byte)
        BY <1>0, <4>1
      <4>3. q \in Seq(Byte) /\ e \in Byte
        BY <2>1
      <4>4. Cat(o, q) \in Seq(Byte) /\ Cat(o, Add(q, e)) = Add(Cat(o, q), e)
        BY <4>2, <4>3, CatProperties
      <4> QED
        BY <4>1, <4>4
    <3>2. Add(q, e) \in Seq(Data)
      BY <2>1 DEF Add
    <3> QED
      BY <3>1, <3>2
  <2>3. Scan(Cat(<<c>>, Add(q, e))) = Keep(Scan(Cat(<<c>>, q)), e)
        /\ Scan(Cat(<<c>>, q)) \in ScanState
    BY <2>1, <2>2, ScanAdd
  <2>4. Scan(Cat(<<c>>, q)).out = <<>> /\ Scan(Cat(<<c>>, q)).skip
    OBVIOUS
  <2>5. e \notin Illegal
    BY DEF Illegal, Data
  <2>6. Keep(Scan(Cat(<<c>>, q)), e) = Scan(Cat(<<c>>, q))
    BY <2>1, <2>3, <2>4, <2>5, KeepTyped
  <2> QED
    BY <2>2, <2>3, <2>4, <2>6
<1>3. G \in SUBSET Seq(Data)
  OBVIOUS
<1> HIDE DEF G
<1>4. d \in G
  BY <1>1, <1>2, <1>3, AllByAdd
<1> QED
  BY <1>4 DEF G, Defined

-----------------------------------------------------------------------------
(* How many bytes an mspacket takes; an undefined message takes its data
   bytes, and what follows it is a status byte. *)
LEMMA TakenTyped ==
  ASSUME NEW src \in Seq(Byte), src # <<>>
  PROVE  /\ Taken(src) \in Nat \ {0} /\ Head(src) = src[1] /\ src[1] \in Byte
         /\ Head(src) \in Illegal =>
              /\ Taken(src) <= Len(src)
              /\ \A i \in 2..Taken(src) : src[i] \in Data
              /\ Taken(src) < Len(src) => src[Taken(src) + 1] \in Status
<1> DEFINE c == Head(src)
           stops == {i \in 2..Len(src) : src[i] \in Status}
<1>1. /\ Len(src) \in Nat \ {0} /\ c = src[1] /\ c \in Byte
      /\ \A i \in 1..Len(src) : src[i] \in Byte
  OBVIOUS
<1> HIDE DEF c
<1>2. /\ RunOfData(src) \in 1..Len(src)
      /\ \A i \in 2..RunOfData(src) : src[i] \in Data
      /\ RunOfData(src) < Len(src) => src[RunOfData(src) + 1] \in Status
  <2>1. CASE stops = {}
    <3>1. RunOfData(src) = Len(src)
      BY <2>1 DEF RunOfData
    <3>2. \A i \in 2..Len(src) : src[i] \in Data
      BY <1>1, <2>1 DEF Byte
    <3> QED
      BY <1>1, <3>1, <3>2
  <2>2. CASE stops # {}
    <3>1. stops \in SUBSET Nat
      BY <1>1
    <3> HIDE DEF stops
    <3>2. Min(stops) \in stops /\ \A y \in stops : Min(stops) <= y
      BY <2>2, <3>1, MinIsLeast
    <3>3. RunOfData(src) = Min(stops) - 1
      BY <2>2 DEF RunOfData, stops
    <3>4. Min(stops) \in 2..Len(src) /\ src[Min(stops)] \in Status
      BY <3>2 DEF stops
    <3>5. ASSUME NEW i \in 2..(Min(stops) - 1)
          PROVE  src[i] \in Data
      <4>1. i \in 2..Len(src) /\ ~(Min(stops) <= i) /\ i \in 1..Len(src)
        BY <1>1, <3>4
      <4>2. i \notin stops
        BY <3>2, <4>1
      <4>3. src[i] \notin Status
        BY <4>1, <4>2 DEF stops
      <4> QED
        BY <1>1, <4>1, <4>3 DEF Byte
    <3> QED
      BY <1>1, <3>3, <3>4, <3>5
  <2> QED
    BY <2>1, <2>2
<1>3. CASE c \in Data
  <2>1. c # SysexStart /\ c \notin Illegal
    BY <1>3 DEF Data, SysexStart, Illegal
  <2>2. Taken(src) = IF Len(src) < 3 THEN Len(src) ELSE 3
    BY <1>3, <2>1 DEF Taken, c
  <2> QED
    BY <1>1, <2>1, <2>2 DEF c
<1>4. CASE c = SysexStart
  <2>1. c \notin Data /\ c \notin Illegal
    BY <1>4 DEF Data, SysexStart, Illegal
  <2>2. Taken(src) = 3
    BY <1>4, <2>1 DEF Taken, c
  <2> QED
    BY <1>1, <2>1, <2>2 DEF c
<1>5. CASE c \in Illegal
  <2>1. c \notin Data /\ c # SysexStart
    BY <1>5 DEF Data, SysexStart, Illegal
  <2>2. Taken(src) = RunOfData(src)
    BY <1>5, <2>1 DEF Taken, c
  <2> QED
    BY <1>1, <1>2, <2>2 DEF c
<1>6. CASE c \notin Data /\ c # SysexStart /\ c \notin Illegal
  <2>1. Taken(src) = BytesOf(c)
    BY <1>6 DEF Taken, c
  <2>2. MIDIDataBytes(c) \in 0..2
    BY <1>1, <1>6 DEF MIDIDataBytes, ChannelStatus, SysexStart
  <2>3. BytesOf(c) \in Nat \ {0}
    BY <2>2 DEF BytesOf
  <2> QED
    BY <1>1, <1>6, <2>1, <2>3 DEF c
<1> QED
  BY <1>3, <1>4, <1>5, <1>6

(* At most one mspacket comes of a round. *)
LEMMA WordsTyped ==
  ASSUME NEW src \in Seq(Byte), src # <<>>, NEW port \in Ports
  PROVE  /\ Words(src, port) \in Seq(Mspacket) /\ Len(Words(src, port)) <= 1
         /\ Head(src) \in Illegal => Words(src, port) = <<>>
<1>1. CASE Head(src) \in Illegal
  BY <1>1 DEF Words
<1>2. CASE Head(src) \notin Illegal
  <2> DEFINE bytes == [i \in 1..Taken(src) |-> IF i <= Len(src) THEN src[i] ELSE Unknown]
             word == [cable |-> port, bytes |-> bytes]
  <2>1. Taken(src) \in Nat
    BY TakenTyped
  <2>2. \A i \in 1..Taken(src) : (IF i <= Len(src) THEN src[i] ELSE Unknown) \in Byte \cup {Unknown}
    BY <2>1
  <2>3. bytes \in Seq(Byte \cup {Unknown})
    BY <2>1, <2>2
  <2> HIDE DEF bytes
  <2>4. word \in Mspacket
    BY <2>3 DEF Mspacket
  <2>5. Words(src, port) = <<word>>
    BY <1>2, Zenon DEF Words, bytes
  <2> HIDE DEF word
  <2>6. <<word>> \in Seq(Mspacket) /\ Len(<<word>>) <= 1
    BY <2>4
  <2> QED
    BY <1>2, <2>5, <2>6
<1> QED
  BY <1>1, <1>2

(* The elements of the queue. *)
Elems == [port : Ports, data : Packets, bytesSent : Nat]

(* The bytes of a packet that are still to send. *)
LEMMA SrcTyped ==
  ASSUME NEW wqe \in Elems
  PROVE  Src(wqe) \in Seq(Byte)
<1>1. wqe.data \in Seq(Byte) /\ wqe.bytesSent \in Nat
  BY OutputEncoderAssumption DEF Elems
<1>2. /\ Len(wqe.data) \in Nat /\ wqe.bytesSent + 1 \in Int
      /\ \A i \in (wqe.bytesSent + 1)..Len(wqe.data) : wqe.data[i] \in Byte
  BY <1>1
<1>3. SubSeq(wqe.data, wqe.bytesSent + 1, Len(wqe.data)) \in Seq(Byte)
  BY <1>2, SubSeqProperties
<1> QED
  BY <1>3 DEF Src

(* A round, and the queue after it: its first element goes or gets on by what
   was taken. *)
LEMMA RoundQueue ==
  ASSUME TypeOK, Round
  PROVE  \E wqe \in Elems, rest \in Seq(Elems), n \in Nat :
           /\ writeQueue = Cat(<<wqe>>, rest) /\ Src(wqe) \in Seq(Byte) /\ Src(wqe) # <<>>
           /\ n = wqe.bytesSent + Taken(Src(wqe))
           /\ dest' = [dest EXCEPT ![Endpoint(wqe.port)] =
                         dest[Endpoint(wqe.port)] \o Words(Src(wqe), wqe.port)]
           /\ phase = "prepare"
           /\ phase' = IF Len(dest[Endpoint(wqe.port)] \o Words(Src(wqe), wqe.port)) = BufWords
                        THEN "written" ELSE "prepare"
           /\ IF n = Len(wqe.data) THEN writeQueue' = rest
              ELSE writeQueue' = Cat(<<[port |-> wqe.port, data |-> wqe.data, bytesSent |-> n]>>, rest)
           /\ UNCHANGED <<packets, sent, played>>
<1>1. writeQueue \in Seq(Elems) /\ writeQueue # <<>>
  BY DEF TypeOK, Elems, Round
<1>2. PICK wqe \in Elems : wqe = Head(writeQueue)
  BY <1>1, HeadTailProperties
<1>3. PICK rest \in Seq(Elems) : rest = Tail(writeQueue)
  BY <1>1, HeadTailProperties
<1>4. Src(wqe) \in Seq(Byte) /\ Src(wqe) # <<>>
  BY <1>2, SrcTyped DEF Round
<1>5. PICK n : n = wqe.bytesSent + Taken(Src(wqe))
  OBVIOUS
<1>6. n \in Nat
  <2>1. Taken(Src(wqe)) \in Nat /\ wqe.bytesSent \in Nat
    BY <1>4, TakenTyped DEF Elems
  <2> QED
    BY <1>5, <2>1
<1>7. writeQueue = Cat(<<wqe>>, rest)
  BY <1>1, <1>2, <1>3 DEF Cat
<1>8. ASSUME n # Len(wqe.data)
      PROVE  writeQueue' = Cat(<<[port |-> wqe.port, data |-> wqe.data, bytesSent |-> n]>>, rest)
  <2>1. writeQueue' = [writeQueue EXCEPT ![1].bytesSent = n]
    BY <1>2, <1>5, <1>8, Zenon DEF Round
  <2>2. PICK new : new = [port |-> wqe.port, data |-> wqe.data, bytesSent |-> n]
    OBVIOUS
  <2>3. writeQueue[1] = wqe
    BY <1>1, <1>2
  <2>4. writeQueue' = [writeQueue EXCEPT ![1] = new]
    <3>1. [wqe EXCEPT !.bytesSent = n] = new
      BY <1>6, <2>2 DEF Elems
    <3>2. writeQueue' = [writeQueue EXCEPT ![1] = [writeQueue[1] EXCEPT !.bytesSent = n]]
      BY <2>1
    <3> QED
      BY <2>3, <3>1, <3>2, Zenon
  <2>5. [writeQueue EXCEPT ![1] = new] = <<new>> \o rest
    BY <1>1, <1>3
  <2> QED
    BY <2>2, <2>4, <2>5, Zenon DEF Cat
<1>9. n = Len(wqe.data) => writeQueue' = rest
  BY <1>2, <1>3, <1>5, Zenon DEF Round
<1>10. /\ dest' = [dest EXCEPT ![Endpoint(wqe.port)] =
                      dest[Endpoint(wqe.port)] \o Words(Src(wqe), wqe.port)]
       /\ phase = "prepare"
       /\ phase' = IF Len(dest[Endpoint(wqe.port)] \o Words(Src(wqe), wqe.port)) = BufWords
                    THEN "written" ELSE "prepare"
       /\ UNCHANGED <<packets, sent, played>>
  BY <1>2, Zenon DEF Round
<1> QED
  BY <1>4, <1>5, <1>6, <1>7, <1>8, <1>9, <1>10, Zenon

(* What the device can put out. *)
Out == Byte \cup {Unknown}

(* What the device puts out on port p for the mspacket w. *)
BytesFor(w, p) == IF w.cable = p THEN w.bytes ELSE <<>>

(* It puts out nothing for no mspackets. *)
LEMMA DecodedEmpty == ASSUME NEW p PROVE Decoded(<<>>, p) = <<>>
<1>1. [i \in 1..Len(<<>>) |-> IF <<>>[i].cable = p THEN <<>>[i].bytes ELSE <<>>] = <<>>
  OBVIOUS
<1>2. FlattenSeq(<<>>) = <<>>
  BY DEF FlattenSeq
<1> QED
  BY <1>1, <1>2, Zenon DEF Decoded

(* It puts out one mspacket after the other. *)
LEMMA DecodedAdd ==
  ASSUME NEW ws \in Seq(Mspacket), NEW w \in Mspacket, NEW p
  PROVE  /\ Decoded(ws, p) \in Seq(Out)
         /\ Decoded(Add(ws, w), p) = Cat(Decoded(ws, p), BytesFor(w, p))
         /\ BytesFor(w, p) \in Seq(Out)
<1>1. PICK f : f = [x \in Mspacket |-> BytesFor(x, p)]
  OBVIOUS
<1>2. f \in [Mspacket -> Seq(Out)]
  <2>1. <<>> \in Seq(Out)
    OBVIOUS
  <2> QED
    BY <1>1, <2>1 DEF Mspacket, BytesFor, Out
<1>3. ASSUME NEW v \in Seq(Mspacket), NEW a, Mapped(a, f, v)
      PROVE  Decoded(v, p) = FlattenSeq(a)
  <2>1. \A i \in 1..Len(v) : f[v[i]] = BytesFor(v[i], p)
    BY <1>1
  <2>2. a = [i \in 1..Len(v) |-> BytesFor(v[i], p)]
    BY <1>3, <2>1 DEF Mapped
  <2> QED
    BY <2>2, Zenon DEF Decoded, BytesFor
<1>4. Add(ws, w) \in Seq(Mspacket)
  BY CatProperties
<1>5. PICK a, b : Mapped(a, f, ws) /\ Mapped(b, f, Add(ws, w))
  BY DEF Mapped
<1>6. a \in Seq(Seq(Out)) /\ b = Add(a, f[w])
  <2>1. Mapped(a, f, ws)
    BY <1>5
  <2>2. Mapped(b, f, Add(ws, w))
    BY <1>5
  <2>3. Maps(f, Mspacket, Seq(Out))
    BY <1>2 DEF Maps
  <2> QED
    BY <2>1, <2>2, <2>3, MapAdd
<1>7. f[w] \in Seq(Out) /\ f[w] = BytesFor(w, p)
  BY <1>1, <1>2
<1>8. FlattenSeq(a) \in Seq(Out) /\ FlattenSeq(Add(a, f[w])) = Cat(FlattenSeq(a), f[w])
  BY <1>6, <1>7, FlattenAdd
<1>9. Decoded(ws, p) = FlattenSeq(a) /\ Decoded(Add(ws, w), p) = FlattenSeq(b)
  BY <1>3, <1>4, <1>5, Zenon
<1> QED
  BY <1>6, <1>7, <1>8, <1>9, Zenon

(* While PrepareOutput runs, a buffer has room for a null mspacket. *)
RoomInv == phase = "prepare" => \A e \in Endpoints : Len(dest[e]) < BufWords

(* Both hold at first. *)
LEMMA InitTyped == ASSUME Init PROVE TypeOK /\ RoomInv
<1>1. writeQueue \in Seq(Elems)
  BY DEF Init
<1>2. dest \in [Endpoints -> {ws \in Seq(Mspacket) : Len(ws) <= BufWords}]
  <2>1. <<>> \in {ws \in Seq(Mspacket) : Len(ws) <= BufWords}
    BY OutputEncoderAssumption
  <2> QED
    BY <2>1 DEF Init
<1>3. sent \in [Ports -> Seq(Byte)] /\ played \in [Ports -> Seq(Out)]
  BY DEF Init
<1> QED
  BY <1>1, <1>2, <1>3, OutputEncoderAssumption DEF Init, TypeOK, Elems, Out, RoomInv

(* A port has one of the two endpoints. *)
LEMMA EndpointTyped == \A p \in Ports : Endpoint(p) \in Endpoints
BY OutputEncoderAssumption DEF Endpoint, Endpoints

(* The write buffers, within their size. *)
Buffers == [Endpoints -> {ws \in Seq(Mspacket) : Len(ws) <= BufWords}]

(* Every step keeps the types and the room: a round that fills a buffer ends
   PrepareOutput. *)
LEMMA NextTyped == ASSUME TypeOK, RoomInv, [Next]_vars PROVE TypeOK' /\ RoomInv'
<1>0. /\ writeQueue \in Seq(Elems) /\ dest \in Buffers /\ phase \in {"idle", "prepare", "written"}
      /\ packets \in 0..MaxPackets /\ sent \in [Ports -> Seq(Byte)]
      /\ played \in [Ports -> Seq(Out)] /\ MaxPackets \in Nat
      /\ BufWords \in Nat /\ BufWords > 1
  BY OutputEncoderAssumption DEF TypeOK, Elems, Out, Buffers
<1>1. SUFFICES /\ writeQueue' \in Seq(Elems) /\ dest' \in Buffers
               /\ phase' \in {"idle", "prepare", "written"} /\ packets' \in 0..MaxPackets
               /\ sent' \in [Ports -> Seq(Byte)] /\ played' \in [Ports -> Seq(Out)]
               /\ phase' = "prepare" => \A e \in Endpoints : Len(dest'[e]) < BufWords
  BY DEF TypeOK, RoomInv, Elems, Out, Buffers
<1>2. ASSUME NEW p \in Ports, NEW data \in Packets, Send(p, data)
      PROVE  /\ writeQueue' \in Seq(Elems) /\ packets' \in 0..MaxPackets
             /\ sent' \in [Ports -> Seq(Byte)]
  <2>1. [port |-> p, data |-> data, bytesSent |-> 0] \in Elems
    BY DEF Elems
  <2>2. writeQueue' \in Seq(Elems)
    BY <1>0, <1>2, <2>1, AppendProperties DEF Send
  <2>3. packets' \in 0..MaxPackets
    BY <1>0, <1>2 DEF Send
  <2>4. sent[p] \o data \in Seq(Byte)
    BY <1>0, OutputEncoderAssumption, ConcatProperties
  <2> QED
    BY <1>0, <1>2, <2>2, <2>3, <2>4 DEF Send
<1>3. CASE \E p \in Ports, data \in Packets : Send(p, data)
  <2>1. PICK p \in Ports, data \in Packets : Send(p, data)
    BY <1>3
  <2>2. UNCHANGED <<dest, phase, played>> /\ phase # "prepare"
    BY <2>1 DEF Send
  <2> QED
    BY <1>0, <1>2, <2>1, <2>2
<1>4. CASE PrepareOutput
  <2>1. <<>> \in Seq(Mspacket) /\ Len(<<>>) = 0
    OBVIOUS
  <2> QED
    BY <1>0, <1>4, <2>1 DEF PrepareOutput, Buffers
<1>5. CASE Round
  <2>1. PICK wqe \in Elems, rest \in Seq(Elems), n \in Nat :
           /\ Src(wqe) \in Seq(Byte) /\ Src(wqe) # <<>>
           /\ dest' = [dest EXCEPT ![Endpoint(wqe.port)] =
                         dest[Endpoint(wqe.port)] \o Words(Src(wqe), wqe.port)]
           /\ phase = "prepare"
           /\ phase' = IF Len(dest[Endpoint(wqe.port)] \o Words(Src(wqe), wqe.port)) = BufWords
                        THEN "written" ELSE "prepare"
           /\ IF n = Len(wqe.data) THEN writeQueue' = rest
              ELSE writeQueue' = Cat(<<[port |-> wqe.port, data |-> wqe.data, bytesSent |-> n]>>, rest)
           /\ UNCHANGED <<packets, sent, played>>
    BY <1>5, RoundQueue
  <2>2. writeQueue' \in Seq(Elems)
    <3>1. PICK new \in Elems : new = [port |-> wqe.port, data |-> wqe.data, bytesSent |-> n]
      BY DEF Elems
    <3>2. <<new>> \in Seq(Elems)
      OBVIOUS
    <3>3. Cat(<<new>>, rest) \in Seq(Elems)
      BY <3>2, CatProperties
    <3> QED
      BY <2>1, <3>1, <3>3, Zenon
  <2>3. wqe.port \in Ports
    BY DEF Elems
  <2>4. PICK e \in Endpoints : e = Endpoint(wqe.port)
    BY <2>3, EndpointTyped
  <2>5. PICK ws \in Seq(Mspacket) : ws = Words(Src(wqe), wqe.port) /\ Len(ws) <= 1
    BY <2>1, <2>3, WordsTyped
  <2>6. dest[e] \in Seq(Mspacket) /\ Len(dest[e]) < BufWords
    BY <1>0, <2>1, <2>4 DEF Buffers, RoomInv
  <2>7. PICK filled \in Seq(Mspacket) : filled = dest[e] \o ws /\ Len(filled) <= BufWords
    <3>1. dest[e] \o ws \in Seq(Mspacket) /\ Len(dest[e] \o ws) = Len(dest[e]) + Len(ws)
      BY <2>6, ConcatProperties
    <3>2. Len(dest[e]) \in Nat /\ Len(ws) \in Nat
      BY <2>6
    <3>3. Len(dest[e] \o ws) <= BufWords
      <4>1. PICK x \in Nat, y \in Nat : x = Len(dest[e]) /\ y = Len(ws)
        BY <3>2
      <4>2. x < BufWords /\ y <= 1 /\ BufWords \in Nat /\ Len(dest[e] \o ws) = x + y
        BY <1>0, <2>5, <2>6, <3>1, <4>1
      <4>3. x + y <= BufWords
        BY <4>2
      <4> QED
        BY <4>2, <4>3, Zenon
    <3> QED
      BY <3>1, <3>3
  <2>8. dest' = [dest EXCEPT ![e] = filled] /\ phase' = IF Len(filled) = BufWords THEN "written" ELSE "prepare"
    BY <2>1, <2>4, <2>5, <2>7, Zenon
  <2>9. dest' \in Buffers
    BY <1>0, <2>7, <2>8 DEF Buffers
  <2>10. ASSUME phase' = "prepare", NEW x \in Endpoints
         PROVE  Len(dest'[x]) < BufWords
    <3>1. Len(filled) < BufWords
      <4>1. Len(filled) # BufWords /\ Len(filled) \in Nat
        BY <2>8, <2>10
      <4> QED
        BY <1>0, <2>7, <4>1
    <3>2. dest'[x] = IF x = e THEN filled ELSE dest[x]
      BY <1>0, <2>8 DEF Buffers
    <3>3. Len(dest[x]) < BufWords
      BY <2>1 DEF RoomInv
    <3> QED
      BY <3>1, <3>2, <3>3
  <2> QED
    BY <1>0, <2>1, <2>2, <2>8, <2>9, <2>10
<1>6. CASE QueueEmpty
  <2>1. Null \in Mspacket
    <3>1. <<>> \in Seq(Byte \cup {Unknown})
      OBVIOUS
    <3> QED
      BY <3>1 DEF Null, Mspacket
  <2>2. ASSUME NEW e \in Endpoints
        PROVE  (IF dest[e] = <<>> THEN <<>> ELSE Append(dest[e], Null))
                 \in {ws \in Seq(Mspacket) : Len(ws) <= BufWords}
    <3>1. dest[e] \in Seq(Mspacket) /\ Len(dest[e]) < BufWords /\ Len(dest[e]) \in Nat
      BY <1>0, <1>6 DEF QueueEmpty, RoomInv, Buffers
    <3>2. Append(dest[e], Null) \in Seq(Mspacket) /\ Len(Append(dest[e], Null)) = Len(dest[e]) + 1
      BY <2>1, <3>1, AppendProperties
    <3>3. Len(Append(dest[e], Null)) <= BufWords /\ Len(<<>>) <= BufWords /\ <<>> \in Seq(Mspacket)
      BY <1>0, <3>1, <3>2
    <3> QED
      BY <3>2, <3>3
  <2>3. dest' \in Buffers
    BY <1>6, <2>2 DEF QueueEmpty, Buffers
  <2> QED
    BY <1>0, <1>6, <2>3 DEF QueueEmpty
<1>7. CASE Transfer
  <2>1. ASSUME NEW p \in Ports
        PROVE  played[p] \o Decoded(dest[Endpoint(p)], p) \in Seq(Out)
    <3>1. dest[Endpoint(p)] \in Seq(Mspacket)
      BY <1>0, EndpointTyped DEF Buffers
    <3>2. Null \in Mspacket
      <4>1. <<>> \in Seq(Byte \cup {Unknown})
        OBVIOUS
      <4> QED
        BY <4>1 DEF Null, Mspacket
    <3>3. Decoded(dest[Endpoint(p)], p) \in Seq(Out)
      BY <3>1, <3>2, DecodedAdd
    <3> QED
      BY <1>0, <3>3, ConcatProperties
  <2>2. played' \in [Ports -> Seq(Out)]
    BY <1>7, <2>1 DEF Transfer
  <2> QED
    BY <1>0, <1>7, <2>2 DEF Transfer
<1>8. CASE UNCHANGED vars
  BY <1>0, <1>8 DEF vars, RoomInv
<1> QED
  BY <1>3, <1>4, <1>5, <1>6, <1>7, <1>8 DEF Next

(* The variables have their types; above all, no buffer is written past its
   end, the null mspacket included. *)
THEOREM EncoderTyped == Spec => []TypeOK
<1>1. Init => TypeOK /\ RoomInv
  BY InitTyped
<1>2. (TypeOK /\ RoomInv) /\ [Next]_vars => (TypeOK /\ RoomInv)'
  BY NextTyped
<1> QED
  BY <1>1, <1>2, PTL DEF Spec

-----------------------------------------------------------------------------
(* The rest of a packet from k on, cut after t bytes. *)
CutAt(data, k, t, src, w, r) ==
  /\ src = SubSeq(data, k + 1, Len(data))
  /\ w = SubSeq(data, k + 1, k + t)
  /\ r = SubSeq(data, k + t + 1, Len(data))

(* The word w before the cut and the rest r behind it. *)
LEMMA CutBytes ==
  ASSUME NEW data \in Seq(Byte), NEW k \in Nat, NEW t \in Nat, t # 0, k + t <= Len(data),
         NEW src, NEW w, NEW r, CutAt(data, k, t, src, w, r)
  PROVE  /\ w \in Seq(Byte) /\ w # <<>> /\ Len(w) = t /\ src = Cat(w, r)
         /\ \A i \in 1..t : w[i] = src[i] /\ i <= Len(src)
         /\ k + t = Len(data) => r = <<>>
         /\ k + t # Len(data) => t < Len(src) /\ r[1] = src[t + 1]
<1>0. /\ src = SubSeq(data, k + 1, Len(data)) /\ w = SubSeq(data, k + 1, k + t)
      /\ r = SubSeq(data, k + t + 1, Len(data))
  BY Zenon DEF CutAt
<1>1. PICK m \in Nat : m = Len(data)
  OBVIOUS
<1>2. m \in Nat
  OBVIOUS
<1>3. /\ src = Cat(w, r)
      /\ Len(src) = m - k /\ \A i \in 1..(m - k) : src[i] = data[k + i]
      /\ w \in Seq(Byte) /\ Len(w) = t /\ \A i \in 1..t : w[i] = data[k + i]
  <2>1. SubSeq(data, k + 1, Len(data)) = Cat(SubSeq(data, k + 1, k + t), SubSeq(data, k + t + 1, Len(data)))
    BY Halves, Zenon
  <2>2. /\ Len(SubSeq(data, k + 1, m)) = m - k
        /\ \A i \in 1..(m - k) : SubSeq(data, k + 1, m)[i] = data[k + i]
    <3>1. PICK u \in Nat : u = m - k
      <4>1. m \in Nat /\ k \in Nat /\ t \in Nat /\ k + t <= m
        BY <1>1
      <4>2. m - k \in Nat
        BY <4>1
      <4> QED
        BY <4>2, Zenon
    <3>2. k + u = m /\ k + u <= Len(data) /\ u \in Nat
      BY <1>1, <3>1
    <3>3. Len(SubSeq(data, k + 1, k + u)) = u
      BY <3>2, Part, Zenon
    <3>4. \A i \in 1..u : SubSeq(data, k + 1, k + u)[i] = data[k + i]
      BY <3>2, Part, Zenon
    <3> QED
      BY <3>1, <3>2, <3>3, <3>4, Zenon
  <2>3. /\ SubSeq(data, k + 1, k + t) \in Seq(Byte) /\ Len(SubSeq(data, k + 1, k + t)) = t
        /\ \A i \in 1..t : SubSeq(data, k + 1, k + t)[i] = data[k + i]
    BY Part, Zenon
  <2> QED
    BY <1>0, <1>1, <2>1, <2>2, <2>3, Zenon
<1>4. k + t <= m
  BY <1>1
<1>5. w # <<>>
  BY <1>3
<1>6. \A i \in 1..t : w[i] = src[i] /\ i <= Len(src)
  <2> TAKE i \in 1..t
  <2>1. i \in 1..(m - k) /\ i <= m - k
    BY <1>2, <1>4
  <2> QED
    BY <1>3, <2>1
<1>7. k + t = m => r = <<>>
  <2>1. ASSUME k + t = m PROVE SubSeq(data, k + t + 1, m) = <<>>
    <3>1. m < k + t + 1 /\ k + t + 1 \in Int /\ m \in Int
      BY <1>2, <2>1
    <3> QED
      BY <3>1, SubSeqEmpty
  <2> QED
    BY <1>0, <1>1, <2>1, Zenon
<1>8. ASSUME k + t # m
      PROVE  t < Len(src) /\ r[1] = src[t + 1]
  <2>1. t < m - k /\ t + 1 \in 1..(m - k) /\ k + (t + 1) = k + t + 1
        /\ k + t \in Nat /\ 1 \in 1..(m - (k + t))
    BY <1>2, <1>4, <1>8
  <2>2. \A i \in 1..(m - (k + t)) : SubSeq(data, (k + t) + 1, m)[i] = data[(k + t) + i]
    <3>1. m - (k + t) \in Nat /\ (k + t) + (m - (k + t)) = m /\ (k + t) + (m - (k + t)) <= Len(data)
      BY <1>1, <1>4
    <3>2. PICK a \in Nat, b \in Nat : a = k + t /\ b = m - (k + t) /\ a + b = m /\ a + b <= Len(data)
      BY <2>1, <3>1
    <3>3. a + b <= Len(data)
      BY <3>2
    <3>4. \A i \in 1..b : SubSeq(data, a + 1, a + b)[i] = data[a + i]
      BY <3>3, Part, Zenon
    <3> QED
      BY <3>2, <3>4
  <2>3. r[1] = data[k + t + 1]
    <3>1. r = SubSeq(data, (k + t) + 1, m)
      BY <1>0, <1>1, Zenon
    <3>2. r[1] = data[(k + t) + 1]
      BY <2>1, <2>2, <3>1, Zenon
    <3> QED
      BY <3>2, Zenon
  <2>4. src[t + 1] = data[k + t + 1]
    BY <1>3, <2>1
  <2> QED
    BY <1>3, <2>1, <2>3, <2>4
<1> QED
  BY <1>1, <1>3, <1>5, <1>6, <1>7, <1>8, Zenon

(* An undefined message. *)
LEMMA IllegalWord ==
  ASSUME NEW w \in Seq(Byte), w # <<>>, w[1] \in Illegal,
         \A i \in 2..Len(w) : w[i] \in Data
  PROVE  Defined(w) = <<>> /\ Scan(w).skip
<1>1. PICK c, d : c = w[1] /\ d = Tail(w)
  OBVIOUS
<1>2. PICK t \in Nat : t = Len(w)
  OBVIOUS
<1>3. t # 0 /\ Len(d) = t - 1 /\ d \in Seq(Byte) /\ \A i \in 1..(t - 1) : d[i] = w[i + 1]
  BY <1>1, <1>2, HeadTailProperties
<1>4. \A i \in 1..(t - 1) : d[i] \in Data
  <2> TAKE i \in 1..(t - 1)
  <2>1. i + 1 \in 2..t
    BY <1>2
  <2> QED
    BY <1>2, <1>3, <2>1
<1>5. d \in Seq(Data)
  BY <1>2, <1>3, <1>4
<1>6. w = Cat(<<c>>, d)
  BY <1>1 DEF Cat
<1>7. c \in Illegal
  BY <1>1
<1> QED
  BY <1>5, <1>6, <1>7, ScanIllegal

(* The first word of what is left of a packet that can be cut into whole
   words: its bytes are those of its mspacket, if it has one. *)
LEMMA CutWord ==
  ASSUME NEW wqe \in Elems, Cuttable(wqe.data, wqe.bytesSent), Src(wqe) # <<>>,
         NEW n \in Nat, n = wqe.bytesSent + Taken(Src(wqe)),
         NEW next \in Elems, next.data = wqe.data, next.bytesSent = n
  PROVE  \E w \in Seq(Byte) :
           /\ w # <<>> /\ Src(next) \in Seq(Byte) /\ Src(wqe) = Cat(w, Src(next))
           /\ Cuttable(wqe.data, n) /\ (n = Len(wqe.data) => Src(next) = <<>>)
           /\ \/ /\ Words(Src(wqe), wqe.port) = <<>> /\ Defined(w) = <<>> /\ Scan(w).skip
                 /\ Src(next) = <<>> \/ Src(next)[1] \notin Data
              \/ /\ Words(Src(wqe), wqe.port) = <<[cable |-> wqe.port, bytes |-> w]>>
                 /\ Defined(w) = w /\ ~Scan(w).skip
<1>1. PICK data \in Seq(Byte), k \in Nat, src \in Seq(Byte) :
        data = wqe.data /\ k = wqe.bytesSent /\ src = Src(wqe)
        /\ src = SubSeq(data, k + 1, Len(data))
  BY SrcTyped, OutputEncoderAssumption DEF Elems, Src
<1>2. PICK cuts :
        /\ cuts \in SUBSET (0..Len(data)) /\ k \in cuts
        /\ \A j \in cuts \ {Len(data)} :
             LET s == SubSeq(data, j + 1, Len(data)) IN
             /\ j + Taken(s) \in cuts
             /\ Head(s) \in Illegal \/ \A i \in 1..Taken(s) : s[i] \notin Illegal
  BY <1>1, Zenon DEF Cuttable
<1>3. src # <<>>
  BY <1>1
<1>4. PICK t : t = Taken(src)
  OBVIOUS
<1>5. t \in Nat /\ t # 0 /\ n = k + t
  BY <1>1, <1>3, <1>4, TakenTyped
<1>6. k # Len(data)
  <2>1. ASSUME k = Len(data) PROVE FALSE
    <3>1. k < k + 1 /\ k \in Int /\ k + 1 \in Int
      BY <1>1
    <3>2. SubSeq(data, k + 1, k) = <<>>
      BY <3>1, SubSeqEmpty
    <3> QED
      BY <1>1, <1>3, <2>1, <3>2
  <2> QED
    BY <2>1
<1>7. n \in cuts /\ (Head(src) \in Illegal \/ \A i \in 1..t : src[i] \notin Illegal)
  BY <1>1, <1>2, <1>4, <1>5, <1>6, Zenon
<1>8. n <= Len(data) /\ k + t <= Len(data)
  BY <1>2, <1>5, <1>7
<1>9. Cuttable(data, n)
  BY <1>2, <1>7, Zenon DEF Cuttable
<1>10. PICK w : w = SubSeq(data, k + 1, k + t)
  OBVIOUS
<1>11. PICK r : r = Src(next) /\ r = SubSeq(data, k + t + 1, Len(data))
  BY <1>1, <1>5 DEF Src
<1>12. /\ w \in Seq(Byte) /\ w # <<>> /\ Len(w) = t /\ src = Cat(w, r)
       /\ \A i \in 1..t : w[i] = src[i] /\ i <= Len(src)
       /\ k + t = Len(data) => r = <<>>
       /\ k + t # Len(data) => t < Len(src) /\ r[1] = src[t + 1]
  <2>1. data \in Seq(Byte) /\ k \in Nat /\ t \in Nat /\ t # 0 /\ k + t <= Len(data)
    BY <1>5, <1>8
  <2>2. CutAt(data, k, t, src, w, r)
    BY <1>1, <1>10, <1>11, Zenon DEF CutAt
  <2>3. w \in Seq(Byte)
    BY <2>1, <2>2, CutBytes
  <2>4. w # <<>> /\ Len(w) = t
    BY <2>1, <2>2, CutBytes
  <2>5. src = Cat(w, r)
    BY <2>1, <2>2, CutBytes
  <2>6. \A i \in 1..t : w[i] = src[i] /\ i <= Len(src)
    BY <2>1, <2>2, CutBytes
  <2>7. k + t = Len(data) => r = <<>>
    BY <2>1, <2>2, CutBytes
  <2>8. k + t # Len(data) => t < Len(src) /\ r[1] = src[t + 1]
    BY <2>1, <2>2, CutBytes
  <2> QED
    BY <2>3, <2>4, <2>5, <2>6, <2>7, <2>8
<1>13. r \in Seq(Byte)
  BY <1>11, SrcTyped
<1>14. n = Len(data) => r = <<>>
  BY <1>5, <1>12, Zenon
<1>16. Head(src) = src[1] /\ w[1] = src[1]
  <2>1. 1 \in 1..t
    BY <1>5
  <2> QED
    BY <1>3, <1>12, <2>1, TakenTyped
<1>17. CASE Head(src) \in Illegal
  <2>1. Words(src, wqe.port) = <<>>
    BY <1>17 DEF Words
  <2>2. /\ \A i \in 2..t : src[i] \in Data
        /\ t < Len(src) => src[t + 1] \in Status
    BY <1>3, <1>4, <1>17, TakenTyped
  <2>3. \A i \in 2..Len(w) : w[i] \in Data
    <3>1. \A i \in 2..t : i \in 1..t
      BY <1>5
    <3> QED
      BY <1>12, <2>2, <3>1
  <2>4. Defined(w) = <<>> /\ Scan(w).skip
    BY <1>12, <1>16, <1>17, <2>3, IllegalWord
  <2>5. r = <<>> \/ r[1] \notin Data
    <3>1. \A b \in Status : b \notin Data
      BY DEF Status, Data
    <3> QED
      BY <1>12, <2>2, <3>1, Zenon
  <2> QED
    BY <1>1, <1>9, <1>11, <1>12, <1>13, <1>14, <2>1, <2>4, <2>5, Zenon
<1>18. CASE Head(src) \notin Illegal
  <2>1. \A i \in 1..t : src[i] \notin Illegal
    BY <1>7, <1>18
  <2>2. w \in Seq(Byte \ Illegal)
    <3>1. \A i \in 1..Len(w) : w[i] \in Byte /\ w[i] \notin Illegal
      BY <1>12, <2>1
    <3> QED
      BY <1>12, <3>1
  <2>3. Defined(w) = w /\ ~Scan(w).skip
    BY <2>2, ScanLegal
  <2>4. w = [i \in 1..Taken(src) |-> IF i <= Len(src) THEN src[i] ELSE Unknown]
    <3>1. w = [i \in 1..t |-> w[i]]
      BY <1>12
    <3> QED
      BY <1>4, <1>12, <3>1
  <2>5. Words(src, wqe.port) = <<[cable |-> wqe.port, bytes |-> w]>>
    BY <1>18, <2>4, Zenon DEF Words
  <2> QED
    BY <1>1, <1>9, <1>11, <1>12, <1>13, <1>14, <2>3, <2>5, Zenon
<1> QED
  BY <1>17, <1>18

-----------------------------------------------------------------------------
(* What the queue q still has for port p. *)
PartFor(wqe, p) == IF wqe.port = p THEN Src(wqe) ELSE <<>>

UnsentOf(q, p) == FlattenSeq([i \in 1..Len(q) |-> PartFor(q[i], p)])

(* An empty queue has nothing. *)
LEMMA UnsentEmpty == ASSUME NEW p PROVE UnsentOf(<<>>, p) = <<>>
<1>1. [i \in 1..Len(<<>>) |-> PartFor(<<>>[i], p)] = <<>>
  OBVIOUS
<1>2. FlattenSeq(<<>>) = <<>>
  BY DEF FlattenSeq
<1> QED
  BY <1>1, <1>2, Zenon DEF UnsentOf

(* The last packet of the queue has the last bytes. *)
LEMMA UnsentAdd ==
  ASSUME NEW q \in Seq(Elems), NEW wqe \in Elems, NEW p
  PROVE  /\ UnsentOf(q, p) \in Seq(Byte)
         /\ UnsentOf(Add(q, wqe), p) = Cat(UnsentOf(q, p), PartFor(wqe, p))
         /\ PartFor(wqe, p) \in Seq(Byte)
<1>1. PICK f : f = [x \in Elems |-> PartFor(x, p)]
  OBVIOUS
<1>2. f \in [Elems -> Seq(Byte)]
  <2>1. <<>> \in Seq(Byte)
    OBVIOUS
  <2>2. \A x \in Elems : PartFor(x, p) \in Seq(Byte)
    BY <2>1, SrcTyped DEF PartFor
  <2> QED
    BY <1>1, <2>2
<1>3. ASSUME NEW v \in Seq(Elems), NEW a, Mapped(a, f, v)
      PROVE  UnsentOf(v, p) = FlattenSeq(a)
  <2>1. \A i \in 1..Len(v) : f[v[i]] = PartFor(v[i], p)
    BY <1>1
  <2>2. a = [i \in 1..Len(v) |-> PartFor(v[i], p)]
    BY <1>3, <2>1 DEF Mapped
  <2> QED
    BY <2>2, Zenon DEF UnsentOf
<1>4. Add(q, wqe) \in Seq(Elems)
  BY CatProperties
<1>5. PICK a, b : Mapped(a, f, q) /\ Mapped(b, f, Add(q, wqe))
  BY DEF Mapped
<1>6. a \in Seq(Seq(Byte)) /\ b = Add(a, f[wqe])
  <2>1. Mapped(a, f, q)
    BY <1>5
  <2>2. Mapped(b, f, Add(q, wqe))
    BY <1>5
  <2>3. Maps(f, Elems, Seq(Byte))
    BY <1>2 DEF Maps
  <2> QED
    BY <2>1, <2>2, <2>3, MapAdd
<1>7. f[wqe] \in Seq(Byte) /\ f[wqe] = PartFor(wqe, p)
  BY <1>1, <1>2
<1>8. FlattenSeq(a) \in Seq(Byte) /\ FlattenSeq(Add(a, f[wqe])) = Cat(FlattenSeq(a), f[wqe])
  BY <1>6, <1>7, FlattenAdd
<1>9. UnsentOf(q, p) = FlattenSeq(a) /\ UnsentOf(Add(q, wqe), p) = FlattenSeq(b)
  BY <1>3, <1>4, <1>5, Zenon
<1> QED
  BY <1>6, <1>7, <1>8, <1>9, Zenon

(* The front of the queue has the first bytes. *)
LEMMA UnsentCons ==
  ASSUME NEW q \in Seq(Elems), NEW wqe \in Elems, NEW p
  PROVE  UnsentOf(Cat(<<wqe>>, q), p) = Cat(PartFor(wqe, p), UnsentOf(q, p))
<1> DEFINE Leads(x) == UnsentOf(Cat(<<wqe>>, x), p) = Cat(PartFor(wqe, p), UnsentOf(x, p))
           G == {x \in Seq(Elems) : Leads(x)}
<1>1. <<>> \in G
  <2>1. <<>> \in Seq(Elems)
    OBVIOUS
  <2>2. Cat(<<wqe>>, <<>>) = Add(<<>>, wqe)
    BY <2>1, ConsProperties
  <2>3. UnsentOf(Add(<<>>, wqe), p) = Cat(UnsentOf(<<>>, p), PartFor(wqe, p)) /\ PartFor(wqe, p) \in Seq(Byte)
    BY <2>1, UnsentAdd
  <2>4. PICK b \in Seq(Byte) : b = PartFor(wqe, p)
    BY <2>3
  <2>5. Cat(<<>>, b) = b /\ Cat(b, <<>>) = b
    BY CatProperties
  <2> QED
    BY <2>1, <2>2, <2>3, <2>4, <2>5, UnsentEmpty
<1>2. ASSUME NEW x \in G, NEW e \in Elems
      PROVE  Add(x, e) \in G
  <2>1. x \in Seq(Elems) /\ Leads(x)
    OBVIOUS
  <2>2. Add(x, e) \in Seq(Elems) /\ Cat(<<wqe>>, x) \in Seq(Elems)
        /\ Cat(<<wqe>>, Add(x, e)) = Add(Cat(<<wqe>>, x), e)
    <3>1. Add(x, e) \in Seq(Elems)
      BY <2>1, CatProperties
    <3>2. Cat(<<wqe>>, x) \in Seq(Elems)
      BY <2>1, ConsProperties, Zenon
    <3>3. Add(Cat(<<wqe>>, x), e) = Cat(<<wqe>>, Add(x, e))
      BY <2>1, ConsAdd
    <3> QED
      BY <3>1, <3>2, <3>3, Zenon
  <2>3. UnsentOf(Add(Cat(<<wqe>>, x), e), p) = Cat(UnsentOf(Cat(<<wqe>>, x), p), PartFor(e, p))
    BY <2>2, UnsentAdd
  <2>4. UnsentOf(Add(x, e), p) = Cat(UnsentOf(x, p), PartFor(e, p))
    BY <2>1, UnsentAdd
  <2>5. PartFor(wqe, p) \in Seq(Byte) /\ UnsentOf(x, p) \in Seq(Byte) /\ PartFor(e, p) \in Seq(Byte)
    BY <2>1, UnsentAdd
  <2>6. Cat(Cat(PartFor(wqe, p), UnsentOf(x, p)), PartFor(e, p))
          = Cat(PartFor(wqe, p), Cat(UnsentOf(x, p), PartFor(e, p)))
    BY <2>5, CatProperties
  <2>7. Leads(Add(x, e))
    BY <2>1, <2>2, <2>3, <2>4, <2>6, Zenon
  <2> QED
    BY <2>2, <2>7
<1>3. G \in SUBSET Seq(Elems)
  OBVIOUS
<1> HIDE DEF G
<1>4. q \in G
  BY <1>1, <1>2, <1>3, AllByAdd
<1> QED
  BY <1>4 DEF G

(* A packet of which nothing was sent. *)
LEMMA SrcFresh ==
  ASSUME NEW wqe \in Elems, wqe.bytesSent = 0
  PROVE  Src(wqe) = wqe.data /\ wqe.data \in Packets /\ wqe.data \in Seq(Byte)
<1>1. wqe.data \in Packets /\ wqe.data \in Seq(Byte)
  BY OutputEncoderAssumption DEF Elems
<1>2. PICK d \in Seq(Byte) : d = wqe.data
  BY <1>1
<1>3. SubSeq(d, 0 + 1, Len(d)) = d
  OBVIOUS
<1> QED
  BY <1>1, <1>2, <1>3 DEF Src

(* Packets of which nothing was sent and that begin with a status byte. *)
Starting == {wqe \in Elems : wqe.bytesSent = 0 /\ (wqe.data = <<>> \/ wqe.data[1] \notin Data)}

(* What waits behind the front begins with a status byte if every packet does. *)
LEMMA UnsentFirst ==
  ASSUME NEW q \in Seq(Starting), NEW p
  PROVE  UnsentOf(q, p) = <<>> \/ UnsentOf(q, p)[1] \notin Data
<1> DEFINE First(x) == UnsentOf(x, p) = <<>> \/ UnsentOf(x, p)[1] \notin Data
           G == {x \in Seq(Starting) : First(x)}
<1>1. <<>> \in G
  BY UnsentEmpty
<1>2. ASSUME NEW x \in G, NEW e \in Starting
      PROVE  Add(x, e) \in G
  <2>1. x \in Seq(Starting) /\ x \in Seq(Elems) /\ e \in Elems /\ First(x)
    BY DEF Starting
  <2>2. Add(x, e) \in Seq(Starting)
    BY <2>1, CatProperties
  <2>3. UnsentOf(Add(x, e), p) = Cat(UnsentOf(x, p), PartFor(e, p))
        /\ UnsentOf(x, p) \in Seq(Byte) /\ PartFor(e, p) \in Seq(Byte)
    BY <2>1, UnsentAdd
  <2>4. PartFor(e, p) = <<>> \/ PartFor(e, p)[1] \notin Data
    <3>1. Src(e) = e.data /\ (e.data = <<>> \/ e.data[1] \notin Data)
      BY <2>1, SrcFresh DEF Starting
    <3> QED
      BY <3>1 DEF PartFor
  <2>5. First(Add(x, e))
    BY <2>1, <2>3, <2>4, CatFirst
  <2> QED
    BY <2>2, <2>5
<1>3. G \in SUBSET Seq(Starting)
  OBVIOUS
<1> HIDE DEF G
<1>4. q \in G
  BY <1>1, <1>2, <1>3, AllByAdd
<1> QED
  BY <1>4 DEF G

(* Packets that do not end inside an undefined message. *)
Ending == {wqe \in Elems : ~Scan(Src(wqe)).skip}

(* If no packet ends inside an undefined message, the queue does not either. *)
LEMMA UnsentEnds ==
  ASSUME NEW q \in Seq(Ending), NEW p
  PROVE  ~Scan(UnsentOf(q, p)).skip
<1> DEFINE Ends(x) == ~Scan(UnsentOf(x, p)).skip
           G == {x \in Seq(Ending) : Ends(x)}
<1>0. ~Scan(<<>>).skip
  BY ScanEmpty DEF Start
<1>1. <<>> \in G
  BY <1>0, UnsentEmpty
<1>2. ASSUME NEW x \in G, NEW e \in Ending
      PROVE  Add(x, e) \in G
  <2>1. x \in Seq(Ending) /\ x \in Seq(Elems) /\ e \in Elems /\ Ends(x)
    BY DEF Ending
  <2>2. Add(x, e) \in Seq(Ending)
    BY <2>1, CatProperties
  <2>3. PICK a \in Seq(Byte), b \in Seq(Byte) :
          a = UnsentOf(x, p) /\ b = PartFor(e, p) /\ UnsentOf(Add(x, e), p) = Cat(a, b)
    BY <2>1, UnsentAdd
  <2>4. ~Scan(a).skip
    BY <2>1, <2>3
  <2>5. ~Scan(b).skip
    BY <1>0, <2>3 DEF PartFor, Ending
  <2>6. ~Scan(Cat(a, b)).skip
    <3>1. CASE b = <<>>
      <4>1. Cat(a, b) = a
        BY <3>1, CatProperties
      <4> QED
        BY <2>4, <4>1
    <3>2. CASE b # <<>>
      <4>1. Scan(Cat(a, b)).skip = Scan(b).skip
        BY <2>4, <3>2, ScanCat
      <4> QED
        BY <2>5, <4>1
    <3> QED
      BY <3>1, <3>2
  <2> QED
    BY <2>2, <2>3, <2>6
<1>3. G \in SUBSET Seq(Ending)
  OBVIOUS
<1> HIDE DEF G
<1>4. q \in G
  BY <1>1, <1>2, <1>3, AllByAdd
<1> QED
  BY <1>4 DEF G

-----------------------------------------------------------------------------
(* No packet ends inside an undefined message. *)
Clean == \A d \in Packets : ~Scan(d).skip

(* Elements of the queue whose rest can be cut into whole words, and those of
   which nothing was sent. *)
Held == {wqe \in Elems : Cuttable(wqe.data, wqe.bytesSent) /\ (Clean => ~Scan(Src(wqe)).skip)}

Fresh == {wqe \in Held : wqe.bytesSent = 0}

(* The queue can be cut at its front, and behind the front nothing was sent. *)
QueueInv == writeQueue = <<>> \/ \E wqe \in Held, rest \in Seq(Fresh) : writeQueue = Cat(<<wqe>>, rest)

(* If no packet ends inside an undefined message, what was sent does not. *)
CleanInv == Clean => \A p \in Ports : ~Scan(sent[p]).skip

(* Undefined messages that straddle packets: a packet without a stray data byte
   follows. *)
LEMMA NoStray ==
  ASSUME NoStrayData(Packets), ~Clean
  PROVE  \A d \in Packets : d = <<>> \/ d[1] \notin Data
<1>1. PICK c \in Packets : Scan(c).skip
  BY DEF Clean
<1>2. \A d \in Packets : d # <<>> => Head(d) \notin Data
  BY <1>1, Zenon DEF NoStrayData
<1>3. \A d \in Packets : d # <<>> => Head(d) = d[1]
  BY OutputEncoderAssumption
<1> QED
  BY <1>2, <1>3

(* A packet is joined to what was sent before, message by message. *)
LEMMA ScanJoin ==
  ASSUME NoStrayData(Packets), NEW x \in Seq(Byte), Clean => ~Scan(x).skip, NEW d \in Packets
  PROVE  /\ Defined(Cat(x, d)) = Cat(Defined(x), Defined(d))
         /\ Clean => ~Scan(Cat(x, d)).skip
<1>1. d \in Seq(Byte)
  BY OutputEncoderAssumption
<1>2. ~Scan(x).skip \/ d = <<>> \/ d[1] \notin Data
  BY NoStray
<1>3. /\ Defined(Cat(x, d)) = Cat(Defined(x), Defined(d))
      /\ d # <<>> => Scan(Cat(x, d)).skip = Scan(d).skip
  BY <1>1, <1>2, ScanCat
<1>4. d = <<>> => Cat(x, d) = x
  BY <1>1, CatProperties
<1>5. Clean => ~Scan(d).skip
  BY DEF Clean
<1> QED
  BY <1>3, <1>4, <1>5

(* The bytes that are queued for a port. *)
LEMMA QueueTyped ==
  ASSUME TypeOK, QueueInv, NEW p
  PROVE  /\ Unsent(p) = UnsentOf(writeQueue, p) /\ Unsent(p)' = UnsentOf(writeQueue', p)
         /\ Unsent(p) \in Seq(Byte) /\ (Clean => ~Scan(Unsent(p)).skip)
<1>1. Unsent(p) = UnsentOf(writeQueue, p) /\ Unsent(p)' = UnsentOf(writeQueue', p)
  BY Zenon DEF Unsent, UnsentOf, PartFor
<1>2. writeQueue \in Seq(Elems)
  BY DEF TypeOK, Elems
<1>3. UnsentOf(writeQueue, p) \in Seq(Byte)
  <2>1. CASE writeQueue = <<>>
    <3>1. <<>> \in Seq(Byte)
      OBVIOUS
    <3> QED
      BY <2>1, <3>1, UnsentEmpty, Zenon
  <2>2. CASE writeQueue # <<>>
    <3>1. Head(writeQueue) \in Elems
      BY <1>2, <2>2, HeadTailProperties
    <3> QED
      BY <1>2, <3>1, UnsentAdd
  <2> QED
    BY <2>1, <2>2
<1>4. ASSUME Clean
      PROVE  ~Scan(UnsentOf(writeQueue, p)).skip
  <2>1. writeQueue \in Seq(Ending)
    <3>1. CASE writeQueue = <<>>
      BY <3>1
    <3>2. CASE writeQueue # <<>>
      <4>1. PICK wqe \in Held, rest \in Seq(Fresh) : writeQueue = Cat(<<wqe>>, rest)
        BY <3>2 DEF QueueInv
      <4>2. Held \subseteq Ending /\ Fresh \subseteq Ending
        BY <1>4 DEF Held, Fresh, Ending
      <4>3. wqe \in Ending /\ rest \in Seq(Ending)
        BY <4>2
      <4> QED
        BY <4>1, <4>3, ConsProperties
    <3> QED
      BY <3>1, <3>2
  <2> QED
    BY <2>1, UnsentEnds
<1> QED
  BY <1>1, <1>3, <1>4

(* What is in the buffers. *)
Buffered(p) == IF phase = "idle" THEN <<>> ELSE Decoded(dest[Endpoint(p)], p)

(* RoundTrip, by the names used here. *)
LEMMA RoundTripCat ==
  /\ RoundTrip <=> \A p \in Ports :
       Defined(sent[p]) = Cat(Cat(played[p], Buffered(p)), Defined(Unsent(p)))
  /\ RoundTrip' <=> \A p \in Ports :
       Defined(sent'[p]) = Cat(Cat(played'[p], Buffered(p)'), Defined(Unsent(p)'))
BY Zenon DEF RoundTrip, Buffered, Cat

(* The bytes in the buffers. *)
LEMMA BufferedTyped ==
  ASSUME TypeOK, NEW p \in Ports
  PROVE  /\ Buffered(p) \in Seq(Out) /\ played[p] \in Seq(Out) /\ sent[p] \in Seq(Byte)
         /\ dest[Endpoint(p)] \in Seq(Mspacket) /\ Decoded(dest[Endpoint(p)], p) \in Seq(Out)
<1>1. Null \in Mspacket
  <2>1. <<>> \in Seq(Byte \cup {Unknown})
    OBVIOUS
  <2> QED
    BY <2>1 DEF Null, Mspacket
<1>2. dest[Endpoint(p)] \in Seq(Mspacket)
  BY EndpointTyped DEF TypeOK
<1>3. Decoded(dest[Endpoint(p)], p) \in Seq(Out)
  BY <1>1, <1>2, DecodedAdd
<1>4. Buffered(p) \in Seq(Out)
  <2>1. <<>> \in Seq(Out)
    OBVIOUS
  <2> QED
    BY <1>3, <2>1, Zenon DEF Buffered
<1> QED
  BY <1>2, <1>3, <1>4 DEF TypeOK, Out

(* The defined messages of some bytes are bytes. *)
LEMMA DefinedTyped ==
  ASSUME NEW bs \in Seq(Byte)
  PROVE  Defined(bs) \in Seq(Byte) /\ Defined(bs) \in Seq(Out)
<1>1. 0 \in Byte
  BY DEF Byte, Data
<1>2. Scan(bs) \in ScanState
  BY <1>1, ScanAdd
<1>3. Defined(bs) \in Seq(Byte)
  BY <1>2 DEF Defined, ScanState
<1> QED
  BY <1>3 DEF Out

(* Send, the new packet at the end of the queue. *)
LEMMA SendRoundTrip ==
  ASSUME TypeOK, QueueInv, CleanInv, RoundTrip, WholeWords(Packets), NoStrayData(Packets),
         NEW p \in Ports, NEW data \in Packets, Send(p, data)
  PROVE  QueueInv' /\ CleanInv' /\ RoundTrip'
<1>1. PICK new \in Elems : new = [port |-> p, data |-> data, bytesSent |-> 0]
  BY DEF Elems
<1>2. new \in Elems /\ new.port = p /\ new.data = data /\ new.bytesSent = 0
  BY <1>1
<1>3. Src(new) = data /\ data \in Seq(Byte)
  BY <1>2, SrcFresh
<1>4. new \in Fresh
  <2>1. Cuttable(data, 0)
    BY Zenon DEF WholeWords
  <2>2. Clean => ~Scan(data).skip
    BY DEF Clean
  <2> QED
    BY <1>2, <1>3, <2>1, <2>2 DEF Fresh, Held
<1>5. writeQueue' = Add(writeQueue, new) /\ sent' = [sent EXCEPT ![p] = Cat(sent[p], data)]
      /\ UNCHANGED <<dest, phase, played>>
  BY <1>1, Zenon DEF Send, Add, Cat
<1>6. writeQueue \in Seq(Elems)
  BY DEF TypeOK, Elems
<1>7. QueueInv'
  <2>1. CASE writeQueue = <<>>
    <3>1. <<>> \in Seq(Fresh)
      OBVIOUS
    <3>2. Add(<<>>, new) = Cat(<<new>>, <<>>)
      BY <1>4, <3>1, ConsProperties
    <3> QED
      BY <1>4, <1>5, <2>1, <3>1, <3>2 DEF QueueInv, Fresh
  <2>2. CASE writeQueue # <<>>
    <3>1. PICK wqe \in Held, rest \in Seq(Fresh) : writeQueue = Cat(<<wqe>>, rest)
      BY <2>2 DEF QueueInv
    <3>2. Fresh \subseteq Held
      BY DEF Fresh
    <3>3. rest \in Seq(Held) /\ new \in Held
      BY <1>4, <3>2
    <3>4. Add(Cat(<<wqe>>, rest), new) = Cat(<<wqe>>, Add(rest, new))
      BY <3>3, ConsAdd
    <3>5. Add(rest, new) \in Seq(Fresh)
      BY <1>4, CatProperties
    <3> QED
      BY <1>5, <3>1, <3>4, <3>5 DEF QueueInv
  <2> QED
    BY <2>1, <2>2
<1>8. sent \in [Ports -> Seq(Byte)]
  BY DEF TypeOK
<1>9. sent'[p] = Cat(sent[p], data) /\ \A x \in Ports : x # p => sent'[x] = sent[x]
  BY <1>5, <1>8
<1>10. sent[p] \in Seq(Byte) /\ (Clean => ~Scan(sent[p]).skip)
  BY <1>8 DEF CleanInv
<1>11. /\ Defined(Cat(sent[p], data)) = Cat(Defined(sent[p]), Defined(data))
       /\ Clean => ~Scan(Cat(sent[p], data)).skip
  BY <1>10, ScanJoin
<1>12. CleanInv'
  <2>1. ASSUME Clean, NEW x \in Ports
        PROVE  ~Scan(sent'[x]).skip
    <3>1. ~Scan(sent[x]).skip
      BY <2>1 DEF CleanInv
    <3> QED
      BY <1>9, <1>11, <2>1, <3>1
  <2> QED
    BY <2>1 DEF CleanInv
<1>13. ASSUME NEW x \in Ports
       PROVE  Defined(sent'[x]) = Cat(Cat(played'[x], Buffered(x)'), Defined(Unsent(x)'))
  <2>1. Defined(sent[x]) = Cat(Cat(played[x], Buffered(x)), Defined(Unsent(x)))
    BY RoundTripCat
  <2>2. played'[x] = played[x] /\ Buffered(x)' = Buffered(x)
    BY <1>5 DEF Buffered
  <2>3. /\ Unsent(x) = UnsentOf(writeQueue, x) /\ Unsent(x)' = UnsentOf(writeQueue', x)
        /\ Unsent(x) \in Seq(Byte) /\ (Clean => ~Scan(Unsent(x)).skip)
    BY QueueTyped
  <2>4. Unsent(x)' = Cat(Unsent(x), PartFor(new, x))
    BY <1>2, <1>5, <1>6, <2>3, UnsentAdd
  <2>5. CASE x = p
    <3>1. PartFor(new, x) = data
      BY <1>2, <1>3, <2>5 DEF PartFor
    <3>2. Defined(Unsent(x)') = Cat(Defined(Unsent(x)), Defined(data))
      BY <2>3, <2>4, <3>1, ScanJoin
    <3>3. PICK a \in Seq(Out), b \in Seq(Out), c \in Seq(Out) :
            a = Cat(played[x], Buffered(x)) /\ b = Defined(Unsent(x)) /\ c = Defined(data)
      BY <1>3, <2>3, BufferedTyped, CatProperties, DefinedTyped
    <3>4. Cat(Cat(a, b), c) = Cat(a, Cat(b, c))
      BY CatProperties
    <3> QED
      BY <1>9, <1>11, <2>1, <2>2, <2>5, <3>2, <3>3, <3>4
  <2>6. CASE x # p
    <3>1. PartFor(new, x) = <<>>
      BY <1>2, <2>6 DEF PartFor
    <3>2. Cat(Unsent(x), <<>>) = Unsent(x)
      BY <2>3, CatProperties
    <3> QED
      BY <1>9, <2>1, <2>2, <2>4, <2>6, <3>1, <3>2
  <2> QED
    BY <2>5, <2>6
<1> QED
  BY <1>7, <1>12, <1>13, RoundTripCat

(* The first word of the front packet leaves the queue and, unless it is an
   undefined message, enters the buffer. *)
LEMMA RoundWord ==
  ASSUME TypeOK, QueueInv, NoStrayData(Packets), Round
  PROVE  \E port \in Ports, w \in Seq(Byte), ws \in Seq(Mspacket) :
           /\ QueueInv'
           /\ Unsent(port) = Cat(w, Unsent(port)') /\ Unsent(port)' \in Seq(Byte)
           /\ \A x \in Ports : x # port => Unsent(x)' = Unsent(x)
           /\ Defined(Unsent(port)) = Cat(Defined(w), Defined(Unsent(port)'))
           /\ \/ ws = <<>> /\ Defined(w) = <<>>
              \/ ws = <<[cable |-> port, bytes |-> w]>> /\ Defined(w) = w
           /\ dest' = [dest EXCEPT ![Endpoint(port)] = dest[Endpoint(port)] \o ws]
<1>1. PICK wqe \in Elems, rest \in Seq(Elems), n \in Nat :
           /\ writeQueue = Cat(<<wqe>>, rest) /\ Src(wqe) \in Seq(Byte) /\ Src(wqe) # <<>>
           /\ n = wqe.bytesSent + Taken(Src(wqe))
           /\ dest' = [dest EXCEPT ![Endpoint(wqe.port)] =
                         dest[Endpoint(wqe.port)] \o Words(Src(wqe), wqe.port)]
           /\ IF n = Len(wqe.data) THEN writeQueue' = rest
              ELSE writeQueue' = Cat(<<[port |-> wqe.port, data |-> wqe.data, bytesSent |-> n]>>, rest)
  BY RoundQueue
<1>2. wqe \in Held /\ rest \in Seq(Fresh)
  <2>1. Cat(<<wqe>>, rest) # <<>>
    BY ConsProperties
  <2>2. PICK f \in Held, r \in Seq(Fresh) : writeQueue = Cat(<<f>>, r)
    BY <1>1, <2>1 DEF QueueInv
  <2>3. Fresh \subseteq Elems /\ Held \subseteq Elems
    BY DEF Fresh, Held
  <2>4. f \in Elems /\ r \in Seq(Elems)
    BY <2>3
  <2>5. Head(Cat(<<wqe>>, rest)) = wqe /\ Tail(Cat(<<wqe>>, rest)) = rest
    BY ConsHead
  <2>6. Head(Cat(<<f>>, r)) = f /\ Tail(Cat(<<f>>, r)) = r
    BY <2>4, ConsHead
  <2> QED
    BY <1>1, <2>2, <2>5, <2>6
<1>3. PICK next \in Elems : next = [port |-> wqe.port, data |-> wqe.data, bytesSent |-> n]
  BY DEF Elems
<1>4. next.port = wqe.port /\ next.data = wqe.data /\ next.bytesSent = n
  BY <1>3
<1>5. Cuttable(wqe.data, wqe.bytesSent) /\ (Clean => ~Scan(Src(wqe)).skip)
  BY <1>2 DEF Held
<1>6. PICK w \in Seq(Byte) :
           /\ w # <<>> /\ Src(next) \in Seq(Byte) /\ Src(wqe) = Cat(w, Src(next))
           /\ Cuttable(wqe.data, n) /\ (n = Len(wqe.data) => Src(next) = <<>>)
           /\ \/ /\ Words(Src(wqe), wqe.port) = <<>> /\ Defined(w) = <<>> /\ Scan(w).skip
                 /\ Src(next) = <<>> \/ Src(next)[1] \notin Data
              \/ /\ Words(Src(wqe), wqe.port) = <<[cable |-> wqe.port, bytes |-> w]>>
                 /\ Defined(w) = w /\ ~Scan(w).skip
  BY <1>1, <1>4, <1>5, CutWord
<1>7. ~Scan(w).skip \/ Src(next) = <<>> \/ Src(next)[1] \notin Data
  BY <1>6
<1>8. next \in Held
  <2>1. ASSUME Clean
        PROVE  ~Scan(Src(next)).skip
    <3>1. CASE Src(next) = <<>>
      BY <3>1, ScanEmpty DEF Start
    <3>2. CASE Src(next) # <<>>
      <4>1. Scan(Cat(w, Src(next))).skip = Scan(Src(next)).skip
        BY <1>6, <1>7, <3>2, ScanCat
      <4> QED
        BY <1>5, <1>6, <2>1, <4>1
    <3> QED
      BY <3>1, <3>2
  <2> QED
    BY <1>4, <1>6, <2>1 DEF Held
<1>9. QueueInv'
  <2>1. CASE n = Len(wqe.data)
    <3>1. writeQueue' = rest
      BY <1>1, <2>1
    <3>2. CASE rest = <<>>
      BY <3>1, <3>2 DEF QueueInv
    <3>3. CASE rest # <<>>
      <4>1. \A f \in Fresh : f \in Held
        BY DEF Fresh
      <4>2. Head(rest) \in Fresh /\ Tail(rest) \in Seq(Fresh)
        BY <1>2, <3>3, HeadTailProperties
      <4>3. rest = Cat(<<Head(rest)>>, Tail(rest))
        BY <3>3, ConsProperties
      <4>4. writeQueue' = Cat(<<Head(rest)>>, Tail(rest)) /\ Head(rest) \in Held
        BY <3>1, <4>1, <4>2, <4>3
      <4> QED
        BY <4>2, <4>4 DEF QueueInv
    <3> QED
      BY <3>2, <3>3
  <2>2. CASE n # Len(wqe.data)
    <3>1. writeQueue' = Cat(<<next>>, rest)
      BY <1>1, <1>3, <2>2
    <3> QED
      BY <1>2, <1>8, <3>1 DEF QueueInv
  <2> QED
    BY <2>1, <2>2
<1>10. ASSUME NEW x \in Ports
       PROVE  /\ Unsent(x) = Cat(PartFor(wqe, x), UnsentOf(rest, x))
              /\ Unsent(x)' = Cat(PartFor(next, x), UnsentOf(rest, x))
              /\ UnsentOf(rest, x) \in Seq(Byte)
  <2>1. Unsent(x) = UnsentOf(writeQueue, x) /\ Unsent(x)' = UnsentOf(writeQueue', x)
    BY QueueTyped
  <2>2. Unsent(x) = Cat(PartFor(wqe, x), UnsentOf(rest, x))
    BY <1>1, <2>1, UnsentCons
  <2>3. UnsentOf(rest, x) \in Seq(Byte)
    BY UnsentAdd
  <2>4. CASE n = Len(wqe.data)
    <3>1. writeQueue' = rest
      BY <1>1, <2>4
    <3>2. PartFor(next, x) = <<>>
      BY <1>6, <2>4 DEF PartFor
    <3>3. Cat(<<>>, UnsentOf(rest, x)) = UnsentOf(rest, x)
      BY <2>3, CatProperties
    <3> QED
      BY <2>1, <2>2, <2>3, <3>1, <3>2, <3>3
  <2>5. CASE n # Len(wqe.data)
    <3>1. writeQueue' = Cat(<<next>>, rest)
      BY <1>1, <1>3, <2>5
    <3>2. UnsentOf(Cat(<<next>>, rest), x) = Cat(PartFor(next, x), UnsentOf(rest, x))
      BY UnsentCons
    <3> QED
      BY <2>1, <2>2, <2>3, <3>1, <3>2
  <2> QED
    BY <2>4, <2>5
<1>11. ASSUME NEW x \in Ports, x # wqe.port
       PROVE  Unsent(x)' = Unsent(x)
  <2>1. PartFor(wqe, x) = <<>> /\ PartFor(next, x) = <<>>
    BY <1>4, <1>11 DEF PartFor
  <2> QED
    BY <1>10, <2>1
<1>12. PICK port \in Ports : port = wqe.port
  BY DEF Elems
<1>13. PICK u \in Seq(Byte), v \in Seq(Byte) :
         u = UnsentOf(rest, port) /\ v = Cat(Src(next), u)
  BY <1>6, <1>10, CatProperties
<1>14. Unsent(port) = Cat(w, v) /\ Unsent(port)' = v
  <2>1. PartFor(wqe, port) = Src(wqe) /\ PartFor(next, port) = Src(next)
    BY <1>4, <1>12 DEF PartFor
  <2>2. Cat(Cat(w, Src(next)), u) = Cat(w, Cat(Src(next), u))
    BY <1>6, CatProperties
  <2> QED
    BY <1>6, <1>10, <1>13, <2>1, <2>2
<1>15. ~Scan(w).skip \/ v = <<>> \/ v[1] \notin Data
  <2>1. CASE ~Scan(w).skip
    BY <2>1
  <2>2. CASE Src(next) # <<>>
    <3>1. v # <<>> /\ v[1] = Src(next)[1]
      BY <1>6, <1>13, <2>2, CatFirst
    <3> QED
      BY <1>7, <2>2, <3>1
  <2>3. CASE Scan(w).skip /\ Src(next) = <<>>
    <3>1. v = u
      BY <1>6, <1>13, <2>3, CatFirst
    <3>2. ~Clean
      <4>1. Cat(w, <<>>) = w
        BY CatProperties
      <4> QED
        BY <1>5, <1>6, <2>3, <4>1
    <3>3. Fresh \subseteq Starting
      <4>1. \A f \in Fresh : f \in Elems /\ f.bytesSent = 0 /\ f.data \in Packets
        BY DEF Fresh, Held, Elems
      <4> QED
        BY <3>2, <4>1, NoStray DEF Starting
    <3>4. rest \in Seq(Starting)
      BY <1>2, <3>3
    <3> QED
      BY <1>13, <3>1, <3>4, UnsentFirst
  <2> QED
    BY <2>1, <2>2, <2>3
<1>16. Defined(Cat(w, v)) = Cat(Defined(w), Defined(v))
  BY <1>15, ScanCat
<1>17. PICK ws \in Seq(Mspacket) : ws = Words(Src(wqe), port)
  BY <1>1, WordsTyped
<1>18. \/ ws = <<>> /\ Defined(w) = <<>>
       \/ ws = <<[cable |-> port, bytes |-> w]>> /\ Defined(w) = w
  <2>1. ws = Words(Src(wqe), wqe.port)
    BY <1>12, <1>17, Zenon
  <2>2. CASE Words(Src(wqe), wqe.port) = <<>> /\ Defined(w) = <<>>
    BY <2>1, <2>2, Zenon
  <2>3. CASE Words(Src(wqe), wqe.port) = <<[cable |-> wqe.port, bytes |-> w]>> /\ Defined(w) = w
    BY <1>12, <2>1, <2>3, Zenon
  <2> QED
    BY <1>6, <2>2, <2>3, Zenon
<1>19. dest' = [dest EXCEPT ![Endpoint(port)] = dest[Endpoint(port)] \o ws]
  BY <1>1, <1>12, <1>17, Zenon
<1> QED
  BY <1>9, <1>11, <1>12, <1>14, <1>16, <1>18, <1>19, Zenon

(* What leaves the queue in a round is what enters the buffer. *)
LEMMA RoundRoundTrip ==
  ASSUME TypeOK, QueueInv, RoundTrip, NoStrayData(Packets), Round
  PROVE  QueueInv' /\ RoundTrip'
<1>1. PICK port \in Ports, w \in Seq(Byte), ws \in Seq(Mspacket) :
        /\ QueueInv'
        /\ Unsent(port) = Cat(w, Unsent(port)') /\ Unsent(port)' \in Seq(Byte)
        /\ \A x \in Ports : x # port => Unsent(x)' = Unsent(x)
        /\ Defined(Unsent(port)) = Cat(Defined(w), Defined(Unsent(port)'))
        /\ \/ ws = <<>> /\ Defined(w) = <<>>
           \/ ws = <<[cable |-> port, bytes |-> w]>> /\ Defined(w) = w
        /\ dest' = [dest EXCEPT ![Endpoint(port)] = dest[Endpoint(port)] \o ws]
  BY RoundWord
<1>2. phase = "prepare" /\ phase' # "idle" /\ UNCHANGED <<sent, played>>
  BY DEF Round
<1>3. ASSUME NEW x \in Ports
      PROVE  Defined(sent'[x]) = Cat(Cat(played'[x], Buffered(x)'), Defined(Unsent(x)'))
  <2>1. Defined(sent[x]) = Cat(Cat(played[x], Buffered(x)), Defined(Unsent(x)))
    BY RoundTripCat
  <2>2. PICK ms \in Seq(Mspacket) : ms = dest[Endpoint(x)] /\ Buffered(x) = Decoded(ms, x)
    BY <1>2, BufferedTyped DEF Buffered
  <2>3. Buffered(x)' = Decoded(dest'[Endpoint(x)], x)
    BY <1>2, Zenon DEF Buffered
  <2>4. dest \in [Endpoints -> {qs \in Seq(Mspacket) : Len(qs) <= BufWords}]
    BY DEF TypeOK
  <2>5. dest'[Endpoint(x)] = IF Endpoint(x) = Endpoint(port) THEN Cat(ms, ws) ELSE ms
    <3>1. Endpoint(x) \in Endpoints /\ Endpoint(port) \in Endpoints
      BY EndpointTyped
    <3> QED
      BY <1>1, <2>2, <2>4, <3>1 DEF Cat
  <2>6. CASE ws = <<>>
    <3>1. dest'[Endpoint(x)] = ms
      <4>1. Cat(ms, <<>>) = ms
        BY CatProperties
      <4> QED
        BY <2>5, <2>6, <4>1
    <3>2. Defined(Unsent(x)') = Defined(Unsent(x))
      <4>1. CASE x = port
        <5>1. Defined(w) = <<>>
          <6>1. <<[cable |-> port, bytes |-> w]>> # <<>>
            OBVIOUS
          <6> QED
            BY <1>1, <2>6, <6>1
        <5>2. PICK d \in Seq(Byte) : d = Defined(Unsent(port)')
          BY <1>1, DefinedTyped
        <5>3. Cat(<<>>, d) = d
          BY CatProperties
        <5> QED
          BY <1>1, <4>1, <5>1, <5>2, <5>3, Zenon
      <4>2. CASE x # port
        BY <1>1, <4>2
      <4> QED
        BY <4>1, <4>2
    <3> QED
      BY <1>2, <2>1, <2>2, <2>3, <3>1, <3>2
  <2>7. CASE ws # <<>>
    <3>1. PICK m : m = [cable |-> port, bytes |-> w]
      OBVIOUS
    <3>2. ws = <<m>> /\ Defined(w) = w
      BY <1>1, <2>7, <3>1, Zenon
    <3>3. m \in Mspacket /\ m.cable = port /\ m.bytes = w
      <4>1. w \in Seq(Byte \cup {Unknown})
        OBVIOUS
      <4> QED
        BY <3>1, <4>1 DEF Mspacket
    <3>4. Cat(ms, ws) = Add(ms, m)
      BY <3>2 DEF Cat, Add
    <3>5. Decoded(Add(ms, m), x) = Cat(Decoded(ms, x), BytesFor(m, x)) /\ Decoded(ms, x) \in Seq(Out)
      BY <3>3, DecodedAdd
    <3>6. CASE x = port
      <4>1. BytesFor(m, x) = w
        BY <3>3, <3>6 DEF BytesFor
      <4>2. Buffered(x)' = Cat(Buffered(x), w)
        BY <2>2, <2>3, <2>5, <3>4, <3>5, <3>6, <4>1
      <4>3. PICK b \in Seq(Out), d \in Seq(Out), c \in Seq(Out), a \in Seq(Out) :
              a = played[x] /\ b = Buffered(x) /\ c = w /\ d = Defined(Unsent(x)')
        <5>1. w \in Seq(Out)
          BY DEF Out
        <5> QED
          BY <1>1, <3>6, <5>1, BufferedTyped, DefinedTyped
      <4>4. Cat(Cat(a, b), Cat(c, d)) = Cat(Cat(a, Cat(b, c)), d)
        <5>1. Cat(a, b) \in Seq(Out)
          BY CatProperties
        <5>2. Cat(Cat(Cat(a, b), c), d) = Cat(Cat(a, b), Cat(c, d))
          BY <5>1, CatProperties
        <5>3. Cat(Cat(a, b), c) = Cat(a, Cat(b, c))
          BY CatProperties
        <5> QED
          BY <5>2, <5>3
      <4>5. Defined(Unsent(x)) = Cat(w, Defined(Unsent(x)'))
        BY <1>1, <3>2, <3>6, Zenon
      <4>6. Defined(sent[x]) = Cat(Cat(a, b), Cat(c, d))
        BY <2>1, <4>3, <4>5, Zenon
      <4> QED
        BY <1>2, <4>2, <4>3, <4>4, <4>6
    <3>7. CASE x # port
      <4>1. BytesFor(m, x) = <<>>
        BY <3>3, <3>7 DEF BytesFor
      <4>2. Cat(Decoded(ms, x), <<>>) = Decoded(ms, x)
        BY <3>5, CatProperties
      <4>3. Decoded(dest'[Endpoint(x)], x) = Decoded(ms, x)
        BY <2>5, <3>4, <3>5, <4>1, <4>2
      <4>4. Unsent(x)' = Unsent(x)
        BY <1>1, <3>7
      <4> QED
        BY <1>2, <2>1, <2>2, <2>3, <4>3, <4>4
    <3> QED
      BY <3>6, <3>7
  <2> QED
    BY <2>6, <2>7
<1> QED
  BY <1>1, <1>3, RoundTripCat

(* The steps in which no byte is cut off a packet. *)
LEMMA BuffersRoundTrip ==
  ASSUME TypeOK, QueueInv, RoundTrip, PrepareOutput \/ QueueEmpty \/ Transfer
  PROVE  QueueInv' /\ RoundTrip'
<1>1. UNCHANGED <<writeQueue, sent>>
  BY DEF PrepareOutput, QueueEmpty, Transfer
<1>2. QueueInv'
  BY <1>1 DEF QueueInv
<1>3. ASSUME NEW x \in Ports
      PROVE  Cat(played'[x], Buffered(x)') = Cat(played[x], Buffered(x))
  <2>0. played[x] \in Seq(Out) /\ Buffered(x) \in Seq(Out) /\ Cat(played[x], <<>>) = played[x]
    BY BufferedTyped, CatProperties
  <2>1. CASE PrepareOutput
    <3>1. phase = "idle" /\ phase' = "prepare" /\ played' = played
      BY <2>1 DEF PrepareOutput
    <3>2. dest'[Endpoint(x)] = <<>>
      BY <2>1, EndpointTyped DEF PrepareOutput
    <3>3. Buffered(x) = <<>>
      BY <3>1 DEF Buffered
    <3>4. Buffered(x)' = <<>>
      BY <3>1, <3>2, DecodedEmpty DEF Buffered
    <3> QED
      BY <3>1, <3>3, <3>4
  <2>2. CASE QueueEmpty
    <3>1. phase = "prepare" /\ played' = played
      BY <2>2 DEF QueueEmpty
    <3>2. PICK ms \in Seq(Mspacket) : ms = dest[Endpoint(x)] /\ Buffered(x) = Decoded(ms, x)
      BY <3>1, BufferedTyped DEF Buffered
    <3>3. dest'[Endpoint(x)] = IF ms = <<>> THEN <<>> ELSE Add(ms, Null)
      <4>1. Endpoint(x) \in Endpoints
        BY EndpointTyped
      <4> QED
        BY <2>2, <3>2, <4>1 DEF QueueEmpty, Add
    <3>4. Decoded(dest'[Endpoint(x)], x) = Decoded(ms, x)
      <4>1. CASE ms = <<>>
        BY <3>3, <4>1
      <4>2. CASE ms # <<>>
        <5>1. <<>> \in Seq(Byte \cup {Unknown})
          OBVIOUS
        <5>2. Null \in Mspacket /\ BytesFor(Null, x) = <<>>
          BY <5>1 DEF Null, Mspacket, BytesFor
        <5>3. Decoded(ms, x) \in Seq(Out) /\ Decoded(Add(ms, Null), x) = Cat(Decoded(ms, x), BytesFor(Null, x))
          BY <5>2, DecodedAdd
        <5>4. Cat(Decoded(ms, x), <<>>) = Decoded(ms, x)
          BY <5>3, CatProperties
        <5> QED
          BY <3>3, <4>2, <5>2, <5>3, <5>4
      <4> QED
        BY <4>1, <4>2
    <3>5. Buffered(x)' = Decoded(ms, x)
      <4>1. CASE phase' = "idle"
        <5>1. ms = <<>>
          <6>1. Endpoint(x) \in Endpoints
            BY EndpointTyped
          <6> QED
            BY <2>2, <3>2, <4>1, <6>1 DEF QueueEmpty
        <5> QED
          BY <4>1, <5>1, DecodedEmpty DEF Buffered
      <4>2. CASE phase' # "idle"
        BY <3>4, <4>2, Zenon DEF Buffered
      <4> QED
        BY <4>1, <4>2
    <3> QED
      BY <3>1, <3>2, <3>5
  <2>3. CASE Transfer
    <3>1. phase # "idle" /\ phase' = "idle"
      BY <2>3 DEF Transfer
    <3>2. played'[x] = Cat(played[x], Decoded(dest[Endpoint(x)], x))
      BY <2>3 DEF Transfer, Cat
    <3>3. Buffered(x) = Decoded(dest[Endpoint(x)], x) /\ Buffered(x)' = <<>>
      BY <3>1, Zenon DEF Buffered
    <3>4. Cat(Cat(played[x], Buffered(x)), <<>>) = Cat(played[x], Buffered(x))
      <4>1. Cat(played[x], Buffered(x)) \in Seq(Out)
        BY <2>0, CatProperties
      <4> QED
        BY <4>1, CatProperties
    <3> QED
      BY <3>2, <3>3, <3>4, Zenon
  <2> QED
    BY <2>1, <2>2, <2>3
<1>4. ASSUME NEW x \in Ports
      PROVE  Unsent(x)' = Unsent(x)
  <2>1. Unsent(x) = UnsentOf(writeQueue, x) /\ Unsent(x)' = UnsentOf(writeQueue', x)
    BY QueueTyped
  <2> QED
    BY <1>1, <2>1
<1>5. \A x \in Ports : Defined(sent[x]) = Cat(Cat(played[x], Buffered(x)), Defined(Unsent(x)))
  BY RoundTripCat
<1>6. ASSUME NEW x \in Ports
      PROVE  Defined(sent'[x]) = Cat(Cat(played'[x], Buffered(x)'), Defined(Unsent(x)'))
  <2>1. sent'[x] = sent[x]
    BY <1>1
  <2> QED
    BY <1>3, <1>4, <1>5, <2>1, Zenon
<1> QED
  BY <1>2, <1>6, RoundTripCat

(* At first nothing is sent and nothing put out. *)
LEMMA InitRoundTrip == ASSUME Init PROVE QueueInv /\ CleanInv /\ RoundTrip
<1>1. QueueInv
  BY DEF Init, QueueInv
<1>2. ASSUME NEW x \in Ports
      PROVE  /\ sent[x] = <<>> /\ played[x] = <<>> /\ Buffered(x) = <<>> /\ Unsent(x) = <<>>
  <2>1. Unsent(x) = UnsentOf(writeQueue, x)
    BY Zenon DEF Unsent, UnsentOf, PartFor
  <2>2. Unsent(x) = <<>>
    BY <2>1, UnsentEmpty DEF Init
  <2> QED
    BY <2>2 DEF Init, Buffered
<1>3. Cat(Cat(<<>>, <<>>), <<>>) = <<>>
  BY DEF Cat
<1>4. RoundTrip
  BY <1>2, <1>3, ScanEmpty, RoundTripCat
<1>5. CleanInv
  BY <1>2, ScanEmpty DEF CleanInv, Start
<1> QED
  BY <1>1, <1>4, <1>5

(* Every step keeps what was sent and what was put out together. *)
LEMMA NextRoundTrip ==
  ASSUME TypeOK, QueueInv, CleanInv, RoundTrip, WholeWords(Packets), NoStrayData(Packets),
         [Next]_vars
  PROVE  QueueInv' /\ CleanInv' /\ RoundTrip'
<1>1. CASE \E p \in Ports, data \in Packets : Send(p, data)
  BY <1>1, SendRoundTrip
<1>2. CASE Round
  <2>1. CleanInv'
    BY <1>2 DEF CleanInv, Round
  <2> QED
    BY <1>2, <2>1, RoundRoundTrip
<1>3. CASE PrepareOutput \/ QueueEmpty \/ Transfer
  <2>1. CleanInv'
    BY <1>3 DEF CleanInv, PrepareOutput, QueueEmpty, Transfer
  <2> QED
    BY <1>3, <2>1, BuffersRoundTrip
<1>4. CASE UNCHANGED vars
  <2>1. UNCHANGED <<writeQueue, dest, phase, sent, played>>
    BY <1>4 DEF vars
  <2>2. QueueInv' /\ CleanInv'
    BY <2>1 DEF QueueInv, CleanInv
  <2>3. RoundTrip' = RoundTrip
    BY <2>1 DEF RoundTrip, Unsent
  <2> QED
    BY <2>2, <2>3
<1> QED
  BY <1>1, <1>2, <1>3, <1>4 DEF Next

(* What a client sends to a port is what the device puts out on it, in order
   and without loss, the undefined messages left out, however packets straddle
   buffers and transfers: if the packets hold whole words, and none begins with
   data bytes when one ends inside an undefined message. *)
THEOREM EncoderRoundTrip ==
  ASSUME WholeWords(Packets), NoStrayData(Packets)
  PROVE  Spec => []RoundTrip
<1>1. Init => TypeOK /\ RoomInv /\ QueueInv /\ CleanInv /\ RoundTrip
  BY InitTyped, InitRoundTrip
<1>2. (TypeOK /\ RoomInv /\ QueueInv /\ CleanInv /\ RoundTrip) /\ [Next]_vars
        => (TypeOK /\ RoomInv /\ QueueInv /\ CleanInv /\ RoundTrip)'
  BY NextTyped, NextRoundTrip
<1> QED
  BY <1>1, <1>2, PTL DEF Spec
=============================================================================
