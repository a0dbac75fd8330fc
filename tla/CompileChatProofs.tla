--------------------------- MODULE CompileChatProofs ---------------------------
(***************************************************************************)
(* However a conversation is cut down to the context of a model: what      *)
(* comes out fits, and messages are given up from the oldest on.  For      *)
(* conversations of any length and contexts of any size.                   *)
(***************************************************************************)
EXTENDS CompileChat, SequenceTheorems, WellFoundedInduction, TLAPS

-----------------------------------------------------------------------------
(* Folds from the left, and sums.                                          *)

(* A set of numbers that is not empty has a least one.                     *)
LEMMA HasMinimum ==
  ASSUME NEW m \in Nat, NEW M, M \subseteq 0 .. m, M # {}
  PROVE  \E k \in M : \A l \in M : k <= l
<1> DEFINE Less == OpToRel(<, Nat)
<1>1. \A k, l \in Nat : <<k, l>> \in Less <=> k < l
  BY DEF OpToRel
<1>2. M \subseteq Nat
  OBVIOUS
<1>3. IsWellFoundedOn(Less, Nat)
  BY NatLessThanWellFounded
<1> HIDE DEF Less
<1>4. \E k \in M : \A l \in M : <<l, k>> \notin Less
  BY <1>2, <1>3, WFMin
<1>5. PICK k \in M : \A l \in M : <<l, k>> \notin Less
  BY <1>4
<1>6. \A l \in M : k <= l
  <2> TAKE l \in M
  <2>1. l \in Nat /\ k \in Nat
    BY <1>2
  <2>2. ~(l < k)
    BY <1>1, <1>5, <2>1, Zenon
  <2>3. QED BY <2>1, <2>2
<1>7. QED BY <1>6

(* Induction up to m, for a set of numbers.                                *)
LEMMA UpTo ==
  ASSUME NEW m \in Nat, NEW S, 0 \in S, \A n \in 1 .. m : n - 1 \in S => n \in S
  PROVE  \A n \in 0 .. m : n \in S
<1> DEFINE Missing == {n \in 0 .. m : n \notin S}
<1>1. ASSUME Missing # {} PROVE FALSE
  <2>1. PICK n \in Missing : \A l \in Missing : n <= l
    <3>1. Missing \subseteq 0 .. m
      OBVIOUS
    <3>2. QED BY <1>1, <3>1, HasMinimum
  <2>2. n \in 1 .. m /\ n \notin S
    OBVIOUS
  <2>3. n - 1 \in 0 .. m /\ ~(n <= n - 1)
    BY <2>2
  <2>4. QED BY <2>1, <2>2, <2>3
<1>2. QED BY <1>1

(* The last element is folded last.                                        *)
LEMMA MaxIs ==
  ASSUME NEW n \in Nat, NEW s \in SUBSET (1 .. n), n \in s
  PROVE  Max(s) = n
<1>1. n \in s /\ \A y \in s : n >= y
  OBVIOUS
<1>2. \A x \in s : (\A y \in s : x >= y) => x = n
  OBVIOUS
<1>3. QED BY <1>1, <1>2 DEF Max

(* A set of places that is not empty has a last one.                       *)
LEMMA MaxExists ==
  ASSUME NEW n \in Nat, NEW s \in SUBSET (1 .. n), s # {}
  PROVE  Max(s) \in s
<1> DEFINE M == {n - x : x \in s}
<1>1. M \subseteq 0 .. n /\ M # {}
  <2>1. \A x \in s : n - x \in 0 .. n
    OBVIOUS
  <2>2. QED BY <2>1
<1>2. PICK k \in M : \A l \in M : k <= l
  BY <1>1, HasMinimum
<1>3. PICK x \in s : k = n - x
  OBVIOUS
<1>4. \A y \in s : x >= y
  <2> TAKE y \in s
  <2>1. n - x <= n - y
    BY <1>2, <1>3
  <2>2. x \in Int /\ y \in Int
    OBVIOUS
  <2>3. QED BY <2>1, <2>2
<1>5. \E x1 \in s : \A y \in s : x1 >= y
  BY <1>4
<1>6. QED BY <1>5 DEF Max

(* A step of a fold, as a function of what is folded so far and of the next *)
(* element; f folds the elements at each set of places.                    *)
FoldsBy(f, base, step, h) ==
  \A s \in SUBSET (1 .. Len(h)) :
    f[s] = IF s = {} THEN base ELSE step[<<f[s \ {Max(s)}], h[Max(s)]>>]

(* There is a function that folds: else there is a least length without one. *)
LEMMA FoldExists ==
  ASSUME NEW A, NEW B, NEW base \in A, NEW step \in [A \X B -> A], NEW h \in Seq(B)
  PROVE  \E f \in [SUBSET (1 .. Len(h)) -> A] : FoldsBy(f, base, step, h)
<1> DEFINE Step(f, s) == IF s = {} THEN base ELSE step[<<f[s \ {Max(s)}], h[Max(s)]>>]
           Upto(n) == \E f \in [SUBSET (1 .. n) -> A] :
                        \A s \in SUBSET (1 .. n) : f[s] = Step(f, s)
<1>1. Len(h) \in Nat /\ \A n \in 1 .. Len(h) : h[n] \in B
  BY LenProperties, ElementOfSeq
<1>2. Upto(0)
  <2> DEFINE f == [s \in SUBSET (1 .. 0) |-> base]
  <2>1. \A s \in SUBSET (1 .. 0) : s = {}
    OBVIOUS
  <2>2. f \in [SUBSET (1 .. 0) -> A] /\ \A s \in SUBSET (1 .. 0) : f[s] = Step(f, s)
    BY <2>1
  <2>3. QED BY <2>2
<1>3. ASSUME NEW n \in 1 .. Len(h), Upto(n - 1) PROVE Upto(n)
  <2>1. PICK f \in [SUBSET (1 .. n - 1) -> A] : \A s \in SUBSET (1 .. n - 1) : f[s] = Step(f, s)
    BY <1>3
  <2> DEFINE g == [s \in SUBSET (1 .. n) |->
                     IF n \in s THEN step[<<f[s \ {n}], h[n]>>] ELSE f[s]]
  <2>2. n \in Nat /\ n - 1 \in Nat /\ h[n] \in B
    BY <1>1
  <2>3. \A s \in SUBSET (1 .. n) : n \notin s => s \in SUBSET (1 .. n - 1)
    BY <2>2
  <2>4. \A s \in SUBSET (1 .. n) : s \ {n} \in SUBSET (1 .. n - 1)
    BY <2>2
  <2>5. g \in [SUBSET (1 .. n) -> A]
    <3> SUFFICES ASSUME NEW s \in SUBSET (1 .. n)
                 PROVE  (IF n \in s THEN step[<<f[s \ {n}], h[n]>>] ELSE f[s]) \in A
      OBVIOUS
    <3>1. CASE n \in s
      <4>1. f[s \ {n}] \in A
        BY <2>1, <2>4
      <4>2. QED BY <2>2, <3>1, <4>1
    <3>2. CASE n \notin s
      BY <2>1, <2>3, <3>2
    <3>3. QED BY <3>1, <3>2
  <2>6. \A s \in SUBSET (1 .. n) : n \notin s => g[s] = f[s]
    OBVIOUS
  <2>7. ASSUME NEW s \in SUBSET (1 .. n) PROVE g[s] = Step(g, s)
    <3>1. CASE n \in s
      <4>1. Max(s) = n
        BY <2>2, <3>1, MaxIs
      <4>2. g[s \ {n}] = f[s \ {n}]
        BY <2>6
      <4>3. g[s] = step[<<f[s \ {n}], h[n]>>]
        BY <3>1
      <4> HIDE DEF g
      <4>4. QED BY <3>1, <4>1, <4>2, <4>3
    <3>2. CASE n \notin s
      <4>1. g[s] = f[s] /\ f[s] = Step(f, s)
        BY <2>1, <2>3, <2>6, <3>2
      <4>2. n \notin s \ {Max(s)} /\ s \ {Max(s)} \in SUBSET (1 .. n)
        BY <3>2
      <4>3. g[s \ {Max(s)}] = f[s \ {Max(s)}]
        BY <2>6, <4>2
      <4> HIDE DEF g
      <4>4. QED BY <4>1, <4>3
    <3>3. QED BY <3>1, <3>2
  <2> HIDE DEF g
  <2>8. QED BY <2>5, <2>7
<1>4. Upto(Len(h))
  <2> DEFINE S == {n \in 0 .. Len(h) : Upto(n)}
  <2> HIDE DEF Upto
  <2>1. 0 \in S /\ \A n \in 1 .. Len(h) : n - 1 \in S => n \in S
    BY <1>1, <1>2, <1>3
  <2> HIDE DEF S
  <2>2. \A n \in 0 .. Len(h) : n \in S
    BY <1>1, <2>1, UpTo
  <2>3. Len(h) \in S
    BY <1>1, <2>2
  <2>4. QED BY <2>3 DEF S
<1>5. QED BY <1>4 DEF FoldsBy

(* The recursive function behind SumOf.                                    *)
SumsBy(f, h) ==
  f = [s \in SUBSET DOMAIN h |-> IF s = {} THEN 0 ELSE f[s \ {Max(s)}] + h[Max(s)].size]

LEMMA SumDef ==
  ASSUME NEW h
  PROVE  SumOf(h) = (CHOOSE f : SumsBy(f, h))[DOMAIN h]
BY DEF SumOf, FoldLeft, MapThenFoldSet, SumsBy

Sized(C) == \A m \in C : m.size \in Int

AddSize(C) == [x \in Int \X C |-> x[1] + x[2].size]

(* A function is behind SumOf if it adds one size after the other.         *)
LEMMA SumsAreFolds ==
  ASSUME NEW C, Sized(C), NEW h \in Seq(C), NEW f \in [SUBSET (1 .. Len(h)) -> Int]
  PROVE  SumsBy(f, h) <=> FoldsBy(f, 0, AddSize(C), h)
<1> DEFINE Sum(s) == f[s \ {Max(s)}] + h[Max(s)].size
           Step(s) == AddSize(C)[<<f[s \ {Max(s)}], h[Max(s)]>>]
<1>1. Len(h) \in Nat /\ DOMAIN h = 1 .. Len(h)
  BY LenProperties
<1>2. ASSUME NEW s \in SUBSET (1 .. Len(h)), s # {} PROVE Sum(s) = Step(s)
  <2>1. Max(s) \in 1 .. Len(h)
    BY <1>1, <1>2, MaxExists
  <2>2. h[Max(s)] \in C /\ s \ {Max(s)} \in SUBSET (1 .. Len(h))
    BY <2>1, ElementOfSeq
  <2>3. f[s \ {Max(s)}] \in Int
    BY <2>2
  <2>4. QED BY <2>2, <2>3 DEF AddSize
<1>3. SumsBy(f, h) <=> \A s \in SUBSET (1 .. Len(h)) : f[s] = IF s = {} THEN 0 ELSE Sum(s)
  BY <1>1 DEF SumsBy
<1>4. FoldsBy(f, 0, AddSize(C), h)
        <=> \A s \in SUBSET (1 .. Len(h)) : f[s] = IF s = {} THEN 0 ELSE Step(s)
  BY DEF FoldsBy
<1> HIDE DEF Sum, Step
<1>5. QED BY <1>2, <1>3, <1>4

(* The sums of the first elements, for each number of them.                *)
Partial(p, h) ==
  /\ p \in [0 .. Len(h) -> Int]
  /\ p[0] = 0
  /\ \A n \in 1 .. Len(h) : p[n] = p[n - 1] + h[n].size

LEMMA PartialAt ==
  ASSUME NEW C, NEW h \in Seq(C), NEW p, Partial(p, h), NEW n \in 1 .. Len(h)
  PROVE  /\ n \in 0 .. Len(h) /\ n - 1 \in 0 .. Len(h)
         /\ p[n] \in Int /\ p[n - 1] \in Int
         /\ p[n] = p[n - 1] + h[n].size
<1>1. n \in 0 .. Len(h) /\ n - 1 \in 0 .. Len(h)
  BY LenProperties
<1>2. QED BY <1>1 DEF Partial

LEMMA SumSteps ==
  ASSUME NEW C, NEW h \in Seq(C), NEW f, SumsBy(f, h)
  PROVE  f[{}] = 0 /\ \A n \in 1 .. Len(h) : f[1 .. n] = f[1 .. n - 1] + h[n].size
<1>1. Len(h) \in Nat /\ DOMAIN h = 1 .. Len(h)
  BY LenProperties
<1>2. f[{}] = 0
  BY <1>1 DEF SumsBy
<1>3. ASSUME NEW n \in 1 .. Len(h) PROVE f[1 .. n] = f[1 .. n - 1] + h[n].size
  <2>1. n \in Nat /\ n \in 1 .. n
    BY <1>1
  <2>2. Max(1 .. n) = n
    <3>1. 1 .. n \in SUBSET (1 .. n)
      OBVIOUS
    <3>2. QED BY <2>1, <3>1, MaxIs
  <2>3. 1 .. n \in SUBSET (1 .. Len(h))
    BY <1>1
  <2>4. (1 .. n) \ {n} = 1 .. n - 1
    BY <2>1
  <2>5. 1 .. n # {}
    BY <2>1
  <2>6. QED BY <1>1, <2>2, <2>3, <2>4, <2>5 DEF SumsBy
<1>4. QED BY <1>2, <1>3

LEMMA SumExists ==
  ASSUME NEW C, Sized(C), NEW h \in Seq(C)
  PROVE  \E f \in [SUBSET (1 .. Len(h)) -> Int] : SumsBy(f, h)
<1>1. AddSize(C) \in [Int \X C -> Int]
  BY DEF Sized, AddSize
<1>2. 0 \in Int
  OBVIOUS
<1>3. PICK f \in [SUBSET (1 .. Len(h)) -> Int] : FoldsBy(f, 0, AddSize(C), h)
  BY <1>1, <1>2, FoldExists
<1>4. QED BY <1>3, SumsAreFolds

LEMMA PartialExists ==
  ASSUME NEW C, Sized(C), NEW h \in Seq(C)
  PROVE  \E p : Partial(p, h)
<1>1. PICK f \in [SUBSET (1 .. Len(h)) -> Int] : SumsBy(f, h)
  BY SumExists
<1> DEFINE p == [n \in 0 .. Len(h) |-> f[1 .. n]]
<1>2. Len(h) \in Nat
  BY LenProperties
<1>3. \A n \in 0 .. Len(h) : 1 .. n \in SUBSET (1 .. Len(h))
  BY <1>2
<1>4. p \in [0 .. Len(h) -> Int]
  BY <1>3
<1>5. p[0] = 0
  <2>1. 1 .. 0 = {}
    OBVIOUS
  <2>2. QED BY <1>1, <1>2, <2>1, SumSteps
<1>6. ASSUME NEW n \in 1 .. Len(h) PROVE p[n] = p[n - 1] + h[n].size
  <2>1. n \in 0 .. Len(h) /\ n - 1 \in 0 .. Len(h)
    BY <1>2
  <2>2. p[n] = f[1 .. n] /\ p[n - 1] = f[1 .. n - 1]
    BY <2>1
  <2>3. f[1 .. n] = f[1 .. n - 1] + h[n].size
    BY <1>1, SumSteps
  <2> HIDE DEF p
  <2>4. QED BY <2>2, <2>3
<1>7. QED BY <1>4, <1>5, <1>6 DEF Partial

LEMMA SumIs ==
  ASSUME NEW C, Sized(C), NEW h \in Seq(C), NEW p, Partial(p, h)
  PROVE  SumOf(h) = p[Len(h)]
<1> DEFINE f == CHOOSE f : SumsBy(f, h)
           S == {n \in 0 .. Len(h) : f[1 .. n] = p[n]}
<1>1. Len(h) \in Nat /\ DOMAIN h = 1 .. Len(h) /\ Len(h) \in 0 .. Len(h)
  BY LenProperties
<1>2. SumsBy(f, h)
  BY SumExists
<1>3. SumOf(h) = f[1 .. Len(h)]
  BY <1>1, SumDef
<1> HIDE DEF f
<1>4. f[{}] = 0 /\ \A n \in 1 .. Len(h) : f[1 .. n] = f[1 .. n - 1] + h[n].size
  BY <1>2, SumSteps
<1>5. 0 \in S
  <2>1. 1 .. 0 = {}
    OBVIOUS
  <2>2. QED BY <1>1, <1>4, <2>1 DEF Partial
<1>6. \A n \in 1 .. Len(h) : n - 1 \in S => n \in S
  BY <1>1, <1>4 DEF Partial
<1> HIDE DEF S
<1>7. \A n \in 0 .. Len(h) : n \in S
  BY <1>1, <1>5, <1>6, UpTo
<1>8. QED BY <1>1, <1>3, <1>7 DEF S

LEMMA SumType ==
  ASSUME NEW C, Sized(C), NEW h \in Seq(C)
  PROVE  SumOf(h) \in Int
<1>1. PICK p : Partial(p, h)
  BY PartialExists
<1>2. SumOf(h) = p[Len(h)] /\ Len(h) \in 0 .. Len(h)
  BY <1>1, SumIs, LenProperties
<1>3. QED BY <1>1, <1>2 DEF Partial

LEMMA SumOfNone == SumOf(<<>>) = 0
<1> DEFINE C == [size : Int]
           p == [n \in 0 .. 0 |-> 0]
<1>1. Sized(C) /\ <<>> \in Seq(C) /\ Len(<<>>) = 0
  BY EmptySeq DEF Sized
<1>2. Partial(p, <<>>)
  BY <1>1 DEF Partial
<1>3. SumOf(<<>>) = p[0]
  <2> HIDE DEF p, C
  <2>1. QED BY <1>1, <1>2, SumIs
<1>4. QED BY <1>3

(* Without the first one.                                                  *)
LEMMA SumOfTail ==
  ASSUME NEW C, Sized(C), NEW h \in Seq(C), h # <<>>
  PROVE  SumOf(Tail(h)) = SumOf(h) - h[1].size
<1>1. /\ Len(h) \in Nat \ {0} /\ Tail(h) \in Seq(C) /\ Len(Tail(h)) = Len(h) - 1
      /\ \A n \in 1 .. Len(h) - 1 : Tail(h)[n] = h[n + 1]
  BY LenProperties, EmptySeq, HeadTailProperties
<1>2. PICK p : Partial(p, h)
  BY PartialExists
<1> DEFINE t == Tail(h)
           q == [n \in 0 .. Len(h) - 1 |-> p[n + 1] - p[1]]
<1>3. t \in Seq(C) /\ Len(t) = Len(h) - 1 /\ \A n \in 1 .. Len(h) - 1 : t[n] = h[n + 1]
  BY <1>1
<1>4. p[1] = h[1].size /\ h[1].size \in Int
  <2>1. h[1] \in C /\ 1 \in 1 .. Len(h)
    BY <1>1, ElementOfSeq
  <2>2. QED BY <1>2, <2>1 DEF Partial, Sized
<1>5. Partial(q, t)
  <2>1. q \in [0 .. Len(t) -> Int] /\ q[0] = 0
    BY <1>1, <1>2, <1>3 DEF Partial
  <2>2. ASSUME NEW n \in 1 .. Len(t) PROVE q[n] = q[n - 1] + t[n].size
    <3>1. n + 1 \in 1 .. Len(h) /\ n \in 0 .. Len(h) - 1 /\ n - 1 \in 0 .. Len(h) - 1
          /\ n - 1 + 1 = n /\ n + 1 - 1 = n
      BY <1>1, <1>3
    <3>2. p[n + 1] = p[n] + h[n + 1].size /\ t[n] = h[n + 1]
      BY <1>2, <1>3, <3>1 DEF Partial
    <3>3. p[n + 1] \in Int /\ p[n] \in Int /\ h[n + 1].size \in Int
      BY <1>1, <1>2, <3>1, ElementOfSeq DEF Partial, Sized
    <3>4. q[n] = p[n + 1] - p[1] /\ q[n - 1] = p[n] - p[1]
      BY <3>1
    <3>5. p[1] \in Int /\ t[n].size = h[n + 1].size
      BY <1>4, <3>2
    <3> HIDE DEF q, t
    <3>6. QED BY <3>2, <3>3, <3>4, <3>5
  <2>3. QED BY <2>1, <2>2 DEF Partial
<1>6. SumOf(t) = q[Len(t)]
  <2> HIDE DEF q, t
  <2>1. QED BY <1>3, <1>5, SumIs
<1>7. SumOf(h) = p[Len(h)]
  BY <1>2, SumIs
<1>8. q[Len(t)] = p[Len(h)] - p[1]
  <2>1. Len(t) \in 0 .. Len(h) - 1 /\ Len(t) + 1 = Len(h)
    BY <1>1, <1>3
  <2>2. QED BY <2>1
<1>9. QED BY <1>4, <1>6, <1>7, <1>8

(* With one more.                                                          *)
LEMMA SumOfAppend ==
  ASSUME NEW C, Sized(C), NEW h \in Seq(C), NEW m \in C
  PROVE  SumOf(Append(h, m)) = SumOf(h) + m.size
<1> DEFINE a == Append(h, m)
<1>1. /\ Len(h) \in Nat /\ a \in Seq(C) /\ Len(a) = Len(h) + 1
      /\ a[Len(h) + 1] = m /\ \A n \in 1 .. Len(h) : a[n] = h[n]
  BY LenProperties, AppendProperties
<1>2. PICK p : Partial(p, h)
  BY PartialExists
<1> HIDE DEF a
<1> DEFINE q == [n \in 0 .. Len(h) + 1 |-> IF n = Len(h) + 1 THEN p[Len(h)] + m.size ELSE p[n]]
<1>3. m.size \in Int
  BY DEF Sized
<1>4. Partial(q, a)
  <2>1. q \in [0 .. Len(a) -> Int] /\ q[0] = 0
    BY <1>1, <1>2, <1>3 DEF Partial
  <2>2. ASSUME NEW n \in 1 .. Len(a) PROVE q[n] = q[n - 1] + a[n].size
    <3>1. CASE n = Len(h) + 1
      BY <1>1, <3>1
    <3>2. CASE n # Len(h) + 1
      <4>1. n \in 1 .. Len(h) /\ n - 1 \in 0 .. Len(h) /\ n - 1 # Len(h) + 1
        BY <1>1, <3>2
      <4>2. QED BY <1>1, <1>2, <3>2, <4>1 DEF Partial
    <3>3. QED BY <3>1, <3>2
  <2>3. QED BY <2>1, <2>2 DEF Partial
<1>5. SumOf(a) = q[Len(a)]
  <2> HIDE DEF q
  <2>1. QED BY <1>1, <1>4, SumIs
<1>6. SumOf(h) = p[Len(h)]
  BY <1>2, SumIs
<1>7. QED BY <1>1, <1>5, <1>6 DEF a

(* With one of another size.                                               *)
LEMMA SumOfChange ==
  ASSUME NEW C, Sized(C), NEW h \in Seq(C), NEW g \in Seq(C), Len(g) = Len(h),
         NEW k \in 1 .. Len(h), \A n \in 1 .. Len(h) : n # k => g[n].size = h[n].size
  PROVE  SumOf(g) = SumOf(h) - h[k].size + g[k].size
<1>1. Len(h) \in Nat /\ \A n \in 1 .. Len(h) : h[n].size \in Int /\ g[n].size \in Int
  BY LenProperties, ElementOfSeq DEF Sized
<1>2. PICK p : Partial(p, h)
  BY PartialExists
<1> DEFINE q == [n \in 0 .. Len(h) |-> IF n < k THEN p[n] ELSE p[n] - h[k].size + g[k].size]
<1>3. Partial(q, g)
  <2>1. q \in [0 .. Len(g) -> Int] /\ q[0] = 0
    BY <1>1, <1>2 DEF Partial
  <2>2. ASSUME NEW n \in 1 .. Len(h) PROVE q[n] = q[n - 1] + g[n].size
    <3>1. /\ p[n] = p[n - 1] + h[n].size /\ p[n] \in Int /\ p[n - 1] \in Int
          /\ n - 1 \in 0 .. Len(h) /\ n \in 0 .. Len(h)
      BY <1>2, PartialAt
    <3>2. /\ q[n] = IF n < k THEN p[n] ELSE p[n] - h[k].size + g[k].size
          /\ q[n - 1] = IF n - 1 < k THEN p[n - 1] ELSE p[n - 1] - h[k].size + g[k].size
      BY <3>1
    <3>3. h[k].size \in Int /\ g[k].size \in Int /\ h[n].size \in Int /\ g[n].size \in Int
      BY <1>1
    <3>a. n # k => g[n].size = h[n].size
      OBVIOUS
    <3>b. n \in Int /\ k \in Int
      BY <1>1
    <3> HIDE DEF q
    <3>4. CASE n < k
      <4>1. n - 1 < k /\ n # k
        BY <3>b, <3>4
      <4>2. q[n] = p[n] /\ q[n - 1] = p[n - 1] /\ g[n].size = h[n].size
        BY <3>2, <3>4, <3>a, <4>1
      <4>3. QED BY <3>1, <4>2
    <3>5. CASE n = k
      <4>1. n - 1 < k /\ ~(n < k)
        BY <3>b, <3>5
      <4>2. q[n] = p[n] - h[k].size + g[k].size /\ q[n - 1] = p[n - 1]
        BY <3>2, <4>1
      <4>3. QED BY <3>1, <3>3, <3>5, <4>2
    <3>6. CASE n > k
      <4>1. ~(n - 1 < k) /\ ~(n < k) /\ n # k
        BY <3>b, <3>6
      <4>2. /\ q[n] = p[n] - h[k].size + g[k].size
            /\ q[n - 1] = p[n - 1] - h[k].size + g[k].size
            /\ g[n].size = h[n].size
        BY <3>2, <3>a, <4>1
      <4>3. (p[n - 1] + h[n].size) - h[k].size + g[k].size
              = (p[n - 1] - h[k].size + g[k].size) + h[n].size
        <5> DEFINE a == p[n - 1]
                   x == h[k].size
                   y == g[k].size
                   z == h[n].size
        <5>1. a \in Int /\ x \in Int /\ y \in Int /\ z \in Int
          BY <3>1, <3>3
        <5> HIDE DEF a, x, y, z
        <5>2. (a + z) - x + y = (a - x + y) + z
          BY <5>1
        <5>3. QED BY <5>2 DEF a, x, y, z
      <4>4. QED BY <3>1, <4>2, <4>3
    <3>7. QED BY <3>4, <3>5, <3>6
  <2>3. QED BY <2>1, <2>2 DEF Partial
<1>4. SumOf(g) = q[Len(g)]
  <2> HIDE DEF q
  <2>1. QED BY <1>3, SumIs
<1>5. SumOf(h) = p[Len(h)]
  BY <1>2, SumIs
<1>6. QED BY <1>1, <1>4, <1>5

(* With the last but one at the beginning.                                 *)
LEMMA SumOfMoved ==
  ASSUME NEW C, Sized(C), NEW h \in Seq(C), NEW g \in Seq(C), Len(g) = Len(h), Len(h) >= 2,
         g[1] = h[Len(h) - 1], g[Len(h)] = h[Len(h)],
         \A n \in 2 .. Len(h) - 1 : g[n] = h[n - 1]
  PROVE  SumOf(g) = SumOf(h)
<1>1. Len(h) \in Nat /\ \A n \in 1 .. Len(h) : h[n].size \in Int
  BY LenProperties, ElementOfSeq DEF Sized
<1>2. PICK p : Partial(p, h)
  BY PartialExists
<1> DEFINE c == h[Len(h) - 1].size
           q == [n \in 0 .. Len(h) |->
                   IF n = 0 THEN 0 ELSE IF n = Len(h) THEN p[n] ELSE p[n - 1] + c]
<1>3. c \in Int
  <2>1. Len(h) - 1 \in 1 .. Len(h)
    BY <1>1
  <2>2. QED BY <1>1, <2>1
<1> HIDE DEF c
<1>4. Partial(q, g)
  <2>1. q \in [0 .. Len(g) -> Int] /\ q[0] = 0
    BY <1>1, <1>2, <1>3 DEF Partial
  <2>2. ASSUME NEW n \in 1 .. Len(h) PROVE q[n] = q[n - 1] + g[n].size
    <3>0. p[0] = 0
      BY <1>2 DEF Partial
    <3>1. \A l \in 1 .. Len(h) :
            p[l] = p[l - 1] + h[l].size /\ p[l] \in Int /\ p[l - 1] \in Int
      BY <1>2, PartialAt
    <3>2. CASE n = 1
      <4>1. q[1] = p[0] + c /\ q[0] = 0 /\ g[1].size = c
        BY <1>1 DEF c
      <4> HIDE DEF q
      <4>2. QED BY <1>3, <3>0, <3>2, <4>1
    <3>3. CASE n # 1 /\ n # Len(h)
      <4>1. n - 1 \in 1 .. Len(h) /\ n \in 2 .. Len(h) - 1 /\ n - 1 # 0 /\ n - 1 # Len(h) /\ n # 0
        BY <1>1, <3>3
      <4>2. q[n] = p[n - 1] + c /\ q[n - 1] = p[n - 1 - 1] + c /\ g[n] = h[n - 1]
        BY <1>1, <3>3, <4>1
      <4>3. p[n - 1] = p[n - 1 - 1] + h[n - 1].size /\ p[n - 1 - 1] \in Int /\ h[n - 1].size \in Int
        BY <1>1, <3>1, <4>1
      <4> HIDE DEF q
      <4>4. QED BY <1>3, <4>2, <4>3
    <3>4. CASE n = Len(h)
      <4>1. n - 1 \in 1 .. Len(h) /\ n - 1 # 0 /\ n - 1 # Len(h) /\ n # 0
        BY <1>1, <3>4
      <4>2. q[n] = p[n] /\ q[n - 1] = p[n - 1 - 1] + c /\ g[n] = h[n]
        BY <1>1, <3>4, <4>1
      <4>3. /\ p[n] = p[n - 1] + h[n].size
            /\ p[n - 1] = p[n - 1 - 1] + c /\ p[n - 1 - 1] \in Int /\ h[n].size \in Int
        BY <1>1, <3>1, <3>4, <4>1 DEF c
      <4> HIDE DEF q
      <4>4. QED BY <1>3, <4>2, <4>3
    <3>5. QED BY <3>2, <3>3, <3>4
  <2>3. QED BY <2>1, <2>2 DEF Partial
<1>5. SumOf(g) = q[Len(g)]
  <2> HIDE DEF q
  <2>1. QED BY <1>4, SumIs
<1>6. SumOf(h) = p[Len(h)]
  BY <1>2, SumIs
<1>7. q[Len(g)] = p[Len(h)]
  BY <1>1
<1>8. QED BY <1>5, <1>6, <1>7

(* Ones and noughts that mark elements of h of three times at least c.     *)
Marks == [size : {0, 1}]

LEMMA OneMarkMore ==
  ASSUME NEW c \in Nat, NEW n \in Nat \ {0}, NEW a \in Nat, NEW z \in Nat, NEW b \in 0 .. n - 1,
         NEW x \in {0, 1}, x = 1 => c <= 3 * z, b * c <= 3 * a
  PROVE  a + z \in Nat /\ b + x \in 0 .. n /\ (b + x) * c <= 3 * (a + z)
<1>1. a + z \in Nat /\ b + x \in 0 .. n
  OBVIOUS
<1> DEFINE d == b * c
<1>2. d \in Int /\ d <= 3 * a
  OBVIOUS
<1>3. (b + x) * c = d + x * c
  OBVIOUS
<1>4. x * c <= 3 * z
  <2>1. CASE x = 0
    BY <2>1
  <2>2. CASE x = 1
    BY <2>2
  <2>3. QED BY <2>1, <2>2
<1>5. x * c \in Int
  OBVIOUS
<1> DEFINE e == x * c
<1> HIDE DEF d, e
<1>6. QED BY <1>1, <1>2, <1>3, <1>4, <1>5 DEF e

LEMMA SumOfMarks ==
  ASSUME NEW C, \A m \in C : m.size \in Nat, NEW h \in Seq(C), NEW x \in Seq(Marks), Len(x) = Len(h),
         NEW c \in Nat, \A n \in 1 .. Len(h) : x[n].size = 1 => c <= 3 * h[n].size
  PROVE  /\ SumOf(x) * c <= 3 * SumOf(h)
         /\ SumOf(x) \in 0 .. Len(h) /\ SumOf(h) \in Nat
<1>a. Len(h) \in Nat
  BY LenProperties
<1>b. ASSUME NEW n \in 1 .. Len(h) PROVE h[n].size \in Nat /\ x[n].size \in {0, 1}
  <2>1. h[n] \in C /\ x[n] \in Marks
    BY ElementOfSeq
  <2>2. QED BY <2>1 DEF Marks
<1>1. Len(h) \in Nat /\ \A n \in 1 .. Len(h) : h[n].size \in Nat /\ x[n].size \in {0, 1}
  BY <1>a, <1>b
<1>2. Sized(C) /\ Sized(Marks)
  BY DEF Sized, Marks
<1>3. PICK p : Partial(p, h)
  BY <1>2, PartialExists
<1>4. PICK q : Partial(q, x)
  BY <1>2, PartialExists
<1> DEFINE S == {n \in 0 .. Len(h) : q[n] * c <= 3 * p[n] /\ q[n] \in 0 .. n /\ p[n] \in Nat}
<1>5. 0 \in S
  BY <1>1, <1>3, <1>4 DEF Partial
<1>6. ASSUME NEW n \in 1 .. Len(h), n - 1 \in S PROVE n \in S
  <2>1. /\ p[n] = p[n - 1] + h[n].size /\ q[n] = q[n - 1] + x[n].size
        /\ n \in 0 .. Len(h)
    BY <1>3, <1>4, PartialAt
  <2>2. p[n - 1] \in Nat /\ q[n - 1] \in 0 .. n - 1 /\ q[n - 1] * c <= 3 * p[n - 1]
    BY <1>6
  <2>3. h[n].size \in Nat /\ x[n].size \in {0, 1} /\ n \in Nat
    BY <1>1
  <2>4. n \in Nat \ {0} /\ (x[n].size = 1 => c <= 3 * h[n].size)
    BY <1>1
  <2>5. /\ p[n - 1] + h[n].size \in Nat /\ q[n - 1] + x[n].size \in 0 .. n
        /\ (q[n - 1] + x[n].size) * c <= 3 * (p[n - 1] + h[n].size)
    <3> DEFINE a == p[n - 1]
               b == q[n - 1]
               y == x[n].size
               z == h[n].size
    <3>1. a \in Nat /\ b \in 0 .. n - 1 /\ b * c <= 3 * a /\ y \in {0, 1} /\ z \in Nat
          /\ (y = 1 => c <= 3 * z)
      BY <2>2, <2>3, <2>4
    <3> HIDE DEF a, b, y, z
    <3>2. a + z \in Nat /\ b + y \in 0 .. n /\ (b + y) * c <= 3 * (a + z)
      BY <2>4, <3>1, OneMarkMore
    <3>3. QED BY <3>2 DEF a, b, y, z
  <2>6. QED BY <2>1, <2>5
<1> HIDE DEF S
<1>7. \A n \in 0 .. Len(h) : n \in S
  BY <1>1, <1>5, <1>6, UpTo
<1>8. q[Len(h)] * c <= 3 * p[Len(h)] /\ q[Len(h)] \in 0 .. Len(h) /\ p[Len(h)] \in Nat
  BY <1>1, <1>7 DEF S
<1>9. QED BY <1>2, <1>3, <1>4, <1>8, SumIs

-----------------------------------------------------------------------------
(* What flattenMessages does to a prompt.                                  *)

Roles == {"user", "assistant", "call", "tool", "system"}

Forms == {"text", "parts"}

Record == [role : Roles, from : Seq(Nat), form : Forms, size : Nat, more : Nat]

(* Arrays are for models with images.                                      *)
Msg == {m \in Record : (m.form = "text" => m.more = 0) /\ (m.form = "parts" => images)}

LEMMA MsgSized == Sized(Msg) /\ \A m \in Msg : m.size \in Nat
BY DEF Msg, Record, Sized

LEMMA MsgFields ==
  ASSUME NEW m \in Msg
  PROVE  /\ m.role \in Roles /\ m.from \in Seq(Nat) /\ m.form \in Forms
         /\ m.size \in Nat /\ m.more \in Nat /\ TextOf(m) \in Nat /\ m.size <= TextOf(m)
         /\ m.form = "text" => m.more = 0 /\ TextOf(m) = m.size
         /\ ~images => m.form = "text"
BY DEF Msg, Record, Forms, TextOf

LEMMA MsgStays == images' = images => Msg' = Msg
BY DEF Msg, Record, Forms, Roles

(* A message of these fields.                                              *)
LEMMA IsMsg ==
  ASSUME NEW r \in Roles, NEW f \in Seq(Nat), NEW n \in Nat
  PROVE  [role |-> r, from |-> f, form |-> "text", size |-> n, more |-> 0] \in Msg
BY DEF Msg, Record, Forms

LEMMA AsTextType ==
  ASSUME NEW m \in Msg, NEW n \in Nat, NEW g, g = AsText(m, n)
  PROVE  /\ g \in Msg /\ g.size = n /\ g.from = m.from /\ g.role = m.role
         /\ m.form = "text" /\ m.size = n => g = m
<1> DEFINE x == [role |-> m.role, from |-> m.from, form |-> "text", size |-> n, more |-> 0]
<1>1. m \in Record /\ (m.form = "text" => m.more = 0)
  BY DEF Msg
<1>2. g = x
  BY <1>1 DEF AsText, Record
<1>3. x \in Msg
  BY <1>1, IsMsg DEF Record
<1>4. ASSUME m.form = "text", m.size = n PROVE x = m
  BY <1>1, <1>4 DEF Record
<1>5. QED BY <1>2, <1>3, <1>4

(* One message more, at the end of what has been joined so far.            *)
JoinTo(acc, m) ==
  IF acc # <<>> /\ Joins(Last(acc), m)
  THEN Append(Front(acc), Joined(Last(acc), m))
  ELSE Append(acc, m)

(* The tokens of a prompt.                                                 *)
Weight(h) == SumOf(h) + PerMessage * Len(h)

LEMMA WeightType ==
  ASSUME NEW h \in Seq(Msg)
  PROVE  Weight(h) \in Int
<1>1. SumOf(h) \in Int /\ Len(h) \in Nat /\ PerMessage \in Nat
  BY MsgSized, SumType, LenProperties, CompileAssumption
<1>2. QED BY <1>1 DEF Weight

LEMMA WeightOfAppend ==
  ASSUME NEW h \in Seq(Msg), NEW m \in Msg
  PROVE  Weight(Append(h, m)) = Weight(h) + m.size + PerMessage
<1>1. SumOf(Append(h, m)) = SumOf(h) + m.size /\ Len(Append(h, m)) = Len(h) + 1
  BY MsgSized, SumOfAppend, AppendProperties
<1>2. SumOf(h) \in Int /\ Len(h) \in Nat /\ PerMessage \in Nat /\ m.size \in Nat
  BY MsgSized, SumType, LenProperties, CompileAssumption
<1>3. PerMessage * (Len(h) + 1) = PerMessage * Len(h) + PerMessage
  BY <1>2
<1> DEFINE w == PerMessage * Len(h)
<1>4. w \in Int
  BY <1>2
<1> HIDE DEF w
<1>5. QED BY <1>1, <1>2, <1>3, <1>4 DEF Weight, w

Joining(acc, m, r) ==
  /\ r \in Seq(Msg) /\ Len(r) >= 1
  /\ r[1].role = IF Len(acc) = 0 THEN m.role ELSE acc[1].role
  /\ Len(r) <= Len(acc) + 1
  /\ ~images => Weight(r) <= Weight(acc) + m.size + PerMessage

(* Neighbours that are joined save the tokens of a message, and cost one.  *)
LEMMA JoinEffect ==
  ASSUME NEW acc \in Seq(Msg), NEW m \in Msg
  PROVE  Joining(acc, m, JoinTo(acc, m))
<1>1. /\ Len(acc) \in Nat /\ (acc = <<>> <=> Len(acc) = 0)
  BY LenProperties, EmptySeq
<1>2. CASE ~(acc # <<>> /\ Joins(Last(acc), m))
  <2> DEFINE r == Append(acc, m)
  <2>1. /\ r \in Seq(Msg) /\ Len(r) = Len(acc) + 1
        /\ r[Len(acc) + 1] = m /\ \A n \in 1 .. Len(acc) : r[n] = acc[n]
    BY AppendProperties
  <2>2. Weight(r) = Weight(acc) + m.size + PerMessage
    BY WeightOfAppend
  <2>3. JoinTo(acc, m) = r
    BY <1>2 DEF JoinTo
  <2>4. Weight(r) \in Int
    BY <2>1, WeightType
  <2> HIDE DEF r
  <2>5. r[1].role = IF Len(acc) = 0 THEN m.role ELSE acc[1].role
    BY <1>1, <2>1
  <2>6. QED BY <1>1, <2>1, <2>2, <2>3, <2>4, <2>5 DEF Joining
<1>3. CASE acc # <<>> /\ Joins(Last(acc), m)
  <2> DEFINE last == acc[Len(acc)]
             j == Joined(last, m)
             r == Append(Front(acc), j)
  <2>1. last \in Msg /\ Len(acc) >= 1 /\ Last(acc) = last
    BY <1>1, <1>3, ElementOfSeq DEF Last
  <2>2. j \in Msg /\ j.role = last.role /\ (~images => j.size = last.size + 1 + m.size)
    <3> DEFINE o == last.from \o m.from
               z == Added(last) + 1 + Added(m)
    <3>1. o \in Seq(Nat)
      BY <2>1, MsgFields, ConcatProperties
    <3>2. /\ Added(last) \in Nat /\ (~images => Added(last) = last.size)
          /\ Added(m) \in Nat /\ (~images => Added(m) = m.size)
      <4>1. \A x \in Msg : Added(x) \in Nat /\ (~images => Added(x) = x.size)
        BY MsgFields, CompileAssumption DEF Added, Forms
      <4>2. QED BY <2>1, <4>1
    <3>3. z \in Nat
      BY <3>2
    <3>4. ~images => z = last.size + 1 + m.size
      BY <3>2
    <3>5. j = [role |-> last.role, from |-> o, form |-> "text", size |-> z, more |-> 0]
      BY DEF Joined
    <3>6. last.role \in Roles
      BY <2>1, MsgFields
    <3> HIDE DEF o, z, last, j
    <3>7. j \in Msg /\ j.role = last.role /\ j.size = z
      BY <3>1, <3>3, <3>5, <3>6, IsMsg
    <3>8. QED BY <3>4, <3>7
  <2>3. /\ Front(acc) \in Seq(Msg) /\ Len(Front(acc)) = Len(acc) - 1
        /\ \A n \in 1 .. Len(acc) - 1 : Front(acc)[n] = acc[n]
    <3>1. \A n \in 1 .. Len(acc) - 1 : acc[n] \in Msg
      BY <1>1, ElementOfSeq
    <3>2. /\ SubSeq(acc, 1, Len(acc) - 1) \in Seq(Msg)
          /\ Len(SubSeq(acc, 1, Len(acc) - 1)) = Len(acc) - 1
          /\ \A n \in 1 .. Len(acc) - 1 : SubSeq(acc, 1, Len(acc) - 1)[n] = acc[n]
      <4> DEFINE k == Len(acc) - 1
      <4>1. k \in Nat /\ 1 \in Nat \ {0} /\ \A n \in 1 .. k : acc[n] \in Msg
        BY <1>1, <2>1, <3>1
      <4> HIDE DEF k
      <4>2. /\ SubSeq(acc, 1, k) \in Seq(Msg) /\ Len(SubSeq(acc, 1, k)) = k
            /\ \A n \in 1 .. k : SubSeq(acc, 1, k)[n] = acc[n]
        BY <4>1, SubSeqProperties
      <4>3. QED BY <4>2 DEF k
    <3>3. QED BY <3>2 DEF Front
  <2> HIDE DEF j
  <2>4. /\ r \in Seq(Msg) /\ Len(r) = Len(acc) /\ r[Len(acc)] = j
        /\ \A n \in 1 .. Len(acc) : n # Len(acc) => r[n] = acc[n]
    <3> DEFINE f == Front(acc)
    <3>1. /\ f \in Seq(Msg) /\ Len(f) = Len(acc) - 1
          /\ \A n \in 1 .. Len(acc) - 1 : f[n] = acc[n]
      BY <2>3
    <3> HIDE DEF f
    <3>2. /\ Append(f, j) \in Seq(Msg) /\ Len(Append(f, j)) = Len(f) + 1
          /\ Append(f, j)[Len(f) + 1] = j /\ \A n \in 1 .. Len(f) : Append(f, j)[n] = f[n]
      BY <2>2, <3>1, AppendProperties
    <3>3. r = Append(f, j)
      BY DEF f
    <3> HIDE DEF r
    <3>4. Len(acc) - 1 + 1 = Len(acc) /\ \A n \in 1 .. Len(acc) : n # Len(acc) => n \in 1 .. Len(acc) - 1
      BY <1>1
    <3>5. QED BY <3>1, <3>2, <3>3, <3>4
  <2> HIDE DEF r, last
  <2>5. SumOf(r) = SumOf(acc) - last.size + j.size
    <3>1. Len(acc) \in 1 .. Len(acc) /\ acc[Len(acc)] = last
      BY <1>1, <2>1 DEF last
    <3>2. \A n \in 1 .. Len(acc) : n # Len(acc) => r[n].size = acc[n].size
      BY <2>4
    <3>3. SumOf(r) = SumOf(acc) - acc[Len(acc)].size + r[Len(acc)].size
      BY <2>4, <3>1, <3>2, MsgSized, SumOfChange
    <3>4. QED BY <2>4, <3>1, <3>3
  <2>6. ASSUME ~images PROVE Weight(r) <= Weight(acc) + m.size + PerMessage
    <3>1. SumOf(acc) \in Int /\ m.size \in Nat /\ last.size \in Nat /\ PerMessage \in Nat /\ PerMessage >= 1
      BY <2>1, MsgSized, SumType, CompileAssumption
    <3> DEFINE w == PerMessage * Len(acc)
    <3>2. w \in Int
      BY <1>1, <3>1
    <3>3. Weight(r) = SumOf(r) + w /\ Weight(acc) = SumOf(acc) + w
      BY <2>4 DEF Weight
    <3>4. SumOf(r) = SumOf(acc) - last.size + (last.size + 1 + m.size)
      BY <2>2, <2>5, <2>6
    <3> HIDE DEF w
    <3>5. SumOf(r) = SumOf(acc) + 1 + m.size
      <4> DEFINE a == SumOf(acc)
                 l == last.size
                 z == m.size
      <4>1. a \in Int /\ l \in Nat /\ z \in Nat
        BY <3>1
      <4> HIDE DEF a, l, z
      <4>2. a - l + (l + 1 + z) = a + 1 + z
        BY <4>1
      <4>3. QED BY <3>4, <4>2 DEF a, l, z
    <3>6. QED BY <3>1, <3>2, <3>3, <3>5
  <2>7. r[1].role = acc[1].role
    <3>1. CASE Len(acc) = 1
      BY <2>2, <2>4, <3>1 DEF last
    <3>2. CASE Len(acc) # 1
      BY <1>1, <2>1, <2>4, <3>2
    <3>3. QED BY <3>1, <3>2
  <2>8. JoinTo(acc, m) = r
    BY <1>3, <2>1 DEF JoinTo, j, r
  <2>9. QED BY <1>1, <2>1, <2>4, <2>6, <2>7, <2>8 DEF Joining
<1>4. QED BY <1>2, <1>3

(* The recursive function behind FlattenMessages.                          *)
FlattensBy(f, h) ==
  f = [s \in SUBSET DOMAIN h |-> IF s = {} THEN <<>> ELSE JoinTo(f[s \ {Max(s)}], h[Max(s)])]

LEMMA FlattenDef ==
  ASSUME NEW h
  PROVE  FlattenMessages(h) = (CHOOSE f : FlattensBy(f, h))[DOMAIN h]
BY DEF FlattenMessages, FoldLeft, MapThenFoldSet, FlattensBy, JoinTo

LEMMA FlattensExists ==
  ASSUME NEW h \in Seq(Msg)
  PROVE  \E f : FlattensBy(f, h)
<1> DEFINE step == [x \in Seq(Msg) \X Msg |-> JoinTo(x[1], x[2])]
<1>1. Len(h) \in Nat /\ DOMAIN h = 1 .. Len(h)
  BY LenProperties
<1>2. step \in [Seq(Msg) \X Msg -> Seq(Msg)]
  <2>1. \A acc \in Seq(Msg), m \in Msg : JoinTo(acc, m) \in Seq(Msg)
    BY JoinEffect DEF Joining
  <2>2. QED BY <2>1
<1>3. <<>> \in Seq(Msg)
  BY EmptySeq
<1>4. \A acc \in Seq(Msg), m \in Msg : step[<<acc, m>>] = JoinTo(acc, m)
  OBVIOUS
<1> HIDE DEF step
<1>5. PICK f \in [SUBSET (1 .. Len(h)) -> Seq(Msg)] : FoldsBy(f, <<>>, step, h)
  BY <1>2, <1>3, FoldExists
<1>6. ASSUME NEW s \in SUBSET (1 .. Len(h)), s # {}
      PROVE  f[s] = JoinTo(f[s \ {Max(s)}], h[Max(s)])
  <2>1. Max(s) \in 1 .. Len(h)
    BY <1>1, <1>6, MaxExists
  <2>2. h[Max(s)] \in Msg /\ s \ {Max(s)} \in SUBSET (1 .. Len(h))
    BY <2>1, ElementOfSeq
  <2>3. f[s \ {Max(s)}] \in Seq(Msg)
    BY <2>2
  <2>4. f[s] = step[<<f[s \ {Max(s)}], h[Max(s)]>>]
    BY <1>5, <1>6 DEF FoldsBy
  <2>5. QED BY <1>4, <2>2, <2>3, <2>4
<1>7. f[{}] = <<>>
  BY <1>5 DEF FoldsBy
<1>8. FlattensBy(f, h)
  BY <1>1, <1>6, <1>7 DEF FlattensBy
<1>9. QED BY <1>8

(* r is what the first n messages of h, of w tokens, have become.          *)
Flattened(h, n, w, r) ==
  /\ r \in Seq(Msg) /\ Len(r) <= n
  /\ n >= 1 => Len(r) >= 1 /\ r[1].role = h[1].role
  /\ ~images => Weight(r) <= w + PerMessage * n

LEMMA FlattensStep ==
  ASSUME NEW h \in Seq(Msg), NEW n \in 1 .. Len(h), NEW w \in Int, NEW r, Flattened(h, n - 1, w, r)
  PROVE  Flattened(h, n, w + h[n].size, JoinTo(r, h[n]))
<1>1. n \in Nat \ {0} /\ h[n] \in Msg /\ r \in Seq(Msg)
  BY LenProperties, ElementOfSeq DEF Flattened
<1> DEFINE m == h[n]
           q == JoinTo(r, m)
<1>2. Joining(r, m, q)
  BY <1>1, JoinEffect
<1>3. m.size \in Nat /\ PerMessage \in Nat /\ Len(r) \in Nat /\ Weight(r) \in Int
  BY <1>1, MsgSized, LenProperties, WeightType, CompileAssumption
<1> HIDE DEF q
<1>4. q \in Seq(Msg) /\ Len(q) >= 1 /\ Len(q) <= n /\ Len(q) \in Nat /\ Weight(q) \in Int
  BY <1>1, <1>2, <1>3, LenProperties, WeightType DEF Joining, Flattened
<1>5. q[1].role = h[1].role
  <2>1. CASE n = 1
    BY <1>1, <1>2, <1>3, <2>1 DEF Joining, Flattened
  <2>2. CASE n # 1
    BY <1>1, <1>2, <1>3, <2>2 DEF Joining, Flattened
  <2>3. QED BY <2>1, <2>2
<1>6. ASSUME ~images PROVE Weight(q) <= w + m.size + PerMessage * n
  <2> DEFINE v == PerMessage * (n - 1)
             u == PerMessage * n
  <2>1. v \in Int /\ u = v + PerMessage
    BY <1>1, <1>3
  <2>2. Weight(r) <= w + v /\ Weight(q) <= Weight(r) + m.size + PerMessage
    BY <1>2, <1>6 DEF Joining, Flattened
  <2> DEFINE a == Weight(r)
             b == Weight(q)
             z == m.size
  <2>3. a \in Int /\ b \in Int /\ z \in Nat /\ a <= w + v /\ b <= a + z + PerMessage
    BY <1>3, <1>4, <2>2
  <2> HIDE DEF v, u, a, b, z
  <2>4. b <= w + z + u
    BY <1>3, <2>1, <2>3
  <2>5. QED BY <2>4 DEF b, z, u
<1>7. QED BY <1>4, <1>5, <1>6 DEF Flattened, q, m

(* A prompt keeps its first role and, if it has no arrays, does not grow.  *)
LEMMA FlattenEffect ==
  ASSUME NEW h \in Seq(Msg)
  PROVE  Flattened(h, Len(h), SumOf(h), FlattenMessages(h))
<1> DEFINE f == CHOOSE f : FlattensBy(f, h)
<1>1. Len(h) \in Nat /\ DOMAIN h = 1 .. Len(h) /\ Len(h) \in 0 .. Len(h)
  BY LenProperties
<1>2. FlattensBy(f, h)
  BY FlattensExists
<1>3. FlattenMessages(h) = f[1 .. Len(h)]
  BY <1>1, FlattenDef
<1> HIDE DEF f
<1>4. PICK p : Partial(p, h)
  BY MsgSized, PartialExists
<1> DEFINE S == {n \in 0 .. Len(h) : Flattened(h, n, p[n], f[1 .. n])}
<1>5. 0 \in S
  <2>1. f[{}] = <<>> /\ 1 .. 0 = {}
    BY <1>1, <1>2 DEF FlattensBy
  <2>2. Weight(<<>>) = 0
    BY SumOfNone, CompileAssumption DEF Weight
  <2>3. p[0] = 0 /\ PerMessage * 0 = 0
    BY <1>4, CompileAssumption DEF Partial
  <2>4. <<>> \in Seq(Msg) /\ Len(<<>>) = 0
    BY EmptySeq
  <2>5. Flattened(h, 0, p[0], <<>>)
    BY <2>2, <2>3, <2>4 DEF Flattened
  <2>6. QED BY <1>1, <2>1, <2>5
<1>6. ASSUME NEW n \in 1 .. Len(h), n - 1 \in S PROVE n \in S
  <2>1. n \in Nat /\ n \in 1 .. n
    BY <1>1
  <2>2. Max(1 .. n) = n
    <3>1. 1 .. n \in SUBSET (1 .. n)
      OBVIOUS
    <3>2. QED BY <2>1, <3>1, MaxIs
  <2>3. 1 .. n \in SUBSET (1 .. Len(h))
    BY <1>1
  <2>4. (1 .. n) \ {n} = 1 .. n - 1
    BY <2>1
  <2>5. 1 .. n # {}
    BY <2>1
  <2>6. f[1 .. n] = JoinTo(f[1 .. n - 1], h[n])
    BY <1>1, <1>2, <2>2, <2>3, <2>4, <2>5 DEF FlattensBy
  <2>7. p[n] = p[n - 1] + h[n].size /\ p[n - 1] \in Int /\ n \in 0 .. Len(h)
    BY <1>4, PartialAt
  <2>8. Flattened(h, n - 1, p[n - 1], f[1 .. n - 1])
    BY <1>6
  <2>9. QED BY <2>6, <2>7, <2>8, FlattensStep
<1> HIDE DEF S
<1>7. \A n \in 0 .. Len(h) : n \in S
  BY <1>1, <1>5, <1>6, UpTo
<1>8. Flattened(h, Len(h), p[Len(h)], f[1 .. Len(h)])
  BY <1>1, <1>7 DEF S
<1>9. QED BY <1>3, <1>4, <1>8, MsgSized, SumIs

-----------------------------------------------------------------------------
(* The messages a prompt is made of.                                       *)

CopyTo(acc, n) == IF IsEmpty(request[n]) THEN acc ELSE Append(acc, Message(n))

Places == [n \in DOMAIN request |-> n]

(* The recursive function behind Copied.                                   *)
CopiesBy(f) ==
  f = [s \in SUBSET DOMAIN Places |->
         IF s = {} THEN <<>> ELSE CopyTo(f[s \ {Max(s)}], Places[Max(s)])]

LEMMA CopiedDef == Copied = (CHOOSE f : CopiesBy(f))[DOMAIN Places]
BY DEF Copied, FoldLeftDomain, FoldLeft, MapThenFoldSet, CopiesBy, CopyTo, Places

LEMMA CopyToType ==
  ASSUME request \in Requests, NEW acc \in Seq(Msg), NEW n \in DOMAIN request
  PROVE  CopyTo(acc, n) \in Seq(Msg)
<1>1. request \in Seq(RequestMessage)
  BY CompileAssumption
<1>2. n \in 1 .. Len(request) /\ Len(request) \in Nat
  BY <1>1, LenProperties
<1> DEFINE m == request[n]
           c == Content(m)
<1>a. m \in RequestMessage
  BY <1>1, <1>2, ElementOfSeq
<1>b. n \in Nat
  BY <1>2
<1>3. Message(n) \in Msg
  <2>1. <<n>> \in Seq(Nat)
    BY <1>b
  <2>2. Message(n) = [role |-> c.role, from |-> <<n>>, form |-> c.form, size |-> c.size,
                      more |-> c.more]
    BY DEF Message
  <2>3. m.role \in Roles /\ m.size \in Nat /\ m.more \in Nat /\ m.form \in Forms
        /\ (m.form = "text" => m.more = 0)
    BY <1>a DEF RequestMessage, Roles, Forms
  <2>4. \A z : LET x == AsText(m, z)
              IN  x.role = m.role /\ x.form = "text" /\ x.size = z /\ x.more = 0
    BY <1>a DEF AsText, RequestMessage
  <2>5. TextOf(m) \in Nat
    BY <2>3 DEF TextOf
  <2> HIDE DEF m
  <2>6. /\ c.role \in Roles /\ c.size \in Nat /\ c.more \in Nat /\ c.form \in Forms
        /\ (c.form = "text" => c.more = 0) /\ (c.form = "parts" => images)
    <3>1. CASE TextOf(m) = 0
      BY <2>3, <2>4, <3>1 DEF Content, Forms
    <3>2. CASE TextOf(m) # 0 /\ images
      BY <2>3, <3>2 DEF Content
    <3>3. CASE TextOf(m) # 0 /\ ~images
      BY <2>3, <2>4, <2>5, <3>3 DEF Content, Forms
    <3>4. QED BY <3>1, <3>2, <3>3
  <2> HIDE DEF c
  <2>7. QED BY <2>1, <2>2, <2>6 DEF Msg, Record
<1>4. QED BY <1>3, AppendProperties DEF CopyTo

LEMMA CopiedType ==
  ASSUME request \in Requests
  PROVE  Copied \in Seq(Msg)
<1> DEFINE f == CHOOSE f : CopiesBy(f)
           D == 1 .. Len(request)
           step == [x \in Seq(Msg) \X D |-> CopyTo(x[1], x[2])]
<1>1. request \in Seq(RequestMessage)
  BY CompileAssumption
<1>2. Len(request) \in Nat /\ DOMAIN request = D
  BY <1>1, LenProperties
<1>3. Places \in Seq(D) /\ Len(Places) = Len(request) /\ DOMAIN Places = D
      /\ \A n \in D : Places[n] = n
  BY <1>2, IsASeq DEF Places
<1>4. step \in [Seq(Msg) \X D -> Seq(Msg)]
  BY <1>2, CopyToType
<1>5. <<>> \in Seq(Msg)
  BY EmptySeq
<1>6. \A acc \in Seq(Msg), n \in D : step[<<acc, n>>] = CopyTo(acc, n)
  OBVIOUS
<1> HIDE DEF step, f
<1>7. PICK g \in [SUBSET (1 .. Len(Places)) -> Seq(Msg)] : FoldsBy(g, <<>>, step, Places)
  <2>1. Places \in Seq(D)
    BY <1>3
  <2> HIDE DEF D
  <2>2. QED BY <1>4, <1>5, <2>1, FoldExists
<1>8. ASSUME NEW s \in SUBSET D, s # {}
      PROVE  g[s] = CopyTo(g[s \ {Max(s)}], Places[Max(s)])
  <2>1. Max(s) \in D
    BY <1>2, <1>8, MaxExists
  <2>2. g[s \ {Max(s)}] \in Seq(Msg)
    BY <1>3, <1>7
  <2>3. g[s] = step[<<g[s \ {Max(s)}], Places[Max(s)]>>]
    BY <1>3, <1>7, <1>8 DEF FoldsBy
  <2>4. QED BY <1>3, <1>6, <2>1, <2>2, <2>3
<1>9. CopiesBy(g)
  BY <1>3, <1>7, <1>8 DEF CopiesBy, FoldsBy
<1>10. CopiesBy(f)
  BY <1>9 DEF f
<1> DEFINE S == {n \in 0 .. Len(request) : f[1 .. n] \in Seq(Msg)}
<1>11. 0 \in S
  <2>1. f[{}] = <<>>
    BY <1>10 DEF CopiesBy
  <2>2. 1 .. 0 = {} /\ 0 \in 0 .. Len(request)
    BY <1>2
  <2>3. f[1 .. 0] \in Seq(Msg)
    BY <1>5, <2>1, <2>2
  <2>4. QED BY <2>2, <2>3
<1>12. ASSUME NEW n \in 1 .. Len(request), n - 1 \in S PROVE n \in S
  <2>1. n \in Nat /\ n \in 1 .. n /\ n \in D /\ n \in 0 .. Len(request)
    BY <1>2
  <2>2. Max(1 .. n) = n
    <3>1. 1 .. n \in SUBSET (1 .. n)
      OBVIOUS
    <3>2. QED BY <2>1, <3>1, MaxIs
  <2>3. 1 .. n \in SUBSET D
    BY <1>2
  <2>4. (1 .. n) \ {n} = 1 .. n - 1
    BY <2>1
  <2>5. 1 .. n # {}
    BY <2>1
  <2>6. f[1 .. n] = CopyTo(f[1 .. n - 1], n)
    <3>1. Places[n] = n /\ 1 .. n \in SUBSET DOMAIN Places
      BY <1>3, <2>1, <2>3
    <3>2. f[1 .. n] = CopyTo(f[(1 .. n) \ {Max(1 .. n)}], Places[Max(1 .. n)])
      <4> DEFINE s == 1 .. n
      <4>1. s # {} /\ s \in SUBSET DOMAIN Places
        BY <2>5, <3>1
      <4> HIDE DEF s
      <4>2. f[s] = CopyTo(f[s \ {Max(s)}], Places[Max(s)])
        BY <1>10, <4>1 DEF CopiesBy
      <4>3. QED BY <4>2 DEF s
    <3>3. QED BY <2>2, <2>4, <3>1, <3>2
  <2>7. f[1 .. n - 1] \in Seq(Msg)
    BY <1>12
  <2>8. f[1 .. n] \in Seq(Msg)
    BY <1>2, <2>1, <2>6, <2>7, CopyToType
  <2>9. QED BY <2>1, <2>8
<1> HIDE DEF S
<1>13. \A n \in 0 .. Len(request) : n \in S
  BY <1>2, <1>11, <1>12, UpTo
<1>14. f[1 .. Len(request)] \in Seq(Msg)
  BY <1>2, <1>13 DEF S
<1>15. QED BY <1>3, <1>14, CopiedDef DEF f

-----------------------------------------------------------------------------
(* Prompts while they are cut.                                             *)

(* The content of a message becomes a text of n tokens.                    *)
Resized(h, k, n) == [h EXCEPT ![k] = AsText(@, n)]

LEMMA ResizeEffect ==
  ASSUME NEW h \in Seq(Msg), NEW k \in 1 .. Len(h), NEW n \in Nat,
         NEW g, g = Resized(h, k, n)
  PROVE  /\ g \in Seq(Msg) /\ Len(g) = Len(h)
         /\ g[k].size = n /\ g[k].from = h[k].from /\ g[k].role = h[k].role
         /\ h[k].form = "text" /\ h[k].size = n => g[k] = h[k]
         /\ \A l \in 1 .. Len(h) : l # k => g[l] = h[l]
         /\ Weight(g) = Weight(h) - h[k].size + n
<1> DEFINE m == AsText(h[k], n)
<1>1. h[k] \in Msg
  BY ElementOfSeq
<1>2. /\ m \in Msg /\ m.size = n /\ m.from = h[k].from /\ m.role = h[k].role
      /\ h[k].form = "text" /\ h[k].size = n => m = h[k]
  <2> DEFINE o == h[k]
  <2>1. o \in Msg
    BY <1>1
  <2> HIDE DEF o
  <2>2. /\ AsText(o, n) \in Msg /\ AsText(o, n).size = n
        /\ AsText(o, n).from = o.from /\ AsText(o, n).role = o.role
        /\ o.form = "text" /\ o.size = n => AsText(o, n) = o
    BY <2>1, AsTextType
  <2>3. QED BY <2>2 DEF o
<1>3. g = [h EXCEPT ![k] = m]
  BY DEF Resized
<1> HIDE DEF m
<1>4. /\ g \in Seq(Msg) /\ Len(g) = Len(h)
      /\ \A l \in 1 .. Len(h) : g[l] = IF l = k THEN m ELSE h[l]
  <2> DEFINE r == [h EXCEPT ![k] = m]
  <2>1. /\ r \in Seq(Msg) /\ Len(r) = Len(h)
        /\ \A l \in 1 .. Len(h) : r[l] = IF l = k THEN m ELSE h[l]
    BY <1>2, ExceptSeq
  <2> HIDE DEF r
  <2>2. QED BY <1>3, <2>1 DEF r
<1>5. SumOf(g) = SumOf(h) - h[k].size + g[k].size
  <2>1. \A l \in 1 .. Len(h) : l # k => g[l].size = h[l].size
    BY <1>4
  <2>2. QED BY <1>4, <2>1, MsgSized, SumOfChange
<1>6. g[k] = m
  BY <1>4
<1>7. Weight(g) = Weight(h) - h[k].size + n
  <2> DEFINE w == PerMessage * Len(h)
             a == SumOf(h)
             z == h[k].size
  <2>1. w \in Int /\ a \in Int /\ z \in Int
    BY <1>1, MsgSized, SumType, LenProperties, CompileAssumption
  <2>2. Weight(g) = (a - z + n) + w /\ Weight(h) = a + w
    BY <1>2, <1>4, <1>5, <1>6 DEF Weight
  <2> HIDE DEF w, a, z
  <2>3. (a - z + n) + w = (a + w) - z + n
    BY <2>1
  <2>4. QED BY <2>2, <2>3 DEF z
<1>8. QED BY <1>2, <1>4, <1>6, <1>7

(* The first message is dropped.                                           *)
LEMMA TailEffect ==
  ASSUME NEW h \in Seq(Msg), Len(h) >= 1
  PROVE  /\ Tail(h) \in Seq(Msg) /\ Len(Tail(h)) = Len(h) - 1
         /\ \A n \in 1 .. Len(h) - 1 : Tail(h)[n] = h[n + 1]
         /\ h[1] \in Msg /\ Head(h) = h[1]
         /\ Weight(Tail(h)) = Weight(h) - h[1].size - PerMessage
<1>1. h # <<>> /\ Len(h) \in Nat
  BY EmptySeq, LenProperties
<1>2. /\ Tail(h) \in Seq(Msg) /\ Len(Tail(h)) = Len(h) - 1
      /\ \A n \in 1 .. Len(h) - 1 : Tail(h)[n] = h[n + 1]
  BY <1>1, HeadTailProperties
<1>3. h[1] \in Msg /\ Head(h) = h[1]
  <2>1. 1 \in 1 .. Len(h)
    BY <1>1
  <2>2. QED BY <2>1, ElementOfSeq
<1>4. SumOf(Tail(h)) = SumOf(h) - h[1].size
  BY <1>1, MsgSized, SumOfTail
<1>5. Weight(Tail(h)) = Weight(h) - h[1].size - PerMessage
  <2> DEFINE w == PerMessage * Len(h)
             v == PerMessage * (Len(h) - 1)
             a == SumOf(h)
             z == h[1].size
  <2>1. w \in Int /\ v = w - PerMessage /\ PerMessage \in Int
    BY <1>1, CompileAssumption
  <2>2. a \in Int /\ z \in Int
    BY <1>3, MsgSized, SumType
  <2>3. Weight(Tail(h)) = (a - z) + v /\ Weight(h) = a + w
    BY <1>2, <1>4 DEF Weight
  <2> HIDE DEF w, v, a, z
  <2>4. (a - z) + v = (a + w) - z - PerMessage
    BY <2>1, <2>2
  <2>5. QED BY <2>3, <2>4 DEF z
<1>6. QED BY <1>2, <1>3, <1>5

(* Ones for the messages of at least a third of the context, without       *)
(* those at the places of D.                                               *)
LongOnes(h, D) ==
  [n \in 1 .. Len(h) |->
     [size |-> IF n \notin D /\ ContextLength <= Thirds(h[n].size) THEN 1 ELSE 0]]

LEMMA OnesType ==
  ASSUME NEW h \in Seq(Msg), NEW D
  PROVE  /\ LongOnes(h, D) \in Seq(Marks) /\ Len(LongOnes(h, D)) = Len(h)
         /\ \A n \in 1 .. Len(h) : LongOnes(h, D)[n].size =
              IF n \notin D /\ ContextLength <= Thirds(h[n].size) THEN 1 ELSE 0
<1> DEFINE e(n) == [size |-> IF n \notin D /\ ContextLength <= Thirds(h[n].size) THEN 1 ELSE 0]
           x == [n \in 1 .. Len(h) |-> e(n)]
<1>1. Len(h) \in Nat
  BY LenProperties
<1>2. \A n \in 1 .. Len(h) : e(n) \in Marks
  BY DEF Marks
<1>3. LongOnes(h, D) = x
  BY DEF LongOnes
<1>4. x \in Seq(Marks)
  <2> HIDE DEF e
  <2>1. QED BY <1>1, <1>2, IsASeq
<1>5. Len(x) = Len(h)
  <2>1. DOMAIN x = 1 .. Len(x) /\ Len(x) \in Nat
    BY <1>4, LenProperties
  <2>2. QED BY <1>1, <2>1
<1>6. QED BY <1>3, <1>4, <1>5

(* As many long messages fit a sum.                                        *)
LEMMA OnesBound ==
  ASSUME NEW h \in Seq(Msg), NEW D
  PROVE  /\ SumOf(LongOnes(h, D)) \in 0 .. Len(h) /\ SumOf(h) \in Nat
         /\ SumOf(LongOnes(h, D)) * ContextLength <= 3 * SumOf(h)
<1> DEFINE x == LongOnes(h, D)
<1>1. x \in Seq(Marks) /\ Len(x) = Len(h)
  BY OnesType
<1>2. \A n \in 1 .. Len(h) : x[n].size = 1 => ContextLength <= 3 * h[n].size
  BY OnesType DEF Thirds
<1> HIDE DEF x
<1>3. SumOf(x) * ContextLength <= 3 * SumOf(h) /\ SumOf(x) \in 0 .. Len(h) /\ SumOf(h) \in Nat
  BY <1>1, <1>2, MsgSized, SumOfMarks, CompileAssumption
<1>4. QED BY <1>3 DEF x

LEMMA MarksSized == Sized(Marks)
BY DEF Sized, Marks

(* A message cut to no less than a third counts from then on.              *)
LEMMA OnesOfTrim ==
  ASSUME NEW h \in Seq(Msg), NEW g \in Seq(Msg), Len(g) = Len(h), NEW D, NEW k \in 1 .. Len(h),
         k \in D, \A l \in 1 .. Len(h) : l # k => g[l] = h[l], ContextLength <= Thirds(g[k].size)
  PROVE  SumOf(LongOnes(g, D \ {k})) = SumOf(LongOnes(h, D)) + 1
<1> DEFINE x == LongOnes(h, D)
           y == LongOnes(g, D \ {k})
<1>1. x \in Seq(Marks) /\ y \in Seq(Marks) /\ Len(x) = Len(h) /\ Len(y) = Len(h)
  BY OnesType
<1>2. x[k].size = 0 /\ y[k].size = 1
  BY OnesType
<1>3. \A l \in 1 .. Len(x) : l # k => y[l].size = x[l].size
  <2> SUFFICES ASSUME NEW l \in 1 .. Len(x), l # k PROVE y[l].size = x[l].size
    OBVIOUS
  <2>1. l \in 1 .. Len(h) /\ l \in 1 .. Len(g) /\ g[l] = h[l]
    BY <1>1
  <2>2. l \notin D \ {k} <=> l \notin D
    OBVIOUS
  <2>3. y[l].size = IF l \notin D \ {k} /\ ContextLength <= Thirds(g[l].size) THEN 1 ELSE 0
    BY <2>1, OnesType
  <2>4. x[l].size = IF l \notin D /\ ContextLength <= Thirds(h[l].size) THEN 1 ELSE 0
    BY <2>1, OnesType
  <2> HIDE DEF x, y
  <2>5. QED BY <2>1, <2>2, <2>3, <2>4
<1> HIDE DEF x, y
<1>4. SumOf(y) = SumOf(x) - x[k].size + y[k].size
  BY <1>1, <1>3, MarksSized, SumOfChange
<1>5. SumOf(x) \in Int
  BY <1>1, MarksSized, SumType
<1>6. QED BY <1>2, <1>4, <1>5 DEF x, y

(* The first message does not count.                                       *)
LEMMA OnesOfFirst ==
  ASSUME NEW h \in Seq(Msg), NEW g \in Seq(Msg), Len(g) = Len(h),
         \A l \in 1 .. Len(h) : l # 1 => g[l] = h[l]
  PROVE  LongOnes(g, {1}) = LongOnes(h, {1})
<1>1. \A n \in 1 .. Len(h) :
        /\ n \notin {1} /\ ContextLength <= Thirds(g[n].size)
        <=> n \notin {1} /\ ContextLength <= Thirds(h[n].size)
  OBVIOUS
<1>2. QED BY <1>1 DEF LongOnes

LEMMA OnesButFirst ==
  ASSUME NEW h \in Seq(Msg)
  PROVE  SumOf(LongOnes(h, {})) <= SumOf(LongOnes(h, {1})) + 1
<1> DEFINE x == LongOnes(h, {})
           y == LongOnes(h, {1})
<1>1. x \in Seq(Marks) /\ y \in Seq(Marks) /\ Len(x) = Len(h) /\ Len(y) = Len(h) /\ Len(h) \in Nat
  BY OnesType, LenProperties
<1>2. SumOf(x) \in Int /\ SumOf(y) \in Int
  <2> HIDE DEF x, y
  <2>1. QED BY <1>1, MarksSized, SumType
<1>3. CASE Len(h) >= 1
  <2>1. 1 \in 1 .. Len(x)
    BY <1>1, <1>3
  <2>2. \A l \in 1 .. Len(x) : l # 1 => y[l].size = x[l].size
    BY <1>1, OnesType
  <2>3. x[1].size \in {0, 1} /\ y[1].size = 0
    BY <1>1, <2>1, OnesType
  <2> HIDE DEF x, y
  <2>4. SumOf(y) = SumOf(x) - x[1].size + y[1].size
    BY <1>1, <2>1, <2>2, MarksSized, SumOfChange
  <2>5. QED BY <1>2, <2>3, <2>4 DEF x, y
<1>4. CASE Len(h) = 0
  <2>1. x = y
    BY <1>1, <1>4 DEF LongOnes
  <2> HIDE DEF x, y
  <2>2. QED BY <1>2, <2>1 DEF x, y
<1>5. QED BY <1>1, <1>3, <1>4

(* The rest of a prompt, without its first message.                        *)
LEMMA OnesOfRest ==
  ASSUME NEW h \in Seq(Msg), Len(h) >= 1
  PROVE  SumOf(LongOnes(h, {1})) = SumOf(LongOnes(Tail(h), {}))
<1> DEFINE x == LongOnes(h, {1})
           y == LongOnes(Tail(h), {})
<1>1. /\ Tail(h) \in Seq(Msg) /\ Len(Tail(h)) = Len(h) - 1 /\ Len(h) \in Nat
      /\ \A n \in 1 .. Len(h) - 1 : Tail(h)[n] = h[n + 1]
  BY TailEffect, LenProperties
<1>2. x \in Seq(Marks) /\ Len(x) = Len(h)
  BY OnesType
<1>3. y \in Seq(Marks) /\ Len(y) = Len(h) - 1
  BY <1>1, OnesType
<1>4. x[1].size = 0
  <2>1. 1 \in 1 .. Len(h)
    BY <1>1
  <2>2. QED BY <2>1, OnesType
<1>5. \A n \in 1 .. Len(h) - 1 : y[n] = x[n + 1]
  <2> TAKE n \in 1 .. Len(h) - 1
  <2>1. n + 1 \in 1 .. Len(h) /\ n + 1 \notin {1} /\ n \in 1 .. Len(Tail(h)) /\ Tail(h)[n] = h[n + 1]
    BY <1>1
  <2>2. QED BY <2>1 DEF LongOnes
<1> HIDE DEF x
<1>6. /\ x # <<>> /\ Tail(x) \in Seq(Marks) /\ Len(Tail(x)) = Len(x) - 1
      /\ \A n \in 1 .. Len(x) - 1 : Tail(x)[n] = x[n + 1]
  <2>1. x # <<>>
    BY <1>1, <1>2, EmptySeq
  <2>2. QED BY <1>2, <2>1, HeadTailProperties
<1>7. SumOf(Tail(x)) = SumOf(x) - x[1].size
  BY <1>2, <1>6, MarksSized, SumOfTail
<1>8. Tail(x) = y
  <2> HIDE DEF y
  <2>1. QED BY <1>2, <1>3, <1>5, <1>6, SeqEqual
<1>9. SumOf(x) \in Int
  BY <1>2, MarksSized, SumType
<1>10. SumOf(x) = SumOf(y)
  <2> HIDE DEF y
  <2>1. SumOf(y) = SumOf(Tail(x))
    BY <1>8
  <2>2. SumOf(Tail(x)) = SumOf(x) - 0
    BY <1>4, <1>7
  <2>3. SumOf(x) - 0 = SumOf(x)
    BY <1>9
  <2>4. QED BY <2>1, <2>2, <2>3
<1>11. QED BY <1>10 DEF x

-----------------------------------------------------------------------------
(* Where the system message is put.                                        *)

LEMMA SecondToLastEffect ==
  ASSUME NEW h \in Seq(Msg), NEW m \in Msg
  PROVE  LET g == SecondToLast(h, m)
         IN  g \in Seq(Msg) /\ Len(g) = Len(h) + 1 /\ (Len(h) >= 1 => g[Len(h)] = m)
<1> DEFINE at == IF h = <<>> THEN 1 ELSE Len(h)
           a == SubSeq(h, 1, at - 1)
           o == <<m>>
           b == SubSeq(h, at, Len(h))
<1>1. Len(h) \in Nat /\ (h = <<>> <=> Len(h) = 0) /\ \A n \in 1 .. Len(h) : h[n] \in Msg
  BY LenProperties, EmptySeq, ElementOfSeq
<1>2. at \in Int /\ at >= 1 /\ (Len(h) >= 1 => at = Len(h)) /\ (Len(h) = 0 => at = 1)
  BY <1>1
<1>3. SecondToLast(h, m) = (a \o o) \o b
  BY DEF SecondToLast, InsertAt
<1> HIDE DEF at
<1>4. a \in Seq(Msg) /\ Len(a) = at - 1
  <2>1. 1 \in Int /\ at - 1 \in Int /\ \A n \in 1 .. at - 1 : h[n] \in Msg
    BY <1>1, <1>2
  <2> DEFINE k == at - 1
  <2> HIDE DEF k
  <2>2. SubSeq(h, 1, k) \in Seq(Msg) /\ Len(SubSeq(h, 1, k)) = IF 1 <= k THEN k - 1 + 1 ELSE 0
    BY <2>1, SubSeqProperties DEF k
  <2>3. QED BY <1>2, <2>2 DEF k
<1>5. b \in Seq(Msg) /\ Len(b) = Len(h) - at + 1
  <2>1. \A n \in at .. Len(h) : h[n] \in Msg
    BY <1>1, <1>2
  <2>2. SubSeq(h, at, Len(h)) \in Seq(Msg)
        /\ Len(SubSeq(h, at, Len(h))) = IF at <= Len(h) THEN Len(h) - at + 1 ELSE 0
    BY <1>1, <1>2, <2>1, SubSeqProperties
  <2>3. QED BY <1>1, <1>2, <2>2
<1>6. o \in Seq(Msg) /\ Len(o) = 1 /\ o[1] = m
  OBVIOUS
<1> HIDE DEF a, b, o
<1>7. /\ a \o o \in Seq(Msg) /\ Len(a \o o) = at
      /\ (a \o o)[at] = m
  <2>1. /\ a \o o \in Seq(Msg) /\ Len(a \o o) = Len(a) + Len(o)
        /\ \A n \in 1 .. Len(a) + Len(o) :
             (a \o o)[n] = IF n <= Len(a) THEN a[n] ELSE o[n - Len(a)]
    BY <1>4, <1>6, ConcatProperties
  <2>2. Len(a) + Len(o) = at /\ at \in 1 .. at /\ ~(at <= at - 1) /\ at - (at - 1) = 1
    BY <1>2, <1>4, <1>6
  <2>3. QED BY <1>4, <1>6, <2>1, <2>2
<1> DEFINE c == a \o o
           g == c \o b
<1>8. c \in Seq(Msg) /\ Len(c) = at /\ c[at] = m
  BY <1>7
<1> HIDE DEF c
<1>9. /\ g \in Seq(Msg) /\ Len(g) = Len(c) + Len(b)
      /\ \A n \in 1 .. Len(c) + Len(b) : g[n] = IF n <= Len(c) THEN c[n] ELSE b[n - Len(c)]
  BY <1>5, <1>8, ConcatProperties
<1> HIDE DEF g
<1>10. g \in Seq(Msg) /\ Len(g) = Len(h) + 1 /\ (Len(h) >= 1 => g[Len(h)] = m)
  <2>1. Len(g) = at + (Len(h) - at + 1)
    BY <1>5, <1>8, <1>9
  <2>2. Len(g) = Len(h) + 1
    BY <1>1, <1>2, <2>1
  <2>3. ASSUME Len(h) >= 1 PROVE g[Len(h)] = m
    <3>1. at = Len(h) /\ Len(b) = 1 /\ at \in 1 .. Len(c) + Len(b) /\ at <= Len(c)
      BY <1>1, <1>2, <1>5, <1>8, <2>3
    <3>2. QED BY <1>8, <1>9, <3>1
  <2>4. QED BY <1>9, <2>2, <2>3
<1>11. QED BY <1>3, <1>10 DEF g, c

LEMMA ArrangedEffect ==
  ASSUME request \in Requests, NEW n \in SystemSizes
  PROVE  /\ Arranged(n) \in Seq(Msg)
         /\ system = "option" =>
              /\ Len(Arranged(n)) >= 1
              /\ Len(Arranged(n)) >= 2 => Arranged(n)[Len(Arranged(n)) - 1].role = "system"
<1> DEFINE m == SystemMessage(n)
<1>1. Copied \in Seq(Msg) /\ Len(Copied) \in Nat
  BY CopiedType, LenProperties
<1>2. m \in Msg /\ m.role = "system"
  <2>1. n \in Nat /\ <<0>> \in Seq(Nat)
    BY CompileAssumption
  <2>2. "system" \in Roles
    BY DEF Roles
  <2>3. m = [role |-> "system", from |-> <<0>>, form |-> "text", size |-> n, more |-> 0]
    BY DEF SystemMessage
  <2> HIDE DEF m
  <2>4. QED BY <2>1, <2>2, <2>3, IsMsg
<1> HIDE DEF m
<1>3. CASE system = "none"
  BY <1>1, <1>3 DEF Arranged
<1>4. CASE system # "none"
  <2> DEFINE c == Copied
             g == SecondToLast(c, m)
  <2>1. c \in Seq(Msg) /\ Len(c) \in Nat
    BY <1>1
  <2> HIDE DEF c
  <2>2. g \in Seq(Msg) /\ Len(g) = Len(c) + 1 /\ (Len(c) >= 1 => g[Len(c)] = m)
    BY <1>2, <2>1, SecondToLastEffect
  <2>3. Arranged(n) = g
    BY <1>4 DEF Arranged, c, m
  <2> HIDE DEF g
  <2>4. Len(g) >= 1 /\ (Len(g) >= 2 => g[Len(g) - 1] = m)
    <3>1. Len(g) - 1 = Len(c) /\ (Len(g) >= 2 => Len(c) >= 1)
      BY <2>1, <2>2
    <3>2. QED BY <2>1, <2>2, <3>1
  <2>5. QED BY <1>2, <2>2, <2>3, <2>4
<1>5. QED BY <1>3, <1>4

(* At the end it is taken to the beginning.                                *)
LEMMA SystemToTopEffect ==
  ASSUME NEW h \in Seq(Msg)
  PROVE  LET g == SystemToTop(h)
         IN  /\ g \in Seq(Msg) /\ Len(g) = Len(h) /\ SumOf(g) = SumOf(h)
             /\ system = "option" /\ Len(h) >= 2 /\ h[Len(h) - 1].role = "system" =>
                  g[1].role = "system"
<1> DEFINE k == Len(h) - 1
<1>1. Len(h) \in Nat /\ \A n \in 1 .. Len(h) : h[n] \in Msg
  BY LenProperties, ElementOfSeq
<1>2. CASE ~(system = "option" /\ Len(h) >= 2 /\ h[k].role = "system")
  <2>1. SystemToTop(h) = h
    BY <1>2 DEF SystemToTop
  <2>2. QED BY <1>2, <2>1
<1>3. CASE system = "option" /\ Len(h) >= 2 /\ h[k].role = "system"
  <2> DEFINE a == SubSeq(h, 1, k - 1)
             b == SubSeq(h, k + 1, Len(h))
             o == <<h[k]>>
  <2>1. k \in Int /\ k >= 1 /\ k + 1 = Len(h) /\ Len(h) >= 2 /\ k \in 1 .. Len(h)
    BY <1>1, <1>3
  <2>2. SystemToTop(h) = o \o (a \o b)
    BY <1>3 DEF SystemToTop, Cons, RemoveAt
  <2>3. o \in Seq(Msg) /\ Len(o) = 1 /\ o[1] = h[k]
    BY <1>1, <2>1
  <2> HIDE DEF k, o
  <2>4. a \in Seq(Msg) /\ Len(a) = k - 1 /\ \A n \in 1 .. k - 1 : a[n] = h[n]
    <3> DEFINE l == k - 1
    <3>1. 1 \in Int /\ l \in Int /\ \A n \in 1 .. l : h[n] \in Msg
      BY <1>1, <2>1
    <3>2. l >= 0
      BY <2>1
    <3> HIDE DEF l
    <3>3. SubSeq(h, 1, l) \in Seq(Msg) /\ Len(SubSeq(h, 1, l)) = (IF 1 <= l THEN l - 1 + 1 ELSE 0)
          /\ \A n \in 1 .. l - 1 + 1 : SubSeq(h, 1, l)[n] = h[1 + n - 1]
      BY <3>1, SubSeqProperties
    <3>4. Len(SubSeq(h, 1, l)) = l
      BY <3>1, <3>2, <3>3
    <3>5. \A n \in 1 .. l : n \in 1 .. l - 1 + 1 /\ 1 + n - 1 = n
      BY <3>1
    <3>6. QED BY <3>3, <3>4, <3>5 DEF l
  <2>5. b \in Seq(Msg) /\ Len(b) = 1 /\ b[1] = h[Len(h)]
    <3> DEFINE l == Len(h)
    <3>1. l \in Int /\ k + 1 = l /\ \A n \in l .. l : h[n] \in Msg
      BY <1>1, <2>1
    <3> HIDE DEF l
    <3>2. SubSeq(h, l, l) \in Seq(Msg) /\ Len(SubSeq(h, l, l)) = (IF l <= l THEN l - l + 1 ELSE 0)
          /\ \A n \in 1 .. l - l + 1 : SubSeq(h, l, l)[n] = h[l + n - 1]
      BY <3>1, SubSeqProperties
    <3>3. 1 \in 1 .. l - l + 1 /\ l + 1 - 1 = l /\ l <= l /\ l - l + 1 = 1
      BY <3>1
    <3>4. b = SubSeq(h, l, l)
      BY <3>1 DEF l
    <3> HIDE DEF b
    <3>5. QED BY <3>2, <3>3, <3>4 DEF l
  <2> HIDE DEF a, b
  <2> DEFINE c == a \o b
  <2>6. /\ c \in Seq(Msg) /\ Len(c) = k
        /\ \A n \in 1 .. k - 1 : c[n] = h[n]
        /\ c[k] = h[Len(h)]
    <3>1. /\ c \in Seq(Msg) /\ Len(c) = Len(a) + Len(b)
          /\ \A n \in 1 .. Len(a) + Len(b) : c[n] = IF n <= Len(a) THEN a[n] ELSE b[n - Len(a)]
      BY <2>4, <2>5, ConcatProperties
    <3> HIDE DEF c
    <3>2. Len(a) + Len(b) = k /\ k \in 1 .. k /\ ~(k <= k - 1) /\ k - (k - 1) = 1
      BY <2>1, <2>4, <2>5
    <3>3. \A n \in 1 .. k - 1 : n \in 1 .. k /\ n <= k - 1
      BY <2>1
    <3>4. c[k] = b[1]
      BY <2>4, <3>1, <3>2
    <3>5. \A n \in 1 .. k - 1 : c[n] = a[n]
      BY <2>4, <3>1, <3>2, <3>3
    <3>6. QED BY <2>4, <2>5, <3>1, <3>2, <3>4, <3>5
  <2> HIDE DEF c
  <2> DEFINE g == o \o c
  <2>7. /\ g \in Seq(Msg) /\ Len(g) = Len(h) /\ g[1] = h[k]
        /\ \A n \in 1 .. k : g[n + 1] = c[n]
    <3>1. /\ g \in Seq(Msg) /\ Len(g) = Len(o) + Len(c)
          /\ \A n \in 1 .. Len(o) + Len(c) : g[n] = IF n <= Len(o) THEN o[n] ELSE c[n - Len(o)]
      BY <2>3, <2>6, ConcatProperties
    <3> HIDE DEF g
    <3>2. Len(o) + Len(c) = Len(h) /\ 1 \in 1 .. Len(h) /\ 1 <= Len(o)
      BY <2>1, <2>3, <2>6
    <3>3. \A n \in 1 .. k : n + 1 \in 1 .. Len(h) /\ ~(n + 1 <= 1) /\ n + 1 - 1 = n
      BY <2>1
    <3>4. g[1] = o[1]
      BY <3>1, <3>2
    <3>5. \A n \in 1 .. k : g[n + 1] = c[n]
      BY <2>3, <3>1, <3>2, <3>3
    <3>6. QED BY <2>3, <3>1, <3>2, <3>4, <3>5
  <2> HIDE DEF g
  <2>8. g[Len(h)] = h[Len(h)]
    <3>1. k \in 1 .. k /\ k + 1 = Len(h)
      BY <2>1
    <3>2. QED BY <2>6, <2>7, <3>1
  <2>9. \A n \in 2 .. Len(h) - 1 : g[n] = h[n - 1]
    <3> TAKE n \in 2 .. Len(h) - 1
    <3>1. n - 1 \in 1 .. k /\ n - 1 \in 1 .. k - 1 /\ n - 1 + 1 = n
      BY <2>1
    <3>2. g[n - 1 + 1] = c[n - 1] /\ c[n - 1] = h[n - 1]
      BY <2>6, <2>7, <3>1
    <3>3. QED BY <3>1, <3>2
  <2>10. SumOf(g) = SumOf(h)
    <3>1. g[1] = h[Len(h) - 1] /\ Len(h) >= 2
      BY <2>1, <2>7 DEF k
    <3>2. QED BY <2>7, <2>8, <2>9, <3>1, MsgSized, SumOfMoved
  <2>11. g[1].role = "system"
    BY <1>3, <2>7
  <2>12. QED BY <2>2, <2>7, <2>10, <2>11 DEF g, c
<1>4. QED BY <1>2, <1>3

-----------------------------------------------------------------------------
(* The end of a conversation.                                              *)

(* h is the end of what a was, but for sizes.                              *)
EndOf(h, a) ==
  /\ Len(h) <= Len(a) /\ (Len(a) >= 1 => Len(h) >= 1)
  /\ \A k \in 1 .. Len(h) :
       h[k].from = a[Len(a) - Len(h) + k].from /\ h[k].role = a[Len(a) - Len(h) + k].role
  /\ Len(h) >= 2 => h[Len(h)] = a[Len(a)] \/ Thirds(a[Len(a)].size) > ContextLength

LEMMA EndOfSelf ==
  ASSUME NEW a \in Seq(Msg)
  PROVE  EndOf(a, a)
<1>1. Len(a) \in Nat /\ \A k \in 1 .. Len(a) : Len(a) - Len(a) + k = k
  BY LenProperties
<1>2. \A k \in 1 .. Len(a) :
        a[k].from = a[Len(a) - Len(a) + k].from /\ a[k].role = a[Len(a) - Len(a) + k].role
  BY <1>1
<1>3. QED BY <1>1, <1>2 DEF EndOf

(* A message changes its size; the last one only if it was a long one.     *)
LEMMA EndOfResize ==
  ASSUME NEW a \in Seq(Msg), NEW h \in Seq(Msg), NEW g \in Seq(Msg), EndOf(h, a), Len(g) = Len(h),
         NEW k \in 1 .. Len(h), g[k].from = h[k].from, g[k].role = h[k].role,
         \A l \in 1 .. Len(h) : l # k => g[l] = h[l],
         k = Len(h) => Len(h) = 1 \/ Thirds(a[Len(a)].size) > ContextLength
  PROVE  EndOf(g, a)
<1>1. Len(h) \in Nat
  BY LenProperties
<1>2. \A l \in 1 .. Len(h) : g[l].from = h[l].from /\ g[l].role = h[l].role
  OBVIOUS
<1>3. Len(g) >= 2 => g[Len(g)] = a[Len(a)] \/ Thirds(a[Len(a)].size) > ContextLength
  <2>1. CASE k = Len(h)
    BY <1>1, <2>1
  <2>2. CASE k # Len(h)
    <3>1. Len(h) >= 2 => g[Len(h)] = h[Len(h)]
      BY <1>1, <2>2
    <3>2. QED BY <3>1 DEF EndOf
  <2>3. QED BY <2>1, <2>2
<1>4. QED BY <1>2, <1>3 DEF EndOf

(* The first of several is dropped.                                        *)
LEMMA EndOfTail ==
  ASSUME NEW a \in Seq(Msg), NEW h \in Seq(Msg), EndOf(h, a), Len(h) >= 2
  PROVE  EndOf(Tail(h), a)
<1> DEFINE g == Tail(h)
<1>1. /\ g \in Seq(Msg) /\ Len(g) = Len(h) - 1 /\ Len(h) \in Nat /\ Len(a) \in Nat
      /\ \A n \in 1 .. Len(h) - 1 : g[n] = h[n + 1]
  BY TailEffect, LenProperties
<1> HIDE DEF g
<1>2. ASSUME NEW k \in 1 .. Len(g)
      PROVE  g[k].from = a[Len(a) - Len(g) + k].from /\ g[k].role = a[Len(a) - Len(g) + k].role
  <2>1. k + 1 \in 1 .. Len(h) /\ k \in 1 .. Len(h) - 1
        /\ Len(a) - Len(h) + (k + 1) = Len(a) - Len(g) + k
    BY <1>1
  <2>2. /\ h[k + 1].from = a[Len(a) - Len(h) + (k + 1)].from
        /\ h[k + 1].role = a[Len(a) - Len(h) + (k + 1)].role
    BY <2>1 DEF EndOf
  <2>3. g[k] = h[k + 1]
    BY <1>1, <2>1
  <2>4. QED BY <2>1, <2>2, <2>3
<1>3. g[Len(g)] = h[Len(h)]
  <2>1. Len(g) \in 1 .. Len(h) - 1 /\ Len(g) + 1 = Len(h)
    BY <1>1
  <2>2. QED BY <1>1, <2>1
<1>4. Len(g) <= Len(a) /\ (Len(a) >= 1 => Len(g) >= 1)
  BY <1>1 DEF EndOf
<1>5. Len(g) >= 2 => g[Len(g)] = a[Len(a)] \/ Thirds(a[Len(a)].size) > ContextLength
  BY <1>3 DEF EndOf
<1>6. QED BY <1>2, <1>4, <1>5 DEF EndOf, g

LEMMA OriginsType ==
  ASSUME NEW h \in Seq(Msg)
  PROVE  /\ Origins(h) \in Seq(Seq(Nat)) /\ Len(Origins(h)) = Len(h)
         /\ \A k \in 1 .. Len(h) : Origins(h)[k] = h[k].from
<1> DEFINE e(k) == h[k].from
           o == [k \in 1 .. Len(h) |-> e(k)]
<1>1. Len(h) \in Nat /\ DOMAIN h = 1 .. Len(h)
  BY LenProperties
<1>2. \A k \in 1 .. Len(h) : e(k) \in Seq(Nat)
  <2> TAKE k \in 1 .. Len(h)
  <2>1. h[k] \in Msg
    BY ElementOfSeq
  <2>2. QED BY <2>1, MsgFields
<1>3. Origins(h) = o
  BY <1>1 DEF Origins
<1>4. o \in Seq(Seq(Nat))
  <2> HIDE DEF e
  <2>1. QED BY <1>1, <1>2, IsASeq
<1>5. Len(o) = Len(h)
  <2>1. DOMAIN o = 1 .. Len(o) /\ Len(o) \in Nat
    BY <1>4, LenProperties
  <2>2. QED BY <1>1, <2>1
<1>6. QED BY <1>3, <1>4, <1>5

LEMMA ReverseType ==
  ASSUME NEW S, NEW s \in Seq(S)
  PROVE  /\ Reverse(s) \in Seq(S) /\ Len(Reverse(s)) = Len(s)
         /\ \A k \in 1 .. Len(s) : Reverse(s)[k] = s[Len(s) - k + 1]
<1> DEFINE e(k) == s[Len(s) - k + 1]
           r == [k \in 1 .. Len(s) |-> e(k)]
<1>1. Len(s) \in Nat
  BY LenProperties
<1>2. \A k \in 1 .. Len(s) : e(k) \in S
  <2> TAKE k \in 1 .. Len(s)
  <2>1. Len(s) - k + 1 \in 1 .. Len(s)
    BY <1>1
  <2>2. QED BY <2>1, ElementOfSeq
<1>3. Reverse(s) = r
  BY DEF Reverse
<1>4. r \in Seq(S)
  <2> HIDE DEF e
  <2>1. QED BY <1>1, <1>2, IsASeq
<1>5. Len(r) = Len(s)
  <2>1. DOMAIN r = 1 .. Len(r) /\ Len(r) \in Nat
    BY <1>4, LenProperties
  <2>2. QED BY <1>1, <2>1
<1>6. QED BY <1>3, <1>4, <1>5

LEMMA SuffixIs ==
  ASSUME NEW S, NEW s \in Seq(S), NEW t \in Seq(S), Len(s) <= Len(t),
         \A k \in 1 .. Len(s) : s[k] = t[Len(t) - Len(s) + k]
  PROVE  IsSuffix(s, t)
<1> DEFINE r == Reverse(s)
           q == Reverse(t)
           n == Len(s)
<1>1. Len(s) \in Nat /\ Len(t) \in Nat /\ n \in Nat
  BY LenProperties
<1>2. /\ r \in Seq(S) /\ Len(r) = n
      /\ \A k \in 1 .. n : r[k] = s[n - k + 1]
  BY ReverseType
<1>3. /\ q \in Seq(S) /\ Len(q) = Len(t)
      /\ \A k \in 1 .. Len(t) : q[k] = t[Len(t) - k + 1]
  BY ReverseType
<1>4. \A k \in 1 .. n : r[k] = q[k]
  <2> TAKE k \in 1 .. n
  <2>1. n - k + 1 \in 1 .. n /\ k \in 1 .. Len(t) /\ Len(t) - n + (n - k + 1) = Len(t) - k + 1
    BY <1>1
  <2>2. s[n - k + 1] = t[Len(t) - n + (n - k + 1)]
    BY <2>1
  <2> HIDE DEF r, q
  <2>3. QED BY <1>2, <1>3, <2>1, <2>2
<1> HIDE DEF r, q
<1>5. \A k \in 1 .. n : r[k] \in S /\ q[k] \in S
  BY <1>1, <1>2, <1>4, ElementOfSeq
<1> DEFINE u == SubSeq(r, 1, n)
           v == SubSeq(q, 1, n)
<1> HIDE DEF n
<1>6. u \in Seq(S) /\ Len(u) = (IF 1 <= n THEN n - 1 + 1 ELSE 0)
      /\ \A k \in 1 .. n - 1 + 1 : u[k] = r[1 + k - 1]
  BY <1>1, <1>5, SubSeqProperties
<1>7. v \in Seq(S) /\ Len(v) = (IF 1 <= n THEN n - 1 + 1 ELSE 0)
      /\ \A k \in 1 .. n - 1 + 1 : v[k] = q[1 + k - 1]
  BY <1>1, <1>5, SubSeqProperties
<1>8. u = v
  <2> HIDE DEF u, v
  <2>1. \A k \in 1 .. n : k \in 1 .. n - 1 + 1 /\ 1 + k - 1 = k
    BY <1>1
  <2>2. Len(u) = n /\ Len(v) = n
    BY <1>1, <1>6, <1>7
  <2>3. \A k \in 1 .. n : u[k] = v[k]
    BY <1>4, <1>6, <1>7, <2>1
  <2>4. QED BY <1>6, <1>7, <2>2, <2>3, SeqEqual
<1>9. QED BY <1>2, <1>3, <1>8 DEF IsSuffix, IsPrefix, r, q, n

LEMMA EndIsSuffix ==
  ASSUME NEW a \in Seq(Msg), NEW h \in Seq(Msg), EndOf(h, a)
  PROVE  IsSuffix(Origins(h), Origins(a))
<1> DEFINE s == Origins(h)
           t == Origins(a)
<1>1. Len(h) \in Nat /\ Len(a) \in Nat /\ Len(h) <= Len(a)
  BY LenProperties DEF EndOf
<1>2. /\ s \in Seq(Seq(Nat)) /\ Len(s) = Len(h)
      /\ \A k \in 1 .. Len(h) : s[k] = h[k].from
  BY OriginsType
<1>3. /\ t \in Seq(Seq(Nat)) /\ Len(t) = Len(a)
      /\ \A k \in 1 .. Len(a) : t[k] = a[k].from
  BY OriginsType
<1> HIDE DEF s, t
<1>4. \A k \in 1 .. Len(s) : s[k] = t[Len(t) - Len(s) + k]
  <2> TAKE k \in 1 .. Len(s)
  <2>1. Len(a) - Len(h) + k \in 1 .. Len(a) /\ k \in 1 .. Len(h)
    BY <1>1, <1>2
  <2>2. h[k].from = a[Len(a) - Len(h) + k].from
    BY <2>1 DEF EndOf
  <2>3. QED BY <1>2, <1>3, <2>1, <2>2
<1>5. IsSuffix(s, t)
  BY <1>1, <1>2, <1>3, <1>4, SuffixIs
<1>6. QED BY <1>5 DEF s, t

(* What is missed by the total when it fits: two thirds of a token for     *)
(* each of at most two messages, and two for the first one.                *)
LEMMA FewAreMissed ==
  ASSUME NEW c \in Nat \ {0}, NEW m \in Nat, NEW s \in Nat, NEW l \in Nat, m <= l,
         NEW p \in Nat, p >= 1, NEW r \in Nat, r >= 2, NEW t \in Int, t <= 3 * c,
         NEW u \in Int, u <= 2 * m + 2, t + u = 3 * (r + s + p * l), m * c <= 3 * s
  PROVE  u <= 6
<1> DEFINE d == m * c
           e == p * l
<1>1. d \in Int /\ e \in Int /\ d <= 3 * s
  OBVIOUS
<1>2. e >= l
  <2>1. p * l = l + (p - 1) * l
    OBVIOUS
  <2>2. (p - 1) * l >= 0
    OBVIOUS
  <2> DEFINE f == (p - 1) * l
  <2>3. f \in Int
    OBVIOUS
  <2> HIDE DEF f
  <2>4. QED BY <2>1, <2>2, <2>3 DEF f
<1>3. t + u = 3 * (r + s + e)
  OBVIOUS
<1>4. m >= 3 => d >= 3 * c
  <2>1. m >= 3 => (m - 3) * c >= 0
    OBVIOUS
  <2>2. (m - 3) * c = d - 3 * c
    OBVIOUS
  <2> HIDE DEF d
  <2>3. QED BY <1>1, <2>1, <2>2
<1> HIDE DEF d, e
<1>5. d <= 3 * c + (2 * m + 2) - 6 - 3 * m
  BY <1>1, <1>2, <1>3
<1>6. d < 3 * c
  BY <1>1, <1>5
<1>7. m <= 2
  BY <1>1, <1>4, <1>6
<1>8. QED BY <1>7

-----------------------------------------------------------------------------
(* The inductive invariant, part by part.                                  *)

PruneType ==
  /\ request \in Requests /\ reserved \in Reserved
  /\ arranged \in Seq(Msg) /\ history \in Seq(Msg)
  /\ total \in Int /\ i \in Nat /\ images \in BOOLEAN
  /\ pc \in {"compile", "threw", "trim", "summarizeFirst", "dropOld", "summarize", "drop",
             "truncate", "finish", "done"}
  /\ Pruning => Completion < ContextLength

(* The messages that are still to be trimmed are as they were.             *)
Untrimmed ==
  pc = "trim" =>
    \A k \in DOMAIN distance :
      /\ k \in 1 .. Len(history) /\ history[k] = arranged[k]
      /\ distance[k] = Thirds(history[k].size) - ContextLength /\ distance[k] > 0

EndIsKept ==
  Pruning => EndOf(history, arranged) /\ (pc = "trim" => Len(history) = Len(arranged))

(* Each message is as it was, or a long array has become a text.           *)
Unchanged(h, a) ==
  /\ Len(h) = Len(a)
  /\ \A k \in 1 .. Len(a) :
       h[k] = a[k] \/ (a[k].form = "parts" /\ Thirds(a[k].size) > ContextLength)

FittingIsNotTooLong ==
  Pruning /\ Counted(arranged) <= Thirds(ContextLength) =>
    Unchanged(history, arranged) /\ ~TooLong

(* What is not in the total although it is in the messages: up to two      *)
(* thirds of a token for each message cut to a third, so that six of them  *)
(* remain when the total fits, and two for each of the recent messages     *)
(* when it does not.                                                       *)
Missed == Counted(history) - total

MissedIsCovered ==
  /\ pc = "trim" => Missed <= 2 * SumOf(LongOnes(history, DOMAIN distance))
  /\ pc \in {"summarizeFirst", "dropOld"} => Missed <= 2 * SumOf(LongOnes(history, {1})) + 2
  /\ pc \in {"summarize", "drop", "truncate"} => Missed <= Thirds(Buffer)

OneIsLeft == pc = "truncate" /\ TooLong => Len(history) <= 1

Fits == pc = "finish" \/ (pc = "done" /\ ~images) => Weight(history) + reserved <= ContextLength

(* The system message is the second to last.                               *)
SystemIsSecondToLast ==
  Pruning /\ system = "option" =>
    Len(arranged) >= 1 /\ (Len(arranged) >= 2 => arranged[Len(arranged) - 1].role = "system")

PruneInv ==
  /\ PruneType /\ Untrimmed /\ EndIsKept /\ FittingIsNotTooLong
  /\ MissedIsCovered /\ OneIsLeft /\ Fits /\ SystemIsSecondToLast /\ SystemComesFirst

LEMMA Numbers ==
  /\ ContextLength \in Nat /\ PerMessage \in Nat /\ PerMessage >= 1
  /\ Buffer \in Nat /\ Buffer >= 2 /\ PerMessage <= Buffer
  /\ Recent \in Nat /\ Recent >= 1 /\ 2 * Recent <= 3 * Buffer /\ Hundred \in Nat
BY CompileAssumption, MarginAssumption

LEMMA CountedIs ==
  ASSUME reserved \in Reserved, NEW h \in Seq(Msg)
  PROVE  /\ Completion \in Nat /\ Completion = reserved + Buffer /\ reserved \in Nat
         /\ Weight(h) \in Int /\ Counted(h) = 3 * (Completion + Weight(h)) /\ Counted(h) \in Int
<1>1. reserved \in Nat /\ Completion \in Nat /\ Completion = reserved + Buffer
  BY CompileAssumption DEF Completion
<1>2. Weight(h) \in Int
  BY WeightType
<1>3. SumOf(h) \in Int /\ Len(h) \in Nat /\ PerMessage \in Nat
  BY MsgSized, SumType, LenProperties, CompileAssumption
<1> DEFINE w == PerMessage * Len(h)
           a == SumOf(h)
           c == Completion
<1>4. w \in Int /\ a \in Int /\ c \in Int
  BY <1>1, <1>3
<1>5. Counted(h) = 3 * (c + a + w) /\ Weight(h) = a + w
  BY DEF Counted, Thirds, Weight
<1> HIDE DEF w, a, c
<1>6. Counted(h) = 3 * (c + Weight(h)) /\ Counted(h) \in Int
  BY <1>4, <1>5
<1>7. QED BY <1>1, <1>2, <1>6 DEF c

LEMMA CountedStays ==
  ASSUME reserved' = reserved
  PROVE  /\ Completion' = Completion
         /\ arranged' = arranged => Counted(arranged)' = Counted(arranged)
         /\ Counted(history)' = Counted(history')
BY DEF Completion, Counted

(* The first of the messages is dropped.                                   *)
LEMMA ShiftEffect ==
  ASSUME PruneType, Len(history) >= 1, Shift, reserved' = reserved
  PROVE  /\ history' \in Seq(Msg) /\ Len(history') = Len(history) - 1 /\ total' \in Int
         /\ history' = Tail(history)
         /\ Missed \in Int /\ Missed' = Missed - 3 * PerMessage
<1>1. history \in Seq(Msg) /\ reserved \in Reserved /\ total \in Int
  BY DEF PruneType
<1>2. history' = Tail(history) /\ total' = total - 3 * Head(history).size
  BY DEF Shift, Thirds
<1>3. /\ history' \in Seq(Msg) /\ Len(history') = Len(history) - 1
      /\ Head(history) = history[1] /\ history[1] \in Msg
      /\ Weight(history') = Weight(history) - history[1].size - PerMessage
  BY <1>1, <1>2, TailEffect
<1>4. history[1].size \in Nat /\ PerMessage \in Nat
  BY <1>3, MsgSized, Numbers
<1>5. /\ Completion \in Int /\ Weight(history) \in Int
      /\ Counted(history) = 3 * (Completion + Weight(history))
      /\ Counted(history') = 3 * (Completion + Weight(history'))
  BY <1>1, <1>3, CountedIs
<1>6. Missed' = Counted(history') - total'
  BY CountedStays DEF Missed
<1> DEFINE z == history[1].size
           w == Weight(history)
<1>7. z \in Nat /\ w \in Int /\ total' = total - 3 * z /\ Weight(history') = w - z - PerMessage
  BY <1>2, <1>3, <1>4, <1>5
<1> HIDE DEF z, w
<1>8. Missed = 3 * (Completion + w) - total
  BY <1>5 DEF Missed, w
<1>9. Missed' = 3 * (Completion + (w - z - PerMessage)) - (total - 3 * z)
  BY <1>5, <1>6, <1>7
<1>10. total' \in Int /\ Missed \in Int /\ Missed' = Missed - 3 * PerMessage
  BY <1>1, <1>4, <1>5, <1>7, <1>8, <1>9
<1>11. QED BY <1>2, <1>3, <1>10

(* A message is replaced by its summary.                                   *)
LEMMA SummarizeEffect ==
  ASSUME PruneType, NEW k \in 1 .. Len(history), Summarize(k), reserved' = reserved
  PROVE  /\ history' \in Seq(Msg) /\ Len(history') = Len(history) /\ total' \in Int
         /\ history'[k].from = history[k].from /\ history'[k].role = history[k].role
         /\ \A l \in 1 .. Len(history) : l # k => history'[l] = history[l]
         /\ Missed \in Int /\ Missed' = Missed
<1>1. history \in Seq(Msg) /\ reserved \in Reserved /\ total \in Int
  BY DEF PruneType
<1> DEFINE z == history[k].size
           y == TextOf(history[k])
           n == Summary(y)
<1>2. z \in Nat /\ y \in Nat
  <2>1. history[k] \in Msg
    BY <1>1, ElementOfSeq
  <2>2. QED BY <2>1, MsgFields
<1> HIDE DEF z, y
<1>3. n \in Nat
  BY <1>2, Numbers DEF Summary, LessOf
<1>4. history' = Resized(history, k, n) /\ total' = total + 3 * (n - z)
  BY DEF Summarize, Resize, Resized, Thirds, z, y
<1> HIDE DEF n
<1>5. /\ history' \in Seq(Msg) /\ Len(history') = Len(history)
      /\ history'[k].from = history[k].from /\ history'[k].role = history[k].role
      /\ \A l \in 1 .. Len(history) : l # k => history'[l] = history[l]
      /\ Weight(history') = Weight(history) - z + n
  <2> DEFINE g == history'
  <2>0. g = Resized(history, k, n)
    BY <1>4
  <2> HIDE DEF g
  <2>1. /\ g \in Seq(Msg) /\ Len(g) = Len(history)
        /\ g[k].from = history[k].from /\ g[k].role = history[k].role
        /\ \A l \in 1 .. Len(history) : l # k => g[l] = history[l]
        /\ Weight(g) = Weight(history) - history[k].size + n
    BY <1>1, <1>3, <2>0, ResizeEffect
  <2>2. QED BY <2>1 DEF g, z
<1>6. /\ Completion \in Int /\ Weight(history) \in Int
      /\ Counted(history) = 3 * (Completion + Weight(history))
      /\ Counted(history') = 3 * (Completion + Weight(history'))
  BY <1>1, <1>5, CountedIs
<1>7. Missed' = Counted(history') - total'
  BY CountedStays DEF Missed
<1> DEFINE w == Weight(history)
<1>8. w \in Int /\ Weight(history') = w - z + n
  BY <1>5, <1>6
<1> HIDE DEF w
<1>9. Missed = 3 * (Completion + w) - total
  BY <1>6 DEF Missed, w
<1>10. Missed' = 3 * (Completion + (w - z + n)) - (total + 3 * (n - z))
  BY <1>4, <1>6, <1>7, <1>8
<1>11. total' \in Int /\ Missed \in Int /\ Missed' = Missed
  <2> DEFINE c == Completion
             t == total
  <2>1. c \in Int /\ t \in Int
    BY <1>1, <1>6
  <2> HIDE DEF c, t
  <2>2. 3 * (c + (w - z + n)) - (t + 3 * (n - z)) = 3 * (c + w) - t
        /\ 3 * (c + w) - t \in Int /\ t + 3 * (n - z) \in Int
    BY <1>2, <1>3, <1>8, <2>1
  <2>3. QED BY <1>4, <1>9, <1>10, <2>2 DEF c, t
<1>12. QED BY <1>5, <1>11

(* The next phase begins with what the one before has left.                *)
LEMMA PhaseKeeps ==
  ASSUME PruneInv, Pruning, UNCHANGED <<inputs, arranged, history, total>>,
         pc' \in {"summarizeFirst", "dropOld", "summarize", "drop", "truncate"}, i' = 0
  PROVE  /\ PruneType' /\ Untrimmed' /\ EndIsKept' /\ FittingIsNotTooLong'
         /\ Fits' /\ SystemIsSecondToLast' /\ SystemComesFirst'
         /\ Missed' = Missed /\ (TooLong' <=> TooLong)
<1> USE DEF PruneInv
<1>1. /\ request' = request /\ system' = system /\ reserved' = reserved
      /\ arranged' = arranged /\ history' = history /\ total' = total
      /\ Completion' = Completion /\ Counted(arranged)' = Counted(arranged)
      /\ Counted(history)' = Counted(history) /\ images' = images /\ Msg' = Msg
  BY CountedStays, MsgStays DEF inputs
<1>2. Missed' = Missed
  BY <1>1 DEF Missed
<1>3. TooLong' <=> TooLong
  BY <1>1 DEF TooLong
<1>4. Pruning'
  BY DEF Pruning
<1>5. PruneType'
  BY <1>1, <1>4 DEF PruneType
<1>6. Untrimmed' /\ Fits' /\ SystemComesFirst'
  BY DEF Untrimmed, Fits, SystemComesFirst
<1>7. EndIsKept'
  BY <1>1, <1>4 DEF EndIsKept
<1>8. FittingIsNotTooLong'
  BY <1>1, <1>3, <1>4 DEF FittingIsNotTooLong
<1>9. SystemIsSecondToLast'
  BY <1>1, <1>4 DEF SystemIsSecondToLast
<1>10. QED BY <1>2, <1>3, <1>5, <1>6, <1>7, <1>8, <1>9

(* Messages are only cut when they are too many.                           *)
LEMMA CutKeeps ==
  ASSUME PruneInv, pc \in {"summarizeFirst", "dropOld", "summarize", "drop"}, TooLong,
         UNCHANGED <<inputs, pc, arranged>>, history' \in Seq(Msg), total' \in Int, i' \in Nat,
         EndOf(history', arranged)
  PROVE  /\ PruneType' /\ Untrimmed' /\ EndIsKept' /\ FittingIsNotTooLong'
         /\ OneIsLeft' /\ Fits' /\ SystemIsSecondToLast' /\ SystemComesFirst'
<1> USE DEF PruneInv
<1>1. /\ request' = request /\ system' = system /\ reserved' = reserved
      /\ arranged' = arranged /\ pc' = pc
      /\ Completion' = Completion /\ Counted(arranged)' = Counted(arranged)
      /\ images' = images /\ Msg' = Msg
  BY CountedStays, MsgStays DEF inputs
<1>2. Pruning /\ Pruning'
  BY <1>1 DEF Pruning
<1>3. PruneType'
  BY <1>1, <1>2 DEF PruneType
<1>4. Untrimmed' /\ OneIsLeft' /\ Fits' /\ SystemComesFirst'
  BY <1>1 DEF Untrimmed, OneIsLeft, Fits, SystemComesFirst
<1>5. EndIsKept'
  BY <1>1, <1>2 DEF EndIsKept
<1>6. FittingIsNotTooLong'
  BY <1>1, <1>2 DEF FittingIsNotTooLong
<1>7. SystemIsSecondToLast'
  BY <1>1, <1>2 DEF SystemIsSecondToLast
<1>8. QED BY <1>3, <1>4, <1>5, <1>6, <1>7

LEMMA PruneInit == Init => PruneInv
<1> SUFFICES ASSUME Init PROVE PruneInv
  OBVIOUS
<1>1. ~Pruning /\ pc = "compile"
  BY DEF Init, Pruning
<1>2. PruneType
  <2>1. <<>> \in Seq(Msg)
    BY EmptySeq
  <2>2. QED BY <1>1, <2>1 DEF Init, PruneType
<1>3. Untrimmed /\ MissedIsCovered /\ OneIsLeft /\ Fits /\ SystemComesFirst
  BY <1>1 DEF Untrimmed, MissedIsCovered, OneIsLeft, Fits, SystemComesFirst
<1>4. EndIsKept /\ FittingIsNotTooLong /\ SystemIsSecondToLast
  BY <1>1 DEF EndIsKept, FittingIsNotTooLong, SystemIsSecondToLast
<1>5. QED BY <1>2, <1>3, <1>4 DEF PruneInv

LEMMA ThrowKeepsInv ==
  ASSUME PruneInv, CompileThrows
  PROVE  PruneInv'
<1>1. pc' = "threw" /\ ~Pruning'
  BY DEF CompileThrows, Pruning
<1>2. PruneType'
  <2>1. /\ request' = request /\ reserved' = reserved /\ images' = images
        /\ arranged' = arranged /\ history' = history /\ total' = total /\ i' = i
    BY DEF CompileThrows, inputs
  <2>2. Msg' = Msg
    BY <2>1, MsgStays
  <2>3. QED BY <1>1, <2>1, <2>2 DEF PruneInv, PruneType
<1>3. (Untrimmed /\ MissedIsCovered /\ OneIsLeft /\ Fits /\ SystemComesFirst)'
  BY <1>1 DEF Untrimmed, MissedIsCovered, OneIsLeft, Fits, SystemComesFirst
<1>4. (EndIsKept /\ FittingIsNotTooLong /\ SystemIsSecondToLast)'
  BY <1>1 DEF EndIsKept, FittingIsNotTooLong, SystemIsSecondToLast
<1>5. QED BY <1>2, <1>3, <1>4 DEF PruneInv

LEMMA TrimEndsKeepsInv ==
  ASSUME PruneInv, TrimEnds
  PROVE  PruneInv'
<1>1. /\ pc = "trim" /\ pc' = "summarizeFirst" /\ i' = 0 /\ DOMAIN distance = {}
      /\ UNCHANGED <<inputs, arranged, history, total>>
  BY DEF TrimEnds, Phase
<1>2. /\ PruneType' /\ Untrimmed' /\ EndIsKept' /\ FittingIsNotTooLong'
      /\ Fits' /\ SystemIsSecondToLast' /\ SystemComesFirst' /\ Missed' = Missed
  BY <1>1, PhaseKeeps DEF Pruning
<1>3. OneIsLeft'
  BY <1>1 DEF OneIsLeft
<1>4. history \in Seq(Msg) /\ reserved \in Reserved /\ total \in Int
  BY DEF PruneInv, PruneType
<1>5. Missed <= 2 * SumOf(LongOnes(history, {1})) + 2
  <2> DEFINE a == SumOf(LongOnes(history, {}))
             b == SumOf(LongOnes(history, {1}))
  <2>1. a \in 0 .. Len(history) /\ b \in 0 .. Len(history) /\ a <= b + 1
    BY <1>4, OnesBound, OnesButFirst
  <2>2. Missed <= 2 * a
    BY <1>1 DEF PruneInv, MissedIsCovered
  <2>3. Missed \in Int
    BY <1>4, CountedIs DEF Missed
  <2> HIDE DEF a, b
  <2>4. a \in Int /\ b \in Int
    BY <2>1
  <2>5. Missed <= 2 * b + 2
    BY <2>1, <2>2, <2>3, <2>4
  <2>6. QED BY <2>5 DEF b
<1>6. MissedIsCovered'
  BY <1>1, <1>2, <1>5 DEF MissedIsCovered
<1>7. QED BY <1>2, <1>3, <1>6 DEF PruneInv

LEMMA SummarizeFirstKeepsInv ==
  ASSUME PruneInv, SummarizeFirst
  PROVE  PruneInv'
<1>1. /\ pc = "summarizeFirst" /\ TooLong /\ i < Len(history) - Recent /\ Summarize(1)
      /\ i' = i + 1 /\ UNCHANGED <<inputs, pc, arranged>>
  BY DEF SummarizeFirst, MoreToSummarizeFirst
<1>2. /\ PruneType /\ history \in Seq(Msg) /\ arranged \in Seq(Msg) /\ i \in Nat
      /\ EndOf(history, arranged) /\ reserved' = reserved /\ Len(history) \in Nat
  BY <1>1, LenProperties DEF PruneInv, PruneType, EndIsKept, Pruning, inputs
<1>3. Len(history) >= 2 /\ 1 \in 1 .. Len(history) /\ i' \in Nat
  BY <1>1, <1>2, Numbers
<1>4. /\ history' \in Seq(Msg) /\ Len(history') = Len(history) /\ total' \in Int
      /\ history'[1].from = history[1].from /\ history'[1].role = history[1].role
      /\ \A l \in 1 .. Len(history) : l # 1 => history'[l] = history[l]
      /\ Missed \in Int /\ Missed' = Missed
  BY <1>1, <1>2, <1>3, SummarizeEffect
<1>5. EndOf(history', arranged)
  <2> DEFINE l == Len(history)
  <2>a. l >= 2 /\ l \in Nat
    BY <1>2, <1>3
  <2> HIDE DEF l
  <2>b. 1 # l
    BY <2>a
  <2>1. 1 # Len(history)
    BY <2>b DEF l
  <2>2. QED BY <1>2, <1>3, <1>4, <2>1, EndOfResize
<1>6. /\ PruneType' /\ Untrimmed' /\ EndIsKept' /\ FittingIsNotTooLong'
      /\ OneIsLeft' /\ Fits' /\ SystemIsSecondToLast' /\ SystemComesFirst'
  BY <1>1, <1>3, <1>4, <1>5, CutKeeps
<1>7. LongOnes(history', {1}) = LongOnes(history, {1})
  BY <1>2, <1>4, OnesOfFirst
<1>8. Missed <= 2 * SumOf(LongOnes(history, {1})) + 2
  BY <1>1 DEF PruneInv, MissedIsCovered
<1>9. (2 * SumOf(LongOnes(history, {1})) + 2)' = 2 * SumOf(LongOnes(history, {1})) + 2
  BY <1>7
<1>10. MissedIsCovered'
  BY <1>1, <1>4, <1>8, <1>9 DEF MissedIsCovered
<1>11. QED BY <1>6, <1>10 DEF PruneInv

LEMMA SummarizeFirstEndsKeepsInv ==
  ASSUME PruneInv, SummarizeFirstEnds
  PROVE  PruneInv'
<1>1. /\ pc = "summarizeFirst" /\ pc' = "dropOld" /\ i' = 0
      /\ UNCHANGED <<inputs, arranged, history, total>>
  BY DEF SummarizeFirstEnds, Phase
<1>2. /\ PruneType' /\ Untrimmed' /\ EndIsKept' /\ FittingIsNotTooLong'
      /\ Fits' /\ SystemIsSecondToLast' /\ SystemComesFirst' /\ Missed' = Missed
  BY <1>1, PhaseKeeps DEF Pruning
<1>3. OneIsLeft'
  BY <1>1 DEF OneIsLeft
<1>4. MissedIsCovered'
  BY <1>1, <1>2 DEF PruneInv, MissedIsCovered
<1>5. QED BY <1>2, <1>3, <1>4 DEF PruneInv

LEMMA DropOldKeepsInv ==
  ASSUME PruneInv, DropOld
  PROVE  PruneInv'
<1>1. /\ pc = "dropOld" /\ TooLong /\ Len(history) > Recent /\ Shift
      /\ i' = i /\ UNCHANGED <<inputs, pc, arranged>>
  BY DEF DropOld
<1>2. /\ PruneType /\ history \in Seq(Msg) /\ arranged \in Seq(Msg) /\ i \in Nat
      /\ EndOf(history, arranged) /\ reserved' = reserved /\ Len(history) \in Nat
  BY <1>1, LenProperties DEF PruneInv, PruneType, EndIsKept, Pruning, inputs
<1>3. Len(history) >= 2 /\ i' \in Nat
  BY <1>1, <1>2, Numbers
<1>4. /\ history' \in Seq(Msg) /\ Len(history') = Len(history) - 1 /\ total' \in Int
      /\ history' = Tail(history)
      /\ Missed \in Int /\ Missed' = Missed - 3 * PerMessage
  BY <1>1, <1>2, <1>3, ShiftEffect
<1>5. EndOf(history', arranged)
  BY <1>2, <1>3, <1>4, EndOfTail
<1>6. /\ PruneType' /\ Untrimmed' /\ EndIsKept' /\ FittingIsNotTooLong'
      /\ OneIsLeft' /\ Fits' /\ SystemIsSecondToLast' /\ SystemComesFirst'
  BY <1>1, <1>3, <1>4, <1>5, CutKeeps
<1>7. Missed' <= 2 * SumOf(LongOnes(history', {1})) + 2
  <2> DEFINE t == Tail(history)
             a == SumOf(LongOnes(history, {1}))
             b == SumOf(LongOnes(t, {}))
             c == SumOf(LongOnes(t, {1}))
  <2>1. t \in Seq(Msg)
    BY <1>4
  <2>2. a = b
    BY <1>2, <1>3, OnesOfRest
  <2>3. b \in Int /\ c \in Int /\ b <= c + 1
    <3> HIDE DEF t
    <3>1. b \in 0 .. Len(t) /\ c \in 0 .. Len(t)
      BY <2>1, OnesBound
    <3>2. b <= c + 1
      BY <2>1, OnesButFirst
    <3> HIDE DEF b, c
    <3>3. b \in Int /\ c \in Int
      BY <3>1
    <3>4. QED BY <3>2, <3>3
  <2>4. Missed <= 2 * a + 2
    BY <1>1 DEF PruneInv, MissedIsCovered
  <2> HIDE DEF a, b, c, t
  <2>5. Missed - 3 * PerMessage <= 2 * c + 2
    BY <1>4, <2>2, <2>3, <2>4, Numbers
  <2>6. QED BY <1>4, <2>5 DEF c, t
<1>8. MissedIsCovered'
  BY <1>1, <1>7 DEF MissedIsCovered
<1>9. QED BY <1>6, <1>8 DEF PruneInv

(* Either the total fits, and then so few messages are long that little is *)
(* missed, or few messages are left.                                       *)
LEMMA DropOldEndsKeepsInv ==
  ASSUME PruneInv, DropOldEnds
  PROVE  PruneInv'
<1>1. /\ pc = "dropOld" /\ pc' = "summarize" /\ i' = 0
      /\ ~(TooLong /\ Len(history) > Recent)
      /\ UNCHANGED <<inputs, arranged, history, total>>
  BY DEF DropOldEnds, Phase
<1>2. /\ PruneType' /\ Untrimmed' /\ EndIsKept' /\ FittingIsNotTooLong'
      /\ Fits' /\ SystemIsSecondToLast' /\ SystemComesFirst' /\ Missed' = Missed
  BY <1>1, PhaseKeeps DEF Pruning
<1>3. OneIsLeft'
  BY <1>1 DEF OneIsLeft
<1>4. /\ history \in Seq(Msg) /\ reserved \in Reserved /\ total \in Int /\ Len(history) \in Nat
      /\ Completion < ContextLength
  BY <1>1, LenProperties DEF PruneInv, PruneType, Pruning
<1> DEFINE m == SumOf(LongOnes(history, {1}))
           s == SumOf(history)
           l == Len(history)
<1>5. m \in 0 .. l /\ s \in Nat /\ m * ContextLength <= 3 * s /\ l \in Nat
  BY <1>4, OnesBound
<1>6. Missed <= 2 * m + 2
  BY <1>1 DEF PruneInv, MissedIsCovered
<1>7. /\ Completion \in Nat /\ Completion = reserved + Buffer /\ reserved \in Nat
      /\ Counted(history) \in Int /\ Missed \in Int
  BY <1>4, CountedIs DEF Missed
<1>8. Missed <= Thirds(Buffer)
  <2>1. CASE TooLong
    <3>1. l <= Recent
      BY <1>1, <1>5, <2>1, Numbers
    <3>2. l >= 1 => m <= l - 1
      <4>1. ASSUME l >= 1 PROVE m <= l - 1
        <5>1. Tail(history) \in Seq(Msg) /\ Len(Tail(history)) = l - 1
          BY <1>4, <4>1, TailEffect
        <5>2. m = SumOf(LongOnes(Tail(history), {}))
          BY <1>4, <4>1, OnesOfRest
        <5>3. SumOf(LongOnes(Tail(history), {})) \in 0 .. l - 1
          BY <5>1, OnesBound
        <5> HIDE DEF m
        <5>4. m \in 0 .. l - 1
          BY <5>2, <5>3
        <5>5. QED BY <5>4
      <4>2. QED BY <4>1
    <3> HIDE DEF m, s, l
    <3>3. 2 * m + 2 <= 3 * Buffer
      BY <1>5, <3>1, <3>2, Numbers
    <3>4. m \in Int
      BY <1>5
    <3>5. QED BY <1>6, <1>7, <3>3, <3>4, Numbers DEF Thirds
  <2>2. CASE ~TooLong
    <3>1. total <= 3 * ContextLength
      BY <1>4, <2>2, Numbers DEF TooLong, Thirds
    <3>2. total + Missed = 3 * (Completion + s + PerMessage * l)
      <4> DEFINE c == Counted(history)
      <4>1. c = 3 * (Completion + s + PerMessage * l)
        BY DEF Counted, Thirds
      <4>2. total + (c - total) = c
        <5> HIDE DEF c
        <5>1. c \in Int
          BY <1>7 DEF c
        <5>2. QED BY <1>4, <5>1
      <4>3. Missed = c - total
        BY DEF Missed
      <4> HIDE DEF c
      <4>4. QED BY <4>1, <4>2, <4>3
    <3> HIDE DEF m, s, l
    <3>3. Completion >= 2 /\ ContextLength \in Nat \ {0} /\ m \in Nat /\ m <= l
      BY <1>4, <1>5, <1>7, Numbers
    <3>4. Missed <= 6
      <4> DEFINE u == Missed
                 r == Completion
                 c == ContextLength
                 p == PerMessage
                 t == total
      <4>1. /\ c \in Nat \ {0} /\ m \in Nat /\ s \in Nat /\ l \in Nat /\ m <= l
            /\ p \in Nat /\ p >= 1 /\ r \in Nat /\ r >= 2 /\ t \in Int /\ t <= 3 * c
            /\ u \in Int /\ u <= 2 * m + 2 /\ t + u = 3 * (r + s + p * l) /\ m * c <= 3 * s
        BY <1>4, <1>5, <1>6, <1>7, <3>1, <3>2, <3>3, Numbers
      <4> HIDE DEF u, r, c, p, t
      <4>2. u <= 6
        BY <4>1, FewAreMissed
      <4>3. QED BY <4>2 DEF u
    <3>5. QED BY <1>7, <3>4, Numbers DEF Thirds
  <2>3. QED BY <2>1, <2>2
<1>9. MissedIsCovered'
  BY <1>1, <1>2, <1>8 DEF MissedIsCovered, Thirds
<1>10. QED BY <1>2, <1>3, <1>9 DEF PruneInv

LEMMA SummarizeNextKeepsInv ==
  ASSUME PruneInv, SummarizeNext
  PROVE  PruneInv'
<1> DEFINE k == i + 1
<1>1. /\ pc = "summarize" /\ TooLong /\ i < Len(history) - 1 /\ Summarize(k)
      /\ i' = i + 1 /\ UNCHANGED <<inputs, pc, arranged>>
  BY DEF SummarizeNext, MoreToSummarize
<1>2. /\ PruneType /\ history \in Seq(Msg) /\ arranged \in Seq(Msg) /\ i \in Nat
      /\ EndOf(history, arranged) /\ reserved' = reserved /\ Len(history) \in Nat
  BY <1>1, LenProperties DEF PruneInv, PruneType, EndIsKept, Pruning, inputs
<1>3. k \in 1 .. Len(history) /\ k # Len(history) /\ i' \in Nat
  BY <1>1, <1>2
<1> HIDE DEF k
<1>4. /\ history' \in Seq(Msg) /\ Len(history') = Len(history) /\ total' \in Int
      /\ history'[k].from = history[k].from /\ history'[k].role = history[k].role
      /\ \A l \in 1 .. Len(history) : l # k => history'[l] = history[l]
      /\ Missed \in Int /\ Missed' = Missed
  BY <1>1, <1>2, <1>3, SummarizeEffect
<1>5. EndOf(history', arranged)
  BY <1>2, <1>3, <1>4, EndOfResize
<1>6. /\ PruneType' /\ Untrimmed' /\ EndIsKept' /\ FittingIsNotTooLong'
      /\ OneIsLeft' /\ Fits' /\ SystemIsSecondToLast' /\ SystemComesFirst'
  BY <1>1, <1>3, <1>4, <1>5, CutKeeps
<1>7. MissedIsCovered'
  BY <1>1, <1>4 DEF PruneInv, MissedIsCovered, Thirds
<1>8. QED BY <1>6, <1>7 DEF PruneInv

LEMMA SummarizeEndsKeepsInv ==
  ASSUME PruneInv, SummarizeEnds
  PROVE  PruneInv'
<1>1. /\ pc = "summarize" /\ pc' = "drop" /\ i' = 0
      /\ UNCHANGED <<inputs, arranged, history, total>>
  BY DEF SummarizeEnds, Phase
<1>2. /\ PruneType' /\ Untrimmed' /\ EndIsKept' /\ FittingIsNotTooLong'
      /\ Fits' /\ SystemIsSecondToLast' /\ SystemComesFirst' /\ Missed' = Missed
  BY <1>1, PhaseKeeps DEF Pruning
<1>3. OneIsLeft'
  BY <1>1 DEF OneIsLeft
<1>4. MissedIsCovered'
  BY <1>1, <1>2 DEF PruneInv, MissedIsCovered, Thirds
<1>5. QED BY <1>2, <1>3, <1>4 DEF PruneInv

LEMMA DropKeepsInv ==
  ASSUME PruneInv, Drop
  PROVE  PruneInv'
<1>1. /\ pc = "drop" /\ TooLong /\ Len(history) > 1 /\ Shift
      /\ i' = i /\ UNCHANGED <<inputs, pc, arranged>>
  BY DEF Drop
<1>2. /\ PruneType /\ history \in Seq(Msg) /\ arranged \in Seq(Msg) /\ i \in Nat
      /\ EndOf(history, arranged) /\ reserved' = reserved /\ Len(history) \in Nat
  BY <1>1, LenProperties DEF PruneInv, PruneType, EndIsKept, Pruning, inputs
<1>3. Len(history) >= 2 /\ i' \in Nat
  BY <1>1, <1>2
<1>4. /\ history' \in Seq(Msg) /\ Len(history') = Len(history) - 1 /\ total' \in Int
      /\ history' = Tail(history)
      /\ Missed \in Int /\ Missed' = Missed - 3 * PerMessage
  BY <1>1, <1>2, <1>3, ShiftEffect
<1>5. EndOf(history', arranged)
  BY <1>2, <1>3, <1>4, EndOfTail
<1>6. /\ PruneType' /\ Untrimmed' /\ EndIsKept' /\ FittingIsNotTooLong'
      /\ OneIsLeft' /\ Fits' /\ SystemIsSecondToLast' /\ SystemComesFirst'
  BY <1>1, <1>3, <1>4, <1>5, CutKeeps
<1>7. Missed' <= Thirds(Buffer)
  <2>1. Missed <= Thirds(Buffer)
    BY <1>1 DEF PruneInv, MissedIsCovered
  <2>2. QED BY <1>4, <2>1, Numbers DEF Thirds
<1>8. MissedIsCovered'
  BY <1>1, <1>7 DEF MissedIsCovered, Thirds
<1>9. QED BY <1>6, <1>8 DEF PruneInv

LEMMA DropEndsKeepsInv ==
  ASSUME PruneInv, DropEnds
  PROVE  PruneInv'
<1>1. /\ pc = "drop" /\ pc' = "truncate" /\ i' = 0
      /\ ~(TooLong /\ Len(history) > 1)
      /\ UNCHANGED <<inputs, arranged, history, total>>
  BY DEF DropEnds, Phase
<1>2. /\ PruneType' /\ Untrimmed' /\ EndIsKept' /\ FittingIsNotTooLong'
      /\ Fits' /\ SystemIsSecondToLast' /\ SystemComesFirst' /\ Missed' = Missed
      /\ (TooLong' <=> TooLong)
  BY <1>1, PhaseKeeps DEF Pruning
<1>3. OneIsLeft'
  <2>1. history \in Seq(Msg) /\ Len(history) \in Nat
    BY LenProperties DEF PruneInv, PruneType
  <2>2. TooLong => Len(history) <= 1
    BY <1>1, <2>1
  <2>3. QED BY <1>1, <1>2, <2>2 DEF OneIsLeft
<1>4. MissedIsCovered'
  BY <1>1, <1>2 DEF PruneInv, MissedIsCovered, Thirds
<1>5. QED BY <1>2, <1>3, <1>4 DEF PruneInv

LEMMA CompileKeepsInv ==
  ASSUME PruneInv, Compile
  PROVE  PruneInv'
<1>1. /\ request \in Requests /\ reserved \in Reserved /\ i \in Nat
      /\ request' = request /\ system' = system /\ reserved' = reserved /\ i' = i
      /\ images' = images
  BY DEF PruneInv, PruneType, Compile, inputs
<1>2. /\ ~Throws /\ pc' = "trim" /\ history' = arranged' /\ total' = Counted(arranged')
      /\ distance' = [k \in {k \in DOMAIN arranged' : Thirds(arranged'[k].size) > ContextLength} |->
                        Thirds(arranged'[k].size) - ContextLength]
  BY DEF Compile
<1>3. PICK n \in SystemSizes : arranged' = Arranged(n)
  BY DEF Compile
<1>4. /\ arranged' \in Seq(Msg)
      /\ system = "option" =>
           Len(arranged') >= 1 /\ (Len(arranged') >= 2 => arranged'[Len(arranged') - 1].role = "system")
  BY <1>1, <1>3, ArrangedEffect
<1>5. /\ Completion \in Nat /\ Completion = reserved + Buffer
      /\ Counted(arranged') \in Int /\ Completion' = Completion
      /\ Counted(arranged)' = Counted(arranged') /\ Counted(history)' = Counted(arranged')
  BY <1>1, <1>2, <1>4, CountedIs DEF Counted, Completion
<1>6. Completion < ContextLength
  BY <1>1, <1>2, <1>5, Numbers DEF Throws, Completion
<1>7. Pruning'
  BY <1>2 DEF Pruning
<1>8. PruneType'
  <2>0. images' = images /\ images \in BOOLEAN
    BY <1>1 DEF PruneInv, PruneType
  <2>1. Msg' = Msg
    BY <2>0, MsgStays
  <2>2. QED BY <1>1, <1>2, <1>4, <1>5, <1>6, <2>0, <2>1 DEF PruneType
<1>9. Untrimmed'
  <2> SUFFICES ASSUME NEW k \in DOMAIN distance'
               PROVE  /\ k \in 1 .. Len(history') /\ history'[k] = arranged'[k]
                      /\ distance'[k] = Thirds(history'[k].size) - ContextLength
                      /\ distance'[k] > 0
    BY DEF Untrimmed
  <2>1. /\ k \in DOMAIN arranged' /\ Thirds(arranged'[k].size) > ContextLength
        /\ distance'[k] = Thirds(arranged'[k].size) - ContextLength
    BY <1>2
  <2>2. k \in 1 .. Len(arranged')
    BY <1>4, <2>1, LenProperties
  <2>3. arranged'[k].size \in Nat
    <3> DEFINE m == arranged'[k]
    <3>1. m \in Msg
      BY <1>4, <2>2, ElementOfSeq
    <3> HIDE DEF m
    <3>2. m.size \in Nat
      BY <3>1, MsgSized
    <3>3. QED BY <3>2 DEF m
  <2>4. distance'[k] > 0
    BY <2>1, <2>3, Numbers DEF Thirds
  <2>5. QED BY <1>2, <2>1, <2>2, <2>4
<1>10. EndIsKept'
  BY <1>2, <1>4, EndOfSelf DEF EndIsKept
<1>11. FittingIsNotTooLong'
  <2>1. ASSUME Counted(arranged') <= Thirds(ContextLength) PROVE ~TooLong'
    BY <1>2, <1>5, <2>1, Numbers DEF TooLong, Thirds
  <2>2. Unchanged(history', arranged')
    BY <1>2 DEF Unchanged
  <2>3. QED BY <1>2, <1>5, <2>1, <2>2 DEF FittingIsNotTooLong
<1>12. MissedIsCovered'
  <2>1. Missed' = 0
    BY <1>2, <1>5 DEF Missed
  <2>2. SumOf(LongOnes(history', DOMAIN distance')) \in 0 .. Len(history')
    BY <1>2, <1>4, OnesBound
  <2> DEFINE a == SumOf(LongOnes(history', DOMAIN distance'))
  <2>3. a \in 0 .. Len(history')
    BY <2>2
  <2> HIDE DEF a
  <2>4. 0 <= 2 * a
    BY <2>3
  <2>5. Missed' <= 2 * SumOf(LongOnes(history', DOMAIN distance'))
    BY <2>1, <2>4 DEF a
  <2>6. QED BY <1>2, <2>5 DEF MissedIsCovered
<1>13. OneIsLeft' /\ Fits' /\ SystemComesFirst'
  BY <1>2 DEF OneIsLeft, Fits, SystemComesFirst
<1>14. SystemIsSecondToLast'
  BY <1>1, <1>4 DEF SystemIsSecondToLast
<1>15. QED BY <1>8, <1>9, <1>10, <1>11, <1>12, <1>13, <1>14 DEF PruneInv

LEMMA TrimKeepsInv ==
  ASSUME PruneInv, NEW k \in DOMAIN distance, Trim(k)
  PROVE  PruneInv'
<1> DEFINE x == Delta(k)
           z == history[k].size
           v == TextOf(history[k])
           n == LessOf(v, z - x \div 3)
           dd == distance[k]
<1>1. /\ pc = "trim" /\ pc' = "trim" /\ i' = i /\ arranged' = arranged
      /\ request' = request /\ system' = system /\ reserved' = reserved /\ images' = images
      /\ history' = Resized(history, k, n) /\ total' = total - x
      /\ distance' = [l \in DOMAIN distance \ {k} |-> distance[l]]
  BY DEF Trim, Resize, Resized, inputs
<1>2. /\ PruneType /\ history \in Seq(Msg) /\ arranged \in Seq(Msg) /\ i \in Nat
      /\ reserved \in Reserved /\ total \in Int
      /\ EndOf(history, arranged) /\ Len(history) = Len(arranged) /\ Len(history) \in Nat
  BY <1>1, LenProperties DEF PruneInv, PruneType, EndIsKept, Pruning
<1>3. /\ k \in 1 .. Len(history) /\ history[k] = arranged[k]
      /\ dd = 3 * z - ContextLength /\ dd > 0
  BY <1>1 DEF PruneInv, Untrimmed, Thirds
<1>b. history[k] \in Msg
  BY <1>2, <1>3, ElementOfSeq
<1>4. z \in Nat /\ v \in Nat /\ z <= v /\ (history[k].form = "text" => v = z)
  BY <1>b, MsgFields
<1>5. x = LessOf(total - 3 * ContextLength, dd) /\ x \in Int
  <2>1. x = LessOf(total - 3 * ContextLength, dd)
    BY DEF Delta, Thirds
  <2>2. dd \in Int /\ total - 3 * ContextLength \in Int
    <3> HIDE DEF dd, z, x
    <3>1. QED BY <1>2, <1>3, <1>4, Numbers
  <2>3. LessOf(total - 3 * ContextLength, dd) \in Int
    <3> HIDE DEF dd, x
    <3>1. QED BY <2>2 DEF LessOf
  <2>4. QED BY <2>1, <2>3
<1> HIDE DEF x, z, dd, v
<1>a. n = LessOf(v, z - x \div 3)
  OBVIOUS
<1> HIDE DEF n
<1>7. /\ n \in Nat /\ ContextLength <= 3 * n /\ x <= 3 * (z - n) + 2
      /\ total <= 3 * ContextLength => (v = z => n = z) /\ total - x = 3 * ContextLength
  <2> DEFINE c == ContextLength
             t == total
             q == x \div 3
  <2>1. c \in Nat /\ t \in Int
    BY <1>2, Numbers
  <2>2. dd = 3 * z - c /\ dd > 0 /\ x = LessOf(t - 3 * c, dd) /\ n = LessOf(v, z - q)
    BY <1>3, <1>5, <1>a
  <2> HIDE DEF c, t
  <2>3. dd \in Int /\ x <= dd
    BY <1>4, <1>5, <2>1, <2>2 DEF LessOf
  <2>5. q \in Int /\ 3 * q <= x /\ x <= 3 * q + 2
    BY <1>5
  <2> HIDE DEF q
  <2>b. n \in Int /\ n <= z - q /\ (n = v \/ n = z - q)
    BY <1>4, <2>2, <2>5 DEF LessOf
  <2>6. n \in Nat /\ c <= 3 * n /\ x <= 3 * (z - n) + 2
    <3>1. c <= 3 * v /\ c <= 3 * (z - q)
      BY <1>4, <1>5, <2>1, <2>2, <2>3, <2>5
    <3>2. c <= 3 * n
      BY <2>b, <3>1
    <3>3. x <= 3 * (z - n) + 2
      BY <1>4, <1>5, <2>5, <2>b
    <3>4. QED BY <2>1, <2>b, <3>2, <3>3
  <2>7. ASSUME t <= 3 * c PROVE (v = z => n = z) /\ t - x = 3 * c
    <3>1. x = t - 3 * c
      BY <2>1, <2>2, <2>3, <2>7 DEF LessOf
    <3>2. q <= 0
      BY <1>5, <2>1, <2>5, <2>7, <3>1
    <3>3. z <= z - q
      BY <1>4, <2>5, <3>2
    <3>4. v = z => n = z
      BY <1>4, <2>2, <2>5, <3>3 DEF LessOf
    <3>5. QED BY <1>5, <2>1, <3>1, <3>4
  <2>8. QED BY <2>6, <2>7 DEF c, t
<1>8. /\ history' \in Seq(Msg) /\ Len(history') = Len(history)
      /\ history'[k].size = n /\ history'[k].from = history[k].from
      /\ history'[k].role = history[k].role
      /\ history[k].form = "text" /\ z = n => history'[k] = history[k]
      /\ \A l \in 1 .. Len(history) : l # k => history'[l] = history[l]
      /\ Weight(history') = Weight(history) - z + n
  <2> DEFINE g == history'
  <2>1. g = Resized(history, k, n)
    BY <1>1
  <2> HIDE DEF g
  <2>2. /\ g \in Seq(Msg) /\ Len(g) = Len(history)
        /\ g[k].size = n /\ g[k].from = history[k].from /\ g[k].role = history[k].role
        /\ history[k].form = "text" /\ history[k].size = n => g[k] = history[k]
        /\ \A l \in 1 .. Len(history) : l # k => g[l] = history[l]
        /\ Weight(g) = Weight(history) - history[k].size + n
    BY <1>2, <1>3, <1>7, <2>1, ResizeEffect
  <2>3. QED BY <2>2 DEF g, z
<1>9. /\ Completion \in Nat /\ Weight(history) \in Int
      /\ Counted(history) = 3 * (Completion + Weight(history))
      /\ Counted(history') = 3 * (Completion + Weight(history'))
      /\ Completion' = Completion /\ Counted(arranged)' = Counted(arranged)
      /\ Counted(history)' = Counted(history')
  BY <1>1, <1>2, <1>8, CountedIs, CountedStays
<1>10. Pruning /\ Pruning'
  BY <1>1 DEF Pruning
<1>11. PruneType'
  <2>1. total' \in Int
    BY <1>1, <1>2, <1>5
  <2>2. Msg' = Msg
    BY <1>1, MsgStays
  <2>3. QED BY <1>1, <1>2, <1>8, <1>9, <1>10, <2>1, <2>2 DEF PruneType
<1>12. Untrimmed'
  <2> SUFFICES ASSUME NEW l \in DOMAIN distance'
               PROVE  /\ l \in 1 .. Len(history') /\ history'[l] = arranged'[l]
                      /\ distance'[l] = Thirds(history'[l].size) - ContextLength
                      /\ distance'[l] > 0
    BY DEF Untrimmed
  <2>1. l \in DOMAIN distance /\ l # k /\ distance'[l] = distance[l]
    BY <1>1
  <2>2. /\ l \in 1 .. Len(history) /\ history[l] = arranged[l]
        /\ distance[l] = Thirds(history[l].size) - ContextLength /\ distance[l] > 0
    BY <1>1, <2>1 DEF PruneInv, Untrimmed
  <2>3. history'[l] = history[l]
    BY <1>8, <2>1, <2>2
  <2>4. QED BY <1>1, <1>8, <2>1, <2>2, <2>3
<1>13. EndIsKept'
  <2>1. ASSUME k = Len(history) PROVE Thirds(arranged[Len(arranged)].size) > ContextLength
    <3>1. arranged[Len(arranged)].size = z
      BY <1>2, <1>3, <2>1 DEF z
    <3>2. 3 * z > ContextLength
      BY <1>3, <1>4, Numbers
    <3>3. QED BY <3>1, <3>2 DEF Thirds
  <2>2. EndOf(history', arranged)
    BY <1>2, <1>3, <1>8, <2>1, EndOfResize
  <2>3. QED BY <1>1, <1>2, <1>8, <2>2 DEF EndIsKept
<1>14. FittingIsNotTooLong'
  <2> SUFFICES ASSUME Counted(arranged) <= Thirds(ContextLength)
               PROVE  Unchanged(history', arranged) /\ ~TooLong'
    BY <1>1, <1>9 DEF FittingIsNotTooLong
  <2>1. Unchanged(history, arranged) /\ ~TooLong
    BY <1>10 DEF PruneInv, FittingIsNotTooLong
  <2>2. total <= 3 * ContextLength
    BY <1>2, <2>1, Numbers DEF TooLong, Thirds
  <2>3. (v = z => n = z) /\ total' = 3 * ContextLength
    BY <1>1, <1>7, <2>2
  <2>4. ~TooLong'
    BY <2>3, Numbers DEF TooLong, Thirds
  <2>5. \/ history'[k] = arranged[k]
        \/ arranged[k].form = "parts" /\ Thirds(arranged[k].size) > ContextLength
    <3>1. CASE history[k].form = "text"
      BY <1>3, <1>4, <1>8, <2>3, <3>1
    <3>2. CASE history[k].form # "text"
      <4>1. history[k].form = "parts"
        BY <1>b, <3>2, MsgFields DEF Forms
      <4>2. Thirds(z) > ContextLength
        BY <1>3, <1>4, Numbers DEF Thirds
      <4>3. QED BY <1>3, <4>1, <4>2 DEF z
    <3>3. QED BY <3>1, <3>2
  <2>6. \A l \in 1 .. Len(arranged) :
          \/ history'[l] = arranged[l]
          \/ arranged[l].form = "parts" /\ Thirds(arranged[l].size) > ContextLength
    <3> TAKE l \in 1 .. Len(arranged)
    <3>1. l # k => history'[l] = history[l]
      BY <1>2, <1>8
    <3>2. QED BY <2>1, <2>5, <3>1 DEF Unchanged
  <2>7. QED BY <1>2, <1>8, <2>4, <2>6 DEF Unchanged
<1>15. MissedIsCovered'
  <2> DEFINE D == DOMAIN distance
             a == SumOf(LongOnes(history, D))
             b == SumOf(LongOnes(history', D \ {k}))
  <2>1. DOMAIN distance' = D \ {k}
    BY <1>1
  <2>2. Missed <= 2 * a
    BY <1>1 DEF PruneInv, MissedIsCovered
  <2>3. a \in 0 .. Len(history)
    BY <1>2, OnesBound
  <2>4. b = a + 1
    <3>1. ContextLength <= Thirds(history'[k].size)
      BY <1>7, <1>8 DEF Thirds
    <3>2. QED BY <1>2, <1>3, <1>8, <3>1, OnesOfTrim
  <2> HIDE DEF a, b, D
  <2> DEFINE w == Weight(history)
             c == Completion
             t == total
  <2>5. Missed = 3 * (c + w) - t
    BY <1>9 DEF Missed
  <2>6. Missed' = 3 * (c + (w - z + n)) - (t - x)
    BY <1>1, <1>8, <1>9 DEF Missed
  <2>7. w \in Int /\ c \in Int /\ t \in Int /\ a \in Int
    BY <1>2, <1>9, <2>3
  <2> HIDE DEF w, c, t
  <2>8. Missed' <= 2 * b
    BY <1>4, <1>5, <1>7, <2>2, <2>4, <2>5, <2>6, <2>7
  <2>9. Missed' <= 2 * SumOf(LongOnes(history', DOMAIN distance'))
    BY <2>1, <2>8 DEF b
  <2>10. QED BY <1>1, <2>9 DEF MissedIsCovered
<1>16. OneIsLeft' /\ Fits' /\ SystemComesFirst'
  BY <1>1 DEF OneIsLeft, Fits, SystemComesFirst
<1>17. SystemIsSecondToLast'
  BY <1>1, <1>10 DEF PruneInv, SystemIsSecondToLast
<1>18. QED BY <1>11, <1>12, <1>13, <1>14, <1>15, <1>16, <1>17 DEF PruneInv

LEMMA WeightOfOne ==
  ASSUME NEW h \in Seq(Msg)
  PROVE  /\ Len(h) = 0 => Weight(h) = 0
         /\ Len(h) = 1 => Weight(h) = h[1].size + PerMessage
<1>1. \A g \in Seq(Msg) : Len(g) = 0 => Weight(g) = 0
  <2> TAKE g \in Seq(Msg)
  <2>1. Len(g) = 0 => g = <<>>
    BY EmptySeq
  <2>2. Weight(<<>>) = 0
    <3>1. Len(<<>>) = 0 /\ PerMessage * 0 = 0
      BY Numbers
    <3>2. QED BY <3>1, SumOfNone DEF Weight
  <2>3. QED BY <2>1, <2>2
<1>2. ASSUME Len(h) = 1 PROVE Weight(h) = h[1].size + PerMessage
  <2>1. /\ Tail(h) \in Seq(Msg) /\ Len(Tail(h)) = 0 /\ h[1] \in Msg
        /\ Weight(Tail(h)) = Weight(h) - h[1].size - PerMessage
    BY <1>2, TailEffect
  <2> DEFINE w == Weight(h)
             z == h[1].size
  <2>2. w \in Int /\ z \in Int /\ PerMessage \in Int
    BY <2>1, WeightType, MsgSized, Numbers
  <2>a. Weight(Tail(h)) = 0
    BY <1>1, <2>1
  <2>b. w - z - PerMessage = 0
    BY <2>1, <2>a
  <2> HIDE DEF w, z
  <2>3. w = z + PerMessage
    BY <2>2, <2>b
  <2>4. QED BY <2>3 DEF w, z
<1>3. QED BY <1>1, <1>2

LEMMA TruncateKeepsInv ==
  ASSUME PruneInv, Truncate
  PROVE  PruneInv'
<1>1. /\ pc = "truncate" /\ pc' = "finish" /\ i' = 0 /\ arranged' = arranged
      /\ request' = request /\ system' = system /\ reserved' = reserved /\ images' = images
      /\ Msg' = Msg
  BY MsgStays DEF Truncate, Phase, inputs
<1>2. /\ PruneType /\ history \in Seq(Msg) /\ arranged \in Seq(Msg)
      /\ reserved \in Reserved /\ total \in Int /\ Completion < ContextLength
      /\ EndOf(history, arranged) /\ Len(history) \in Nat /\ (history = <<>> <=> Len(history) = 0)
  BY <1>1, LenProperties, EmptySeq DEF PruneInv, PruneType, EndIsKept, Pruning
<1>3. /\ Completion \in Nat /\ Completion = reserved + Buffer /\ reserved \in Nat
      /\ Weight(history) \in Int /\ Counted(history) = 3 * (Completion + Weight(history))
      /\ Completion' = Completion /\ Counted(arranged)' = Counted(arranged)
  BY <1>1, <1>2, CountedIs, CountedStays
<1>4. Pruning /\ Pruning'
  BY <1>1 DEF Pruning
<1>5. Untrimmed' /\ MissedIsCovered' /\ OneIsLeft' /\ SystemComesFirst'
  BY <1>1 DEF Untrimmed, MissedIsCovered, OneIsLeft, SystemComesFirst
<1>6. SystemIsSecondToLast'
  BY <1>1, <1>4 DEF PruneInv, SystemIsSecondToLast
<1>7. CASE ~(TooLong /\ history # <<>>)
  <2>1. history' = history /\ total' = total
    BY <1>7 DEF Truncate
  <2>2. PruneType'
    BY <1>1, <1>2, <1>3, <1>4, <2>1 DEF PruneType
  <2>3. EndIsKept'
    BY <1>1, <1>2, <2>1 DEF EndIsKept
  <2>4. FittingIsNotTooLong'
    BY <1>1, <1>3, <1>4, <2>1 DEF PruneInv, FittingIsNotTooLong, TooLong
  <2>5. Weight(history) + reserved <= ContextLength
    <3> DEFINE w == Weight(history)
               t == total
    <3>1. w \in Int /\ t \in Int
      BY <1>2, <1>3
    <3>2. CASE ~TooLong
      <4>1. t <= 3 * ContextLength
        BY <1>2, <3>2, Numbers DEF TooLong, Thirds
      <4>2. 3 * (Completion + w) - t <= 3 * Buffer
        BY <1>1, <1>3 DEF PruneInv, MissedIsCovered, Missed, Thirds
      <4> HIDE DEF w, t
      <4>3. w + reserved <= ContextLength
        BY <1>3, <3>1, <4>1, <4>2, Numbers
      <4>4. QED BY <4>3 DEF w
    <3>3. CASE history = <<>>
      <4>1. w = 0
        BY <1>2, <3>3, WeightOfOne
      <4> HIDE DEF w
      <4>2. w + reserved <= ContextLength
        BY <1>2, <1>3, <4>1, Numbers
      <4>3. QED BY <4>2 DEF w
    <3>4. QED BY <1>7, <3>2, <3>3
  <2>6. Fits'
    BY <1>1, <2>1, <2>5 DEF Fits
  <2>7. QED BY <1>5, <1>6, <2>2, <2>3, <2>4, <2>6 DEF PruneInv
<1>8. CASE TooLong /\ history # <<>>
  <2> DEFINE z == TextOf(history[1])
             n == LessOf(z, Room)
  <2>1. history' = Resized(history, 1, n) /\ total' = Thirds(ContextLength)
    BY <1>8 DEF Truncate, Resize, Resized
  <2>2. Len(history) = 1
    <3>1. Len(history) <= 1
      BY <1>1, <1>8 DEF PruneInv, OneIsLeft
    <3> DEFINE l == Len(history)
    <3>2. l \in Nat /\ l # 0 /\ l <= 1
      BY <1>2, <1>8, <3>1
    <3> HIDE DEF l
    <3>3. l = 1
      BY <3>2
    <3>4. QED BY <3>3 DEF l
  <2>3. 1 \in 1 .. Len(history) /\ history[1] \in Msg
    BY <1>2, <2>2, ElementOfSeq
  <2>4. z \in Nat
    BY <2>3, MsgFields
  <2> HIDE DEF z
  <2>5. Room \in Nat /\ (Room = 0 \/ Room = ContextLength - Completion - Buffer)
    <3>1. ContextLength - Completion - Buffer \in Int
      BY <1>3, Numbers
    <3>2. QED BY <3>1 DEF Room, MoreOf
  <2>6. n \in Nat /\ n <= Room
    BY <2>4, <2>5 DEF LessOf
  <2> HIDE DEF n
  <2>7. /\ history' \in Seq(Msg) /\ Len(history') = Len(history)
        /\ history'[1].size = n /\ history'[1].from = history[1].from
        /\ history'[1].role = history[1].role
        /\ \A l \in 1 .. Len(history) : l # 1 => history'[l] = history[l]
    <3> DEFINE g == history'
    <3>1. g = Resized(history, 1, n)
      BY <2>1
    <3> HIDE DEF g
    <3>2. /\ g \in Seq(Msg) /\ Len(g) = Len(history)
          /\ g[1].size = n /\ g[1].from = history[1].from /\ g[1].role = history[1].role
          /\ \A l \in 1 .. Len(history) : l # 1 => g[l] = history[l]
      BY <1>2, <2>3, <2>6, <3>1, ResizeEffect
    <3>3. QED BY <3>2 DEF g
  <2>8. PruneType'
    <3>1. total' \in Int
      BY <2>1, Numbers DEF Thirds
    <3>2. QED BY <1>1, <1>2, <1>3, <1>4, <2>7, <3>1 DEF PruneType
  <2>9. EndIsKept'
    <3>1. EndOf(history', arranged)
      BY <1>2, <2>2, <2>3, <2>7, EndOfResize
    <3>2. QED BY <1>1, <3>1 DEF EndIsKept
  <2>10. FittingIsNotTooLong'
    BY <1>1, <1>3, <1>4, <1>8 DEF PruneInv, FittingIsNotTooLong
  <2>11. Weight(history') + reserved <= ContextLength
    <3>1. Weight(history') = n + PerMessage
      BY <2>2, <2>7, WeightOfOne
    <3>2. n + PerMessage + reserved <= ContextLength
      BY <1>2, <1>3, <2>5, <2>6, Numbers
    <3>3. QED BY <3>1, <3>2
  <2>12. Fits'
    BY <1>1, <2>11 DEF Fits
  <2>13. QED BY <1>5, <1>6, <2>8, <2>9, <2>10, <2>12 DEF PruneInv
<1>9. QED BY <1>7, <1>8

LEMMA FinishKeepsInv ==
  ASSUME PruneInv, Finish
  PROVE  PruneInv'
<1> DEFINE g == SystemToTop(history)
           r == FlattenMessages(g)
<1>1. /\ pc = "finish" /\ pc' = "done" /\ i' = i /\ arranged' = arranged /\ total' = total
      /\ request' = request /\ system' = system /\ reserved' = reserved /\ history' = r
      /\ images' = images /\ Msg' = Msg
  BY MsgStays DEF Finish, inputs
<1>2. /\ history \in Seq(Msg) /\ arranged \in Seq(Msg) /\ reserved \in Reserved
      /\ EndOf(history, arranged) /\ Len(history) \in Nat /\ Len(arranged) \in Nat
      /\ Weight(history) + reserved <= ContextLength
  BY <1>1, LenProperties DEF PruneInv, PruneType, EndIsKept, Pruning, Fits
<1>3. /\ g \in Seq(Msg) /\ Len(g) = Len(history) /\ SumOf(g) = SumOf(history)
      /\ system = "option" /\ Len(history) >= 2 /\ history[Len(history) - 1].role = "system" =>
           g[1].role = "system"
  BY <1>2, SystemToTopEffect
<1> HIDE DEF g
<1>4. Flattened(g, Len(g), SumOf(g), r)
  BY <1>3, FlattenEffect
<1> HIDE DEF r
<1>5. /\ r \in Seq(Msg) /\ Len(r) \in Nat /\ Len(r) <= Len(history)
      /\ Len(history) >= 1 => Len(r) >= 1 /\ r[1].role = g[1].role
      /\ ~images => Weight(r) <= Weight(history)
  BY <1>2, <1>3, <1>4, LenProperties DEF Flattened, Weight
<1>6. ~Pruning'
  BY <1>1 DEF Pruning
<1>7. PruneType'
  BY <1>1, <1>5, <1>6 DEF PruneInv, PruneType
<1>8. (Untrimmed /\ MissedIsCovered /\ OneIsLeft)'
  BY <1>1 DEF Untrimmed, MissedIsCovered, OneIsLeft
<1>9. (EndIsKept /\ FittingIsNotTooLong /\ SystemIsSecondToLast)'
  BY <1>6 DEF EndIsKept, FittingIsNotTooLong, SystemIsSecondToLast
<1>10. Fits'
  <2>1. Weight(r) \in Int /\ Weight(history) \in Int /\ reserved \in Nat
    BY <1>2, <1>5, WeightType, CountedIs
  <2>2. ~images => Weight(r) + reserved <= ContextLength
    BY <1>2, <1>5, <2>1, Numbers
  <2>3. QED BY <1>1, <2>2 DEF Fits
<1>11. SystemComesFirst'
  <2> SUFFICES ASSUME system = "option" PROVE r[1].role = "system" \/ Len(r) = 1
    BY <1>1 DEF SystemComesFirst
  <2>1. /\ Len(arranged) >= 1
        /\ Len(arranged) >= 2 => arranged[Len(arranged) - 1].role = "system"
    BY <1>1 DEF PruneInv, SystemIsSecondToLast, Pruning
  <2>2. Len(history) >= 1 /\ Len(history) <= Len(arranged)
    BY <1>2, <2>1 DEF EndOf
  <2>3. CASE Len(history) >= 2
    <3>1. /\ Len(history) - 1 \in 1 .. Len(history) /\ Len(arranged) >= 2
          /\ Len(arranged) - Len(history) + (Len(history) - 1) = Len(arranged) - 1
      BY <1>2, <2>2, <2>3
    <3>2. history[Len(history) - 1].role
            = arranged[Len(arranged) - Len(history) + (Len(history) - 1)].role
      BY <1>2, <3>1 DEF EndOf
    <3>3. history[Len(history) - 1].role = "system"
      BY <2>1, <3>1, <3>2
    <3>4. QED BY <1>3, <1>5, <2>2, <2>3, <3>3
  <2>4. CASE Len(history) = 1
    <3> DEFINE q == Len(r)
    <3>1. q \in Nat /\ q <= 1 /\ q >= 1
      BY <1>5, <2>2, <2>4
    <3> HIDE DEF q
    <3>2. q = 1
      BY <3>1
    <3>3. QED BY <3>2 DEF q
  <2>5. Len(history) >= 2 \/ Len(history) = 1
    <3> DEFINE l == Len(history)
    <3>1. l \in Nat /\ l >= 1
      BY <1>2, <2>2
    <3> HIDE DEF l
    <3>2. l >= 2 \/ l = 1
      BY <3>1
    <3>3. QED BY <3>2 DEF l
  <2>6. QED BY <2>3, <2>4, <2>5
<1>12. QED BY <1>7, <1>8, <1>9, <1>10, <1>11 DEF PruneInv

-----------------------------------------------------------------------------
(* The theorems.                                                           *)

LEMMA PruneNext ==
  ASSUME PruneInv, [Next]_vars
  PROVE  PruneInv'
<1>1. CASE UNCHANGED vars
  <2>1. /\ request' = request /\ system' = system /\ reserved' = reserved /\ pc' = pc
        /\ arranged' = arranged /\ history' = history /\ total' = total
        /\ distance' = distance /\ i' = i /\ images' = images /\ Msg' = Msg
    BY <1>1, MsgStays DEF vars, inputs
  <2>2. /\ Completion' = Completion /\ Counted(arranged)' = Counted(arranged)
        /\ Counted(history)' = Counted(history)
    BY <2>1 DEF Completion, Counted
  <2>3. (Pruning' <=> Pruning) /\ (TooLong' <=> TooLong) /\ Missed' = Missed
    BY <2>1, <2>2 DEF Pruning, TooLong, Missed
  <2>4. PruneType' /\ Untrimmed' /\ EndIsKept' /\ FittingIsNotTooLong'
    BY <2>1, <2>2, <2>3
       DEF PruneInv, PruneType, Untrimmed, EndIsKept, FittingIsNotTooLong
  <2>5. MissedIsCovered' /\ OneIsLeft' /\ Fits' /\ SystemIsSecondToLast' /\ SystemComesFirst'
    BY <2>1, <2>3
       DEF PruneInv, MissedIsCovered, OneIsLeft, Fits, SystemIsSecondToLast, SystemComesFirst
  <2>6. QED BY <2>4, <2>5 DEF PruneInv
<1>2. CASE \E k \in DOMAIN distance : Trim(k)
  BY <1>2, TrimKeepsInv
<1>3. CASE CompileThrows \/ Compile \/ TrimEnds \/ Truncate \/ Finish
  BY <1>3, ThrowKeepsInv, CompileKeepsInv, TrimEndsKeepsInv, TruncateKeepsInv, FinishKeepsInv
<1>4. CASE SummarizeFirst \/ SummarizeFirstEnds \/ SummarizeNext \/ SummarizeEnds
  BY <1>4, SummarizeFirstKeepsInv, SummarizeFirstEndsKeepsInv, SummarizeNextKeepsInv,
     SummarizeEndsKeepsInv
<1>5. CASE DropOld \/ DropOldEnds \/ Drop \/ DropEnds
  BY <1>5, DropOldKeepsInv, DropOldEndsKeepsInv, DropKeepsInv, DropEndsKeepsInv
<1>6. QED BY <1>1, <1>2, <1>3, <1>4, <1>5 DEF Next

(* What pruneChatHistory keeps from phase to phase: the types, where the   *)
(* system message is, how much the total may have missed.                  *)
THEOREM PruningKeepsCount == Spec => []PruneInv
<1>1. QED BY PruneInit, PruneNext, PTL DEF Spec

(* A prompt leaves room for the answer and for the functions in the        *)
(* context, for conversations of any length: the buffer for safety covers  *)
(* all the fractions of tokens that compileChatMessages counts too low.    *)
THEOREM PromptsFit == Spec => []FitsContext
<1>1. ASSUME PruneInv PROVE FitsContext
  BY <1>1 DEF PruneInv, Fits, FitsContext, Weight
<1>2. QED BY <1>1, PruningKeepsCount, PTL

(* pruneChatHistory changes nothing in a request that fits as it is.       *)
THEOREM FittingPromptsAreKept == Spec => []FittingIsKept
<1>1. ASSUME PruneInv PROVE FittingIsKept
  <2>1. DOMAIN arranged = 1 .. Len(arranged)
    BY <1>1, LenProperties DEF PruneInv, PruneType
  <2>2. QED BY <1>1, <2>1 DEF PruneInv, FittingIsNotTooLong, Unchanged, FittingIsKept
<1>2. QED BY <1>1, PruningKeepsCount, PTL

(* pruneChatHistory gives up messages from the oldest on, never all of     *)
(* them, and cuts the last one only when it is long or alone.              *)
THEOREM LatestMessagesAreKept == Spec => []LatestAreKept
<1>1. ASSUME PruneInv PROVE LatestAreKept
  <2> SUFFICES ASSUME Pruning, arranged # <<>>
               PROVE  /\ history # <<>> /\ IsSuffix(Origins(history), Origins(arranged))
                      /\ \/ Last(history) = Last(arranged)
                         \/ Thirds(Last(arranged).size) > ContextLength
                         \/ Len(history) = 1
    BY DEF LatestAreKept
  <2>1. history \in Seq(Msg) /\ arranged \in Seq(Msg) /\ EndOf(history, arranged)
    BY <1>1 DEF PruneInv, PruneType, EndIsKept
  <2>2. Len(arranged) >= 1 /\ Len(history) \in Nat
    BY <2>1, EmptySeq, LenProperties
  <2>3. Len(history) >= 1
    BY <2>1, <2>2 DEF EndOf
  <2>4. history # <<>>
    BY <2>1, <2>3, EmptySeq
  <2>5. IsSuffix(Origins(history), Origins(arranged))
    BY <2>1, EndIsSuffix
  <2>6. Len(history) >= 2 \/ Len(history) = 1
    <3> DEFINE l == Len(history)
    <3>1. l \in Nat /\ l >= 1
      BY <2>2, <2>3
    <3> HIDE DEF l
    <3>2. l >= 2 \/ l = 1
      BY <3>1
    <3>3. QED BY <3>2 DEF l
  <2>7. \/ Last(history) = Last(arranged)
        \/ Thirds(Last(arranged).size) > ContextLength
        \/ Len(history) = 1
    BY <2>1, <2>6 DEF EndOf, Last
  <2>8. QED BY <2>4, <2>5, <2>7
<1>2. QED BY <1>1, PruningKeepsCount, PTL

(* A system message of the options, put second to last while messages are  *)
(* cut from the beginning, comes first in the prompt.                      *)
THEOREM SystemMessageComesFirst == Spec => []SystemComesFirst
<1>1. ASSUME PruneInv PROVE SystemComesFirst
  BY <1>1 DEF PruneInv
<1>2. QED BY <1>1, PruningKeepsCount, PTL

=============================================================================
