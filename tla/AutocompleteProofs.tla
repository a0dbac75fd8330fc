-------------------------- MODULE AutocompleteProofs --------------------------
(***************************************************************************)
(* However many requests share the stream of a model and the rows of the   *)
(* cache, what a user sees goes on where the text before the cursor ends.  *)
(***************************************************************************)
EXTENDS Autocomplete, SequenceTheorems, WellFoundedInduction, TLAPS

-----------------------------------------------------------------------------
(* Sequences: prefixes, joined chunks, the first place that passes a test. *)

(* A set of numbers that is not empty has a least one.                     *)
LEMMA HasMinimum ==
  ASSUME NEW m \in Nat, NEW M, M \subseteq 0 .. m, M # {}
  PROVE  \E k \in M : \A l \in M : k <= l
<1> DEFINE Less == OpToRel(<, Nat)
<1>1. \A k, l \in Nat : <<k, l>> \in Less <=> k < l
  BY DEF OpToRel
<1>2. M \subseteq Nat
  OBVIOUS
<1>3. IsWellFoundedOn(Less, Nat)
  BY NatLessThanWellFounded
<1> HIDE DEF Less
<1>4. \E k \in M : \A l \in M : <<l, k>> \notin Less
  BY <1>2, <1>3, WFMin
<1>5. PICK k \in M : \A l \in M : <<l, k>> \notin Less
  BY <1>4
<1>6. \A l \in M : k <= l
  <2> TAKE l \in M
  <2>1. l \in Nat /\ k \in Nat
    BY <1>2
  <2>2. ~(l < k)
    BY <1>1, <1>5, <2>1, Zenon
  <2>3. QED BY <2>1, <2>2
<1>7. QED BY <1>6

Associates(s, t, u) == (s \o t) \o u = s \o (t \o u)

(* The equation by a name of its own: it is cited where sequences are      *)
(* joined.                                                                 *)
LEMMA ConcatAssociates ==
  ASSUME NEW C, NEW s \in Seq(C), NEW t \in Seq(C), NEW u \in Seq(C)
  PROVE  Associates(s, t, u)
BY ConcatAssociative DEF Associates

(* A prefix, element by element.                                           *)
LEMMA PrefixIs ==
  ASSUME NEW C, NEW s \in Seq(C), NEW t \in Seq(C)
  PROVE  IsPrefix(s, t) <=> Len(s) <= Len(t) /\ \A i \in 1 .. Len(s) : s[i] = t[i]
<1>1. Len(s) \in Nat /\ Len(t) \in Nat
      /\ (\A i \in 1 .. Len(s) : s[i] \in C) /\ (\A i \in 1 .. Len(t) : t[i] \in C)
  BY LenProperties, ElementOfSeq
<1>2. SubSeq(s, 1, Len(s)) = s
  BY SubSeqFull
<1>3. CASE Len(s) <= Len(t)
  <2>1. \A i \in 1 .. Len(s) : t[i] \in C
    BY <1>1, <1>3
  <2>2. /\ SubSeq(t, 1, Len(s)) \in Seq(C) /\ Len(SubSeq(t, 1, Len(s))) = Len(s)
        /\ \A i \in 1 .. Len(s) : SubSeq(t, 1, Len(s))[i] = t[i]
    BY <1>1, <2>1, SubSeqProperties
  <2>3. s = SubSeq(t, 1, Len(s)) <=> \A i \in 1 .. Len(s) : s[i] = t[i]
    BY <2>2, SeqEqual
  <2>4. QED BY <1>2, <1>3, <2>3 DEF IsPrefix
<1>4. CASE ~(Len(s) <= Len(t))
  BY <1>4 DEF IsPrefix
<1>5. QED BY <1>3, <1>4

(* What the rest of a sequence is.                                         *)
LEMMA RestIs ==
  ASSUME NEW C, NEW s \in Seq(C), NEW n \in Nat
  PROVE  /\ Rest(s, n) \in Seq(C)
         /\ Len(Rest(s, n)) = IF n <= Len(s) THEN Len(s) - n ELSE 0
         /\ \A i \in 1 .. Len(s) - n : Rest(s, n)[i] = s[n + i]
<1>1. Len(s) \in Nat /\ \A i \in n + 1 .. Len(s) : s[i] \in C
  BY LenProperties, ElementOfSeq
<1>2. /\ SubSeq(s, n + 1, Len(s)) \in Seq(C)
      /\ Len(SubSeq(s, n + 1, Len(s))) = IF n + 1 <= Len(s) THEN Len(s) - (n + 1) + 1 ELSE 0
      /\ \A i \in 1 .. Len(s) - (n + 1) + 1 : SubSeq(s, n + 1, Len(s))[i] = s[n + 1 + i - 1]
  BY <1>1, SubSeqProperties
<1>3. QED BY <1>1, <1>2 DEF Rest

(* A text is its prefix and the rest.                                      *)
LEMMA PrefixAndRest ==
  ASSUME NEW C, NEW s \in Seq(C), NEW t \in Seq(C), IsPrefix(s, t)
  PROVE  s \o Rest(t, Len(s)) = t
<1>1. Len(s) \in Nat /\ Len(t) \in Nat
  BY LenProperties
<1>2. Len(s) <= Len(t) /\ \A i \in 1 .. Len(s) : s[i] = t[i]
  BY PrefixIs
<1>3. /\ Rest(t, Len(s)) \in Seq(C) /\ Len(Rest(t, Len(s))) = Len(t) - Len(s)
      /\ \A i \in 1 .. Len(t) - Len(s) : Rest(t, Len(s))[i] = t[Len(s) + i]
  BY <1>1, <1>2, RestIs
<1> DEFINE u == Rest(t, Len(s))
<1> HIDE DEF u
<1>4. /\ s \o u \in Seq(C) /\ Len(s \o u) = Len(s) + Len(u)
      /\ \A i \in 1 .. Len(s) + Len(u) :
           (s \o u)[i] = IF i <= Len(s) THEN s[i] ELSE u[i - Len(s)]
  BY <1>3, ConcatProperties DEF u
<1>5. Len(u) = Len(t) - Len(s) /\ \A i \in 1 .. Len(t) - Len(s) : u[i] = t[Len(s) + i]
  BY <1>3 DEF u
<1>6. \A i \in 1 .. Len(t) : (s \o u)[i] = t[i]
  <2> TAKE i \in 1 .. Len(t)
  <2>1. CASE i <= Len(s)
    BY <1>1, <1>2, <1>4, <1>5, <2>1
  <2>2. CASE ~(i <= Len(s))
    <3>1. i - Len(s) \in 1 .. Len(t) - Len(s) /\ Len(s) + (i - Len(s)) = i
      BY <1>1, <2>2
    <3>2. (s \o u)[i] = u[i - Len(s)]
      BY <1>1, <1>4, <1>5, <2>2
    <3>3. QED BY <1>5, <3>1, <3>2
  <2>3. QED BY <2>1, <2>2
<1> DEFINE su == s \o u
<1>7. su \in Seq(C) /\ Len(su) = Len(t) /\ \A i \in 1 .. Len(su) : su[i] = t[i]
  BY <1>1, <1>4, <1>5, <1>6
<1> HIDE DEF su
<1>8. su = t
  BY <1>7, SeqEqual
<1>9. QED BY <1>8 DEF su, u

(* A sequence begins what is joined to it.                                 *)
LEMMA ConcatIsLonger ==
  ASSUME NEW C, NEW s \in Seq(C), NEW t \in Seq(C)
  PROVE  IsPrefix(s, s \o t)
<1>1. Len(s) \in Nat /\ Len(t) \in Nat
  BY LenProperties
<1>2. /\ s \o t \in Seq(C) /\ Len(s \o t) = Len(s) + Len(t)
      /\ \A i \in 1 .. Len(s) + Len(t) :
           (s \o t)[i] = IF i <= Len(s) THEN s[i] ELSE t[i - Len(s)]
  BY ConcatProperties
<1> DEFINE st == s \o t
<1>3. st \in Seq(C) /\ Len(s) <= Len(st) /\ \A i \in 1 .. Len(s) : s[i] = st[i]
  BY <1>1, <1>2
<1> HIDE DEF st
<1>4. IsPrefix(s, st)
  BY <1>3, PrefixIs
<1>5. QED BY <1>4 DEF st

(* IsPrefix is transitive.                                                 *)
LEMMA PrefixOfPrefix ==
  ASSUME NEW C, NEW s \in Seq(C), NEW t \in Seq(C), NEW u \in Seq(C),
         IsPrefix(s, t), IsPrefix(t, u)
  PROVE  IsPrefix(s, u)
<1>1. Len(s) \in Nat /\ Len(t) \in Nat /\ Len(u) \in Nat
  BY LenProperties
<1>2. /\ Len(s) <= Len(t) /\ \A i \in 1 .. Len(s) : s[i] = t[i]
      /\ Len(t) <= Len(u) /\ \A i \in 1 .. Len(t) : t[i] = u[i]
  BY PrefixIs
<1>3. QED BY <1>1, <1>2, PrefixIs

(* Two beginnings of one text: one of them begins the other.               *)
LEMMA PrefixesCompare ==
  ASSUME NEW C, NEW r \in Seq(C), NEW s \in Seq(C), NEW t \in Seq(C), NEW u \in Seq(C),
         IsPrefix(r \o s, u), IsPrefix(r \o t, u)
  PROVE  IsPrefix(s, t) \/ IsPrefix(t, s)
<1>1. Len(r) \in Nat /\ Len(s) \in Nat /\ Len(t) \in Nat /\ Len(u) \in Nat
  BY LenProperties
<1>2. /\ r \o s \in Seq(C) /\ Len(r \o s) = Len(r) + Len(s)
      /\ \A i \in 1 .. Len(r) + Len(s) :
           (r \o s)[i] = IF i <= Len(r) THEN r[i] ELSE s[i - Len(r)]
  BY ConcatProperties
<1>3. /\ r \o t \in Seq(C) /\ Len(r \o t) = Len(r) + Len(t)
      /\ \A i \in 1 .. Len(r) + Len(t) :
           (r \o t)[i] = IF i <= Len(r) THEN r[i] ELSE t[i - Len(r)]
  BY ConcatProperties
<1> DEFINE rs == r \o s
           rt == r \o t
<1>a. rs \in Seq(C) /\ rt \in Seq(C) /\ IsPrefix(rs, u) /\ IsPrefix(rt, u)
      /\ Len(rs) = Len(r) + Len(s) /\ Len(rt) = Len(r) + Len(t)
  BY <1>2, <1>3
<1> HIDE DEF rs, rt
<1>b. /\ \A i \in 1 .. Len(r) + Len(s) : rs[i] = u[i]
      /\ \A i \in 1 .. Len(r) + Len(t) : rt[i] = u[i]
  BY <1>a, PrefixIs
<1>4. /\ \A i \in 1 .. Len(r) + Len(s) : (r \o s)[i] = u[i]
      /\ \A i \in 1 .. Len(r) + Len(t) : (r \o t)[i] = u[i]
  BY <1>b DEF rs, rt
<1>5. \A i \in 1 .. Len(s) : s[i] = u[Len(r) + i]
  <2> TAKE i \in 1 .. Len(s)
  <2>1. /\ Len(r) + i \in 1 .. Len(r) + Len(s) /\ ~(Len(r) + i <= Len(r))
        /\ Len(r) + i - Len(r) = i
    BY <1>1
  <2>2. QED BY <1>2, <1>4, <2>1
<1>6. \A i \in 1 .. Len(t) : t[i] = u[Len(r) + i]
  <2> TAKE i \in 1 .. Len(t)
  <2>1. /\ Len(r) + i \in 1 .. Len(r) + Len(t) /\ ~(Len(r) + i <= Len(r))
        /\ Len(r) + i - Len(r) = i
    BY <1>1
  <2>2. QED BY <1>3, <1>4, <2>1, SMTT(20)
<1>7. CASE Len(s) <= Len(t)
  BY <1>1, <1>5, <1>6, <1>7, PrefixIs
<1>8. CASE Len(t) <= Len(s)
  BY <1>1, <1>5, <1>6, <1>8, PrefixIs
<1>9. QED BY <1>1, <1>7, <1>8

(* The recursive function behind FlattenSeq.                               *)
Flattens(f, bs) ==
  f = [i \in 1 .. Len(bs) |-> IF i = 1 THEN bs[i] ELSE f[i - 1] \o bs[i]]

(* FlattenSeq of the community modules, for sequences of sequences.        *)
LEMMA FlattenDef ==
  ASSUME NEW C, NEW bs \in Seq(Seq(C))
  PROVE  /\ bs = <<>> => FlattenSeq(bs) = <<>>
         /\ bs # <<>> => FlattenSeq(bs) = (CHOOSE f : Flattens(f, bs))[Len(bs)]
<1>1. bs = <<>> <=> Len(bs) = 0
  BY EmptySeq
<1>2. ASSUME bs # <<>>
      PROVE  FlattenSeq(bs) = (CHOOSE f : Flattens(f, bs))[Len(bs)]
  BY <1>1, <1>2 DEF FlattenSeq, Flattens
<1>3. QED BY <1>1, <1>2 DEF FlattenSeq

(* What has been joined so far is a sequence: else there is a first place  *)
(* where it is not.                                                        *)
LEMMA FlatteningTypes ==
  ASSUME NEW C, NEW bs \in Seq(Seq(C)), NEW f, Flattens(f, bs)
  PROVE  \A i \in 1 .. Len(bs) : f[i] \in Seq(C)
<1> DEFINE Bad == {i \in 1 .. Len(bs) : f[i] \notin Seq(C)}
<1>1. Len(bs) \in Nat /\ \A i \in 1 .. Len(bs) : bs[i] \in Seq(C)
  BY LenProperties, ElementOfSeq
<1>2. \A i \in 1 .. Len(bs) : f[i] = IF i = 1 THEN bs[i] ELSE f[i - 1] \o bs[i]
  BY DEF Flattens
<1>3. ASSUME Bad # {} PROVE FALSE
  <2> Bad \subseteq 0 .. Len(bs)
    BY <1>1
  <2>1. PICK k \in Bad : \A l \in Bad : k <= l
    <3> HIDE DEF Bad
    <3>1. QED BY <1>1, <1>3, HasMinimum
  <2>2. k \in 1 .. Len(bs) /\ f[k] \notin Seq(C) /\ bs[k] \in Seq(C)
    BY <1>1
  <2>3. k # 1
    BY <1>2, <2>2
  <2>4. k - 1 \in 1 .. Len(bs) /\ ~(k <= k - 1)
    BY <1>1, <2>2, <2>3
  <2>5. f[k - 1] \in Seq(C)
    BY <2>1, <2>4
  <2>6. f[k] = f[k - 1] \o bs[k]
    BY <1>2, <2>2, <2>3
  <2>7. f[k - 1] \o bs[k] \in Seq(C)
    BY <2>2, <2>5, ConcatProperties
  <2>8. QED BY <2>2, <2>6, <2>7
<1>4. QED BY <1>3

(* There is a function that joins: else there is a least length without    *)
(* one.                                                                    *)
LEMMA FlatteningExists ==
  ASSUME NEW C, NEW bs \in Seq(Seq(C))
  PROVE  \E f : Flattens(f, bs)
<1> DEFINE Step(f, i) == IF i = 1 THEN bs[i] ELSE f[i - 1] \o bs[i]
           Upto(n) == \E f : f = [i \in 1 .. n |-> Step(f, i)]
           Bad == {n \in 0 .. Len(bs) : ~Upto(n)}
<1>1. Len(bs) \in Nat
  BY LenProperties
<1>2. ASSUME Bad # {} PROVE FALSE
  <2>1. PICK n \in Bad : \A l \in Bad : n <= l
    BY <1>1, <1>2, HasMinimum
  <2>2. n \in 0 .. Len(bs) /\ ~Upto(n)
    OBVIOUS
  <2>3. CASE n = 0
    <3>1. 1 .. n = {}
      BY <2>3
    <3>2. [i \in {} |-> i] = [i \in {} |-> Step([j \in {} |-> j], i)]
      OBVIOUS
    <3>3. QED BY <2>2, <3>1, <3>2
  <2>4. CASE n # 0
    <3>1. n - 1 \in 0 .. Len(bs) /\ ~(n <= n - 1)
      BY <1>1, <2>2, <2>4
    <3>2. Upto(n - 1)
      BY <2>1, <3>1
    <3>3. PICK f : f = [i \in 1 .. n - 1 |-> Step(f, i)]
      BY <3>2
    <3> DEFINE g == [i \in 1 .. n |-> IF i = n THEN Step(f, n) ELSE f[i]]
    <3>4. \A i \in 1 .. n : g[i] = Step(g, i)
      <4> TAKE i \in 1 .. n
      <4>1. i = 1 \/ (i - 1 \in 1 .. n - 1 /\ i - 1 \in 1 .. n /\ i - 1 # n)
        BY <1>1, <2>2
      <4>2. Step(g, i) = Step(f, i)
        BY <4>1
      <4>3. CASE i = n
        BY <4>2, <4>3
      <4>4. CASE i # n
        <5>1. i \in 1 .. n - 1
          BY <1>1, <2>2, <4>4
        <5>2. f[i] = Step(f, i)
          BY <3>3, <5>1
        <5>3. QED BY <4>2, <4>4, <5>2
      <4>5. QED BY <4>3, <4>4
    <3>5. g = [i \in 1 .. n |-> Step(g, i)]
      BY <3>4
    <3>6. QED BY <2>2, <3>5
  <2>5. QED BY <2>3, <2>4
<1>3. Upto(Len(bs))
  <2> HIDE DEF Upto
  <2>1. QED BY <1>1, <1>2
<1>4. QED BY <1>3 DEF Flattens

(* As far as two buffers are the same, so is what is joined of them.       *)
LEMMA FlatteningsAgree ==
  ASSUME NEW C, NEW bs \in Seq(Seq(C)), NEW cs \in Seq(Seq(C)), IsPrefix(bs, cs),
         NEW f, Flattens(f, bs), NEW g, Flattens(g, cs)
  PROVE  \A i \in 1 .. Len(bs) : f[i] = g[i]
<1> DEFINE Bad == {i \in 1 .. Len(bs) : f[i] # g[i]}
<1>1. /\ Len(bs) \in Nat /\ Len(cs) \in Nat
      /\ Len(bs) <= Len(cs) /\ \A i \in 1 .. Len(bs) : bs[i] = cs[i]
  BY LenProperties, PrefixIs
<1>2. /\ \A i \in 1 .. Len(bs) : f[i] = IF i = 1 THEN bs[i] ELSE f[i - 1] \o bs[i]
      /\ \A i \in 1 .. Len(cs) : g[i] = IF i = 1 THEN cs[i] ELSE g[i - 1] \o cs[i]
  BY DEF Flattens
<1>3. ASSUME Bad # {} PROVE FALSE
  <2> Bad \subseteq 0 .. Len(bs)
    BY <1>1
  <2>1. PICK k \in Bad : \A l \in Bad : k <= l
    <3> HIDE DEF Bad
    <3>1. QED BY <1>1, <1>3, HasMinimum
  <2>2. k \in 1 .. Len(bs) /\ k \in 1 .. Len(cs) /\ f[k] # g[k] /\ bs[k] = cs[k]
    BY <1>1
  <2>3. k # 1
    BY <1>2, <2>2
  <2>4. k - 1 \in 1 .. Len(bs) /\ ~(k <= k - 1)
    BY <1>1, <2>2, <2>3
  <2>5. f[k - 1] = g[k - 1]
    BY <2>1, <2>4
  <2>6. f[k] = f[k - 1] \o bs[k] /\ g[k] = g[k - 1] \o cs[k]
    BY <1>2, <2>2, <2>3
  <2>7. QED BY <2>2, <2>5, <2>6
<1>4. QED BY <1>3

(* FlattenSeq is the end of such a function.                               *)
LEMMA FlattenIs ==
  ASSUME NEW C, NEW bs \in Seq(Seq(C)), bs # <<>>
  PROVE  \E f : Flattens(f, bs) /\ FlattenSeq(bs) = f[Len(bs)]
<1> DEFINE f == CHOOSE f : Flattens(f, bs)
<1>1. \E h : Flattens(h, bs)
  BY FlatteningExists
<1>2. Flattens(f, bs)
  BY <1>1
<1>3. FlattenSeq(bs) = f[Len(bs)]
  BY FlattenDef
<1>4. QED BY <1>2, <1>3

(* Joined chunks are a text.                                               *)
LEMMA FlattenType ==
  ASSUME NEW C, NEW bs \in Seq(Seq(C))
  PROVE  FlattenSeq(bs) \in Seq(C)
<1>1. CASE bs = <<>>
  <2>1. FlattenSeq(bs) = <<>>
    BY <1>1, FlattenDef
  <2>2. QED BY <2>1, EmptySeq
<1>2. CASE bs # <<>>
  <2>1. PICK f : Flattens(f, bs) /\ FlattenSeq(bs) = f[Len(bs)]
    BY <1>2, FlattenIs
  <2>2. Len(bs) \in 1 .. Len(bs)
    BY <1>2, EmptySeq, LenProperties
  <2>3. \A i \in 1 .. Len(bs) : f[i] \in Seq(C)
    BY <2>1, FlatteningTypes
  <2>4. QED BY <2>1, <2>2, <2>3
<1>3. QED BY <1>1, <1>2

(* A chunk that arrives is joined to the end.                              *)
LEMMA FlattenAppend ==
  ASSUME NEW C, NEW bs \in Seq(Seq(C)), NEW c \in Seq(C)
  PROVE  FlattenSeq(Append(bs, c)) = FlattenSeq(bs) \o c
<1> DEFINE cs == Append(bs, c)
<1>1. /\ cs \in Seq(Seq(C)) /\ Len(cs) = Len(bs) + 1 /\ cs # <<>> /\ Len(bs) \in Nat
      /\ cs[Len(bs) + 1] = c /\ \A i \in 1 .. Len(bs) : bs[i] = cs[i]
  BY AppendProperties, LenProperties, EmptySeq
<1> HIDE DEF cs
<1>2. PICK g : Flattens(g, cs) /\ FlattenSeq(cs) = g[Len(cs)]
  BY <1>1, FlattenIs
<1>3. g[Len(cs)] = IF Len(cs) = 1 THEN c ELSE g[Len(cs) - 1] \o c
  <2>1. Len(cs) \in 1 .. Len(cs) /\ cs[Len(cs)] = c
    BY <1>1
  <2>2. \A i \in 1 .. Len(cs) : g[i] = IF i = 1 THEN cs[i] ELSE g[i - 1] \o cs[i]
    BY <1>2 DEF Flattens
  <2>3. QED BY <2>1, <2>2
<1>4. CASE bs = <<>>
  <2>1. FlattenSeq(bs) = <<>> /\ Len(bs) = 0
    BY <1>4, FlattenDef, EmptySeq
  <2>2. FlattenSeq(cs) = c
    BY <1>1, <1>2, <1>3, <2>1
  <2>3. QED BY <2>1, <2>2, ConcatEmptySeq DEF cs
<1>5. CASE bs # <<>>
  <2>1. PICK f : Flattens(f, bs) /\ FlattenSeq(bs) = f[Len(bs)]
    BY <1>5, FlattenIs
  <2>2. Len(bs) \in 1 .. Len(bs) /\ Len(bs) <= Len(cs) /\ Len(cs) # 1 /\ Len(cs) - 1 = Len(bs)
    BY <1>1, <1>5, EmptySeq
  <2>3. \A i \in 1 .. Len(bs) : f[i] = g[i]
    <3>1. cs \in Seq(Seq(C)) /\ IsPrefix(bs, cs)
      BY <1>1, <2>2, PrefixIs
    <3>2. QED BY <1>2, <2>1, <3>1, FlatteningsAgree
  <2>4. FlattenSeq(cs) = f[Len(bs)] \o c
    <3>1. g[Len(cs) - 1] = f[Len(bs)]
      BY <2>2, <2>3
    <3>2. g[Len(cs)] = g[Len(cs) - 1] \o c
      BY <1>3, <2>2
    <3>3. QED BY <1>2, <3>1, <3>2
  <2>5. QED BY <2>1, <2>4 DEF cs
<1>6. QED BY <1>4, <1>5

(* One chunk more is read.                                                 *)
LEMMA FlattenNext ==
  ASSUME NEW C, NEW bs \in Seq(Seq(C)), NEW n \in 0 .. Len(bs) - 1
  PROVE  FlattenSeq(SubSeq(bs, 1, n + 1)) = FlattenSeq(SubSeq(bs, 1, n)) \o bs[n + 1]
<1>1. Len(bs) \in Nat /\ n \in Nat /\ \A i \in 1 .. Len(bs) : bs[i] \in Seq(C)
  BY LenProperties, ElementOfSeq
<1>2. n + 1 \in 1 .. Len(bs) /\ bs[n + 1] \in Seq(C)
  BY <1>1
<1>3. SubSeq(bs, 1, n) \in Seq(Seq(C))
  BY <1>1, SubSeqProperties
<1>4. SubSeq(bs, 1, n + 1) = Append(SubSeq(bs, 1, n), bs[n + 1])
  <2> DEFINE ps == SubSeq(bs, 1, n + 1)
             qs == SubSeq(bs, 1, n)
             rs == Append(qs, bs[n + 1])
  <2>1. /\ ps \in Seq(Seq(C)) /\ Len(ps) = n + 1
        /\ \A i \in 1 .. n + 1 : ps[i] = bs[i]
    BY <1>1, <1>2, SubSeqProperties
  <2>2. /\ qs \in Seq(Seq(C)) /\ Len(qs) = n
        /\ \A i \in 1 .. n : qs[i] = bs[i]
    BY <1>1, SubSeqProperties
  <2> HIDE DEF ps, qs
  <2>3. /\ rs \in Seq(Seq(C)) /\ Len(rs) = n + 1
        /\ \A i \in 1 .. n : rs[i] = qs[i]
        /\ rs[n + 1] = bs[n + 1]
    <3> DEFINE b == bs[n + 1]
    <3>1. b \in Seq(C)
      BY <1>2
    <3> HIDE DEF b
    <3>a. qs \in Seq(Seq(C))
      BY <2>2
    <3>2. /\ Append(qs, b) \in Seq(Seq(C)) /\ Len(Append(qs, b)) = Len(qs) + 1
          /\ (\A i \in 1 .. Len(qs) : Append(qs, b)[i] = qs[i])
          /\ Append(qs, b)[Len(qs) + 1] = b
      BY <3>a, <3>1, AppendProperties
    <3>3. QED BY <2>2, <3>2 DEF b
  <2> HIDE DEF rs
  <2>4. \A i \in 1 .. Len(ps) : ps[i] = rs[i]
    <3> TAKE i \in 1 .. Len(ps)
    <3>1. i \in 1 .. n \/ i = n + 1
      BY <1>1, <2>1
    <3>2. i \in 1 .. n + 1
      BY <2>1
    <3>3. ps[i] = bs[i]
      BY <2>1, <3>2
    <3>4. CASE i \in 1 .. n
      BY <2>2, <2>3, <3>3, <3>4
    <3>5. CASE i = n + 1
      BY <2>3, <3>3, <3>5
    <3>6. QED BY <3>1, <3>4, <3>5
  <2>5. ps = rs
    BY <2>1, <2>3, <2>4, SeqEqual
  <2>6. QED BY <2>5 DEF ps, rs, qs
<1>5. QED BY <1>2, <1>3, <1>4, FlattenAppend

(* The first chunks give the beginning of what all of them give.           *)
LEMMA FlattenPrefix ==
  ASSUME NEW C, NEW bs \in Seq(Seq(C)), NEW k \in 0 .. Len(bs)
  PROVE  IsPrefix(FlattenSeq(SubSeq(bs, 1, k)), FlattenSeq(bs))
<1> DEFINE F(n) == FlattenSeq(SubSeq(bs, 1, n))
           Bad == {n \in 0 .. Len(bs) : k <= n /\ ~IsPrefix(F(k), F(n))}
<1>1. Len(bs) \in Nat /\ \A i \in 1 .. Len(bs) : bs[i] \in Seq(C)
  BY LenProperties, ElementOfSeq
<1>2. \A n \in 0 .. Len(bs) : F(n) \in Seq(C)
  <2> TAKE n \in 0 .. Len(bs)
  <2>1. n \in Int /\ \A i \in 1 .. n : bs[i] \in Seq(C)
    BY <1>1
  <2>2. SubSeq(bs, 1, n) \in Seq(Seq(C))
    BY <2>1, SubSeqProperties
  <2>3. QED BY <2>2, FlattenType
<1>3. \A n \in 0 .. Len(bs) - 1 : F(n + 1) = F(n) \o bs[n + 1]
  BY FlattenNext
<1> HIDE DEF F
<1>4. ASSUME Bad # {} PROVE FALSE
  <2>1. PICK n \in Bad : \A l \in Bad : n <= l
    <3>1. Bad \subseteq 0 .. Len(bs)
      OBVIOUS
    <3> HIDE DEF Bad
    <3>2. QED BY <1>1, <1>4, <3>1, HasMinimum
  <2>2. n \in 0 .. Len(bs) /\ k <= n /\ ~IsPrefix(F(k), F(n))
    OBVIOUS
  <2>3. n # k
    BY <1>2, <2>2, PrefixIs
  <2>4. n - 1 \in 0 .. Len(bs) /\ k <= n - 1 /\ ~(n <= n - 1) /\ n - 1 \in 0 .. Len(bs) - 1
        /\ n - 1 + 1 = n /\ n \in 1 .. Len(bs)
    BY <1>1, <2>2, <2>3
  <2>5. IsPrefix(F(k), F(n - 1))
    BY <2>1, <2>4
  <2>6. F(n) = F(n - 1) \o bs[n] /\ bs[n] \in Seq(C)
    BY <1>1, <1>3, <2>4
  <2>7. IsPrefix(F(n - 1), F(n))
    BY <1>2, <2>4, <2>6, ConcatIsLonger
  <2>8. QED BY <1>2, <2>2, <2>4, <2>5, <2>7, PrefixOfPrefix
<1>5. IsPrefix(F(k), F(Len(bs)))
  <2>1. Len(bs) \in 0 .. Len(bs) /\ k <= Len(bs)
    BY <1>1
  <2>2. QED BY <1>4, <2>1
<1>6. F(Len(bs)) = FlattenSeq(bs)
  BY SubSeqFull DEF F
<1>7. QED BY <1>5, <1>6 DEF F

(* Of a text and its prefix, the prefix is the longest common one.         *)
LEMMA PrefixIsLongest ==
  ASSUME NEW C, NEW s \in Seq(C), NEW t \in Seq(C), IsPrefix(s, t),
         NEW T, T = {s, t}
  PROVE  LongestCommonPrefix(T) = s
<1> DEFINE P == CommonPrefixes(T)
<1>1. \A x \in P : x \in Seq(C) /\ IsPrefix(x, s)
  <2> TAKE x \in P
  <2>1. IsPrefix(x, s) /\ \E y \in T : x \in Prefixes(y)
    BY DEF CommonPrefixes
  <2>2. PICK y \in T : x \in Prefixes(y)
    BY <2>1
  <2>3. PICK l \in 0 .. Len(y) : x = SubSeq(y, 1, l)
    BY <2>2 DEF Prefixes
  <2>4. y \in Seq(C) /\ Len(y) \in Nat /\ \A i \in 1 .. Len(y) : y[i] \in C
    <3>1. y \in Seq(C)
      OBVIOUS
    <3>2. QED BY <3>1, LenProperties, ElementOfSeq
  <2>5. l \in Int /\ \A i \in 1 .. l : y[i] \in C
    BY <2>4
  <2>6. SubSeq(y, 1, l) \in Seq(C)
    BY <2>5, SubSeqProperties
  <2>7. QED BY <2>1, <2>3, <2>6
<1>2. s \in P
  <2>1. Len(s) \in 0 .. Len(s) /\ s = SubSeq(s, 1, Len(s))
    BY LenProperties, SubSeqFull
  <2>2. s \in Prefixes(s)
    BY <2>1 DEF Prefixes
  <2>3. IsPrefix(s, s)
    BY PrefixIs, LenProperties
  <2>4. QED BY <2>2, <2>3 DEF CommonPrefixes
<1> HIDE DEF P
<1>3. \A x \in P : Len(x) <= Len(s)
  BY <1>1, PrefixIs
<1>4. \A x \in P : Len(x) = Len(s) => x = s
  <2> SUFFICES ASSUME NEW x \in P, Len(x) = Len(s) PROVE x = s
    OBVIOUS
  <2>1. x \in Seq(C) /\ \A i \in 1 .. Len(x) : x[i] = s[i]
    BY <1>1, PrefixIs
  <2>2. QED BY <2>1, SeqEqual
<1>5. \A x \in P : (\A y \in P : Len(y) <= Len(x)) <=> x = s
  <2> TAKE x \in P
  <2>1. Len(x) \in Nat /\ Len(s) \in Nat /\ Len(x) <= Len(s)
    BY <1>1, <1>3, LenProperties
  <2>2. QED BY <1>2, <1>3, <1>4, <2>1
<1>6. (CHOOSE x \in P : \A y \in P : Len(y) <= Len(x)) = s
  BY <1>2, <1>5, Zenon
<1>7. QED BY <1>6 DEF LongestCommonPrefix, P

(* Nothing is left of a text that has been passed.                         *)
LEMMA NoRest ==
  ASSUME NEW C, NEW s \in Seq(C), NEW n \in Nat, Len(s) <= n
  PROVE  Rest(s, n) = <<>>
<1>1. Len(s) \in Nat
  BY LenProperties
<1>2. Len(s) < n + 1 /\ n + 1 \in Int
  BY <1>1
<1>3. QED BY <1>1, <1>2, SubSeqEmpty DEF Rest

(* A chunk and what the user has typed: one is a beginning of the other,   *)
(* and what is left of them completes the other one.                       *)
LEMMA ChunkAndTyped ==
  ASSUME NEW C, NEW chunk \in Seq(C), NEW typed \in Seq(C),
         IsPrefix(chunk, typed) \/ IsPrefix(typed, chunk)
  PROVE  /\ Untyped(chunk, typed) \in Seq(C) /\ StillTyped(chunk, typed) \in Seq(C)
         /\ chunk \o StillTyped(chunk, typed) = typed \o Untyped(chunk, typed)
         /\ Untyped(chunk, typed) = <<>> \/ StillTyped(chunk, typed) = <<>>
         /\ typed = <<>> => StillTyped(chunk, typed) = <<>>
<1> DEFINE T == {chunk, typed}
<1>0. Len(chunk) \in Nat /\ Len(typed) \in Nat
  BY LenProperties
<1>1. /\ Rest(chunk, Len(chunk)) = <<>> /\ Rest(typed, Len(typed)) = <<>>
      /\ \A n \in Nat : Rest(chunk, n) \in Seq(C) /\ Rest(typed, n) \in Seq(C)
  <2>1. Rest(chunk, Len(chunk)) = <<>> /\ Rest(typed, Len(typed)) = <<>>
    BY <1>0, NoRest
  <2>2. \A n \in Nat : Rest(chunk, n) \in Seq(C) /\ Rest(typed, n) \in Seq(C)
    BY RestIs
  <2>3. QED BY <2>1, <2>2
<1>2. CASE IsPrefix(chunk, typed)
  <2>1. LongestCommonPrefix(T) = chunk
    BY <1>2, PrefixIsLongest
  <2>2. Untyped(chunk, typed) = <<>> /\ StillTyped(chunk, typed) = Rest(typed, Len(chunk))
    BY <1>1, <2>1 DEF Untyped, StillTyped
  <2>3. chunk \o Rest(typed, Len(chunk)) = typed /\ typed \o <<>> = typed
    BY <1>2, PrefixAndRest, ConcatEmptySeq
  <2>4. typed = <<>> => Rest(typed, Len(chunk)) = <<>>
    <3>1. typed = <<>> => Len(typed) <= Len(chunk)
      BY <1>0
    <3>2. QED BY <1>0, <3>1, NoRest
  <2>5. QED BY <1>0, <1>1, <2>2, <2>3, <2>4, EmptySeq
<1>3. CASE IsPrefix(typed, chunk)
  <2>1. LongestCommonPrefix({typed, chunk}) = typed
    BY <1>3, PrefixIsLongest
  <2>2. StillTyped(chunk, typed) = <<>> /\ Untyped(chunk, typed) = Rest(chunk, Len(typed))
    <3>1. {chunk, typed} = {typed, chunk}
      OBVIOUS
    <3>2. QED BY <1>1, <2>1, <3>1 DEF Untyped, StillTyped
  <2>3. typed \o Rest(chunk, Len(typed)) = chunk /\ chunk \o <<>> = chunk
    BY <1>3, PrefixAndRest, ConcatEmptySeq
  <2>4. QED BY <1>0, <1>1, <2>2, <2>3, EmptySeq
<1>4. QED BY <1>2, <1>3

(* What is put before two texts leaves one the prefix of the other.        *)
LEMMA ConcatKeepsPrefix ==
  ASSUME NEW C, NEW r \in Seq(C), NEW s \in Seq(C), NEW t \in Seq(C), IsPrefix(s, t)
  PROVE  IsPrefix(r \o s, r \o t)
<1> DEFINE u == Rest(t, Len(s))
<1>1. u \in Seq(C) /\ s \o u = t
  BY LenProperties, RestIs, PrefixAndRest
<1> HIDE DEF u
<1>2. (r \o s) \o u = r \o t
  <2>1. Associates(r, s, u)
    BY <1>1, ConcatAssociates
  <2>2. QED BY <1>1, <2>1 DEF Associates
<1>3. r \o s \in Seq(C)
  BY ConcatProperties
<1>4. IsPrefix(r \o s, (r \o s) \o u)
  BY <1>1, <1>3, ConcatIsLonger
<1>5. QED BY <1>2, <1>4

(* Two texts of which one begins the other have the same beginnings.       *)
LEMMA SameBeginning ==
  ASSUME NEW C, NEW s \in Seq(C), NEW t \in Seq(C), IsPrefix(s, t), NEW n \in 0 .. Len(s)
  PROVE  /\ SubSeq(t, 1, n) = SubSeq(s, 1, n)
         /\ SubSeq(s, 1, n) \in Seq(C) /\ Len(SubSeq(s, 1, n)) = n
         /\ \A i \in 1 .. n : SubSeq(s, 1, n)[i] = s[i]
<1>1. /\ Len(s) \in Nat /\ Len(t) \in Nat /\ Len(s) <= Len(t)
      /\ \A i \in 1 .. Len(s) : s[i] = t[i]
      /\ \A i \in 1 .. Len(s) : s[i] \in C
  BY LenProperties, PrefixIs, ElementOfSeq
<1>2. n \in Int /\ n \in Nat /\ \A i \in 1 .. n : s[i] \in C /\ t[i] \in C /\ s[i] = t[i]
  BY <1>1
<1> DEFINE a == SubSeq(s, 1, n)
           b == SubSeq(t, 1, n)
<1>3. a \in Seq(C) /\ Len(a) = n /\ \A i \in 1 .. n : a[i] = s[i]
  BY <1>2, SubSeqProperties
<1>4. b \in Seq(C) /\ Len(b) = n /\ \A i \in 1 .. n : b[i] = t[i]
  BY <1>2, SubSeqProperties
<1> HIDE DEF a, b
<1>5. a = b
  BY <1>2, <1>3, <1>4, SeqEqual
<1>6. QED BY <1>3, <1>5 DEF a, b

-----------------------------------------------------------------------------
(* The inductive invariant.                                                *)

Characters == UNION {Range(s) : s \in Inputs \cup Chunks}
Texts      == Seq(Characters)

Generators == [prefix : Texts, buffer : Seq(Texts), ended : BOOLEAN, over : BOOLEAN]
Rows       == [key : Texts, value : Texts]
States     == {"idle", "debouncing", "preparing", "starting", "reading", "waiting",
               "stopped", "ended", "saving", "shown", "dropped"}
Calls      == [pc : States, prefix : Texts, multiline : BOOLEAN, aborted : BOOLEAN,
               gen : Nat, index : Nat, typed : Texts, out : Texts]

Types ==
  /\ req \in [Requests -> Calls]
  /\ lastUUID \in 0 .. MaxRequests /\ debouncing \in BOOLEAN
  /\ gens \in Seq(Generators) /\ pendingCompletion \in Texts
  /\ cache \in Seq(Rows)

(* What a generator has given to one who has read n of its chunks.         *)
Given(g, n) == g.prefix \o FlattenSeq(SubSeq(g.buffer, 1, n))

(* A reader has read what its prefix and its completion say, but for what  *)
(* the user has typed ahead of the chunks, and then it has no completion.  *)
Reads(q, gs) ==
  q.pc \in {"reading", "waiting", "ended"} =>
    /\ q.gen \in DOMAIN gs /\ q.index \in 0 .. Len(gs[q.gen].buffer)
    /\ IsPrefix(q.prefix, Text(gs[q.gen]))
    /\ Given(gs[q.gen], q.index) \o q.typed = q.prefix \o q.out
    /\ q.typed # <<>> => q.out = <<>>
    /\ q.pc = "ended" => gs[q.gen].ended /\ q.index = Len(gs[q.gen].buffer)

(* What a model has written begins with the key and the value.             *)
Continued(key, value, gs) == \E i \in DOMAIN gs : IsPrefix(key \o value, Text(gs[i]))

(* What a model has written goes on with the completion after a key that   *)
(* the prefix is LIKE.                                                     *)
AfterKey(prefix, out, gs) ==
  \E i \in DOMAIN gs : \E n \in 0 .. Len(Text(gs[i])) :
    Like(prefix, SubSeq(Text(gs[i]), 1, n)) /\ GoesOn(Text(gs[i]), n, prefix, out)

RequestInv(q, gs) ==
  /\ Reads(q, gs)
  /\ q.out # <<>> =>
       Continued(q.prefix, q.out, gs) \/ (q.pc = "shown" /\ AfterKey(q.prefix, q.out, gs))
  /\ q.pc \in {"idle", "debouncing", "preparing", "starting"} => q.index = 0 /\ q.out = <<>>
  /\ q.pc = "saving" => q.out # <<>>

(* Only the last generator can give more, and pendingCompletion is what it *)
(* has given.                                                              *)
GeneratorsInv(gs, pending) ==
  /\ \A i \in DOMAIN gs : (gs[i].over \/ i # Len(gs)) => gs[i].ended
  /\ gs # <<>> => Last(gs).prefix \o pending = Text(Last(gs))

RowsInv(rows, gs) ==
  /\ Len(rows) <= Capacity
  /\ \A i, j \in DOMAIN rows : rows[i].key = rows[j].key => i = j
  /\ \A i \in DOMAIN rows : Continued(rows[i].key, rows[i].value, gs)

Inv ==
  /\ Types
  /\ \A r \in Requests : lastUUID < r => req[r] = IdleRequest
  /\ \A r \in Requests : RequestInv(req[r], gens)
  /\ GeneratorsInv(gens, pendingCompletion)
  /\ RowsInv(cache, gens)

-----------------------------------------------------------------------------
(* Generators only grow, and what has been read of them stays.             *)

Follows(g, h) ==
  /\ h.prefix = g.prefix /\ IsPrefix(g.buffer, h.buffer)
  /\ g.ended => h.ended /\ h.buffer = g.buffer

Grows(gs, hs) == \A i \in DOMAIN gs : i \in DOMAIN hs /\ Follows(gs[i], hs[i])

(* What a generator has given are texts, and more chunks give more of the  *)
(* same text.                                                              *)
LEMMA TextType ==
  ASSUME NEW g \in Generators
  PROVE  /\ g.prefix \in Texts /\ g.buffer \in Seq(Texts) /\ Text(g) \in Texts
         /\ \A n \in 0 .. Len(g.buffer) : Given(g, n) \in Texts /\ IsPrefix(Given(g, n), Text(g))
         /\ Given(g, 0) = g.prefix /\ Given(g, Len(g.buffer)) = Text(g)
<1>1. g.prefix \in Seq(Characters) /\ g.buffer \in Seq(Seq(Characters))
  BY DEF Generators, Texts
<1>2. FlattenSeq(g.buffer) \in Seq(Characters) /\ Text(g) \in Seq(Characters)
  <2>1. FlattenSeq(g.buffer) \in Seq(Characters)
    BY <1>1, FlattenType
  <2>2. QED BY <1>1, <2>1, ConcatProperties DEF Text
<1>3. \A n \in 0 .. Len(g.buffer) :
        Given(g, n) \in Seq(Characters) /\ IsPrefix(Given(g, n), Text(g))
  <2> TAKE n \in 0 .. Len(g.buffer)
  <2>1. Len(g.buffer) \in Nat /\ \A i \in 1 .. Len(g.buffer) : g.buffer[i] \in Seq(Characters)
    BY <1>1, LenProperties, ElementOfSeq
  <2>2. n \in Int /\ \A i \in 1 .. n : g.buffer[i] \in Seq(Characters)
    BY <2>1
  <2>3. SubSeq(g.buffer, 1, n) \in Seq(Seq(Characters))
    BY <2>2, SubSeqProperties
  <2>4. FlattenSeq(SubSeq(g.buffer, 1, n)) \in Seq(Characters)
    BY <2>3, FlattenType
  <2>5. IsPrefix(FlattenSeq(SubSeq(g.buffer, 1, n)), FlattenSeq(g.buffer))
    BY <1>1, FlattenPrefix
  <2>6. Given(g, n) \in Seq(Characters)
    BY <1>1, <2>4, ConcatProperties DEF Given
  <2>7. IsPrefix(Given(g, n), Text(g))
    BY <1>1, <1>2, <2>4, <2>5, ConcatKeepsPrefix DEF Given, Text
  <2>8. QED BY <2>6, <2>7
<1>4. Given(g, 0) = g.prefix
  <2>1. SubSeq(g.buffer, 1, 0) = <<>>
    BY SubSeqEmpty
  <2>2. FlattenSeq(<<>>) = <<>>
    BY EmptySeq DEF FlattenSeq
  <2>3. QED BY <1>1, <2>1, <2>2, ConcatEmptySeq DEF Given
<1>5. Given(g, Len(g.buffer)) = Text(g)
  BY <1>1, SubSeqFull DEF Given, Text
<1>6. QED BY <1>1, <1>2, <1>3, <1>4, <1>5 DEF Texts

(* A generator with more chunks has a longer text, and has given the same  *)
(* to those who have read less.                                            *)
LEMMA TextGrows ==
  ASSUME NEW g \in Generators, NEW h \in Generators,
         h.prefix = g.prefix, IsPrefix(g.buffer, h.buffer)
  PROVE  /\ IsPrefix(Text(g), Text(h))
         /\ \A n \in 0 .. Len(g.buffer) : Given(h, n) = Given(g, n)
<1>1. g.buffer \in Seq(Texts) /\ h.buffer \in Seq(Texts)
  BY TextType
<1>2. \A n \in 0 .. Len(g.buffer) : Given(h, n) = Given(g, n)
  <2> TAKE n \in 0 .. Len(g.buffer)
  <2>1. SubSeq(h.buffer, 1, n) = SubSeq(g.buffer, 1, n)
    BY <1>1, SameBeginning
  <2>2. QED BY <2>1 DEF Given
<1>3. Len(g.buffer) \in 0 .. Len(g.buffer) /\ Len(g.buffer) \in 0 .. Len(h.buffer)
  BY <1>1, LenProperties, PrefixIs
<1>4. Given(h, Len(g.buffer)) = Text(g)
  BY <1>2, <1>3, TextType
<1>5. QED BY <1>2, <1>3, <1>4, TextType

(* What a model has written goes on being written.                         *)
LEMMA ContinuedStays ==
  ASSUME NEW gs \in Seq(Generators), NEW hs \in Seq(Generators), Grows(gs, hs),
         NEW key \in Texts, NEW value \in Texts, Continued(key, value, gs)
  PROVE  Continued(key, value, hs)
<1> DEFINE s == key \o value
<1>1. s \in Texts
  BY ConcatProperties DEF Texts
<1>2. PICK i \in DOMAIN gs : IsPrefix(s, Text(gs[i]))
  BY DEF Continued
<1> HIDE DEF s
<1>3. i \in DOMAIN hs /\ gs[i] \in Generators /\ hs[i] \in Generators
  BY LenProperties, ElementOfSeq DEF Grows, Follows
<1>4. IsPrefix(Text(gs[i]), Text(hs[i]))
  BY <1>3, TextGrows DEF Grows, Follows
<1>5. Text(gs[i]) \in Texts /\ Text(hs[i]) \in Texts
  BY <1>3, TextType
<1>6. IsPrefix(s, Text(hs[i]))
  BY <1>1, <1>2, <1>4, <1>5, PrefixOfPrefix DEF Texts
<1>7. QED BY <1>3, <1>6 DEF Continued, s

(* A longer text goes on as the shorter one did.                           *)
LEMMA GoesOnStays ==
  ASSUME NEW s \in Texts, NEW t \in Texts, IsPrefix(s, t), NEW n \in 0 .. Len(s),
         NEW p \in Texts, NEW out \in Texts, GoesOn(s, n, p, out)
  PROVE  SubSeq(t, 1, n) = SubSeq(s, 1, n) /\ GoesOn(t, n, p, out)
<1>1. /\ Len(s) \in Nat /\ Len(t) \in Nat /\ Len(p) \in Nat /\ Len(s) <= Len(t)
      /\ s \in Seq(Characters) /\ t \in Seq(Characters)
      /\ p \in Seq(Characters) /\ out \in Seq(Characters)
  BY LenProperties, PrefixIs DEF Texts
<1>2. \A m \in 0 .. Len(s) :
        SubSeq(t, 1, m) = SubSeq(s, 1, m) /\ SubSeq(s, 1, m) \in Seq(Characters)
  BY <1>1, SameBeginning
<1>3. CASE n <= Len(p)
  <2> DEFINE u == SubSeq(s, 1, n) \o Rest(p, n) \o out
  <2>1. Rest(p, n) \in Seq(Characters)
    BY <1>1, RestIs
  <2>2. u \in Seq(Characters)
    BY <1>1, <1>2, <2>1, ConcatProperties
  <2>3. IsPrefix(u, s)
    BY <1>3 DEF GoesOn
  <2>4. u = SubSeq(t, 1, n) \o Rest(p, n) \o out
    BY <1>2
  <2> HIDE DEF u
  <2>5. IsPrefix(u, t)
    BY <1>1, <2>2, <2>3, PrefixOfPrefix
  <2>6. QED BY <1>2, <1>3, <2>4, <2>5 DEF GoesOn
<1>4. CASE ~(n <= Len(p))
  <2>1. PICK m \in n .. Len(s) : IsPrefix(SubSeq(s, 1, m) \o out, s)
    BY <1>4 DEF GoesOn
  <2>2. m \in 0 .. Len(s) /\ m \in n .. Len(t)
    BY <1>1, <2>1
  <2> DEFINE u == SubSeq(s, 1, m) \o out
  <2>3. u \in Seq(Characters) /\ u = SubSeq(t, 1, m) \o out
    BY <1>1, <1>2, <2>2, ConcatProperties
  <2>4. IsPrefix(u, s)
    BY <2>1
  <2> HIDE DEF u
  <2>5. IsPrefix(u, t)
    BY <1>1, <2>3, <2>4, PrefixOfPrefix
  <2>6. QED BY <1>2, <1>4, <2>2, <2>3, <2>5 DEF GoesOn
<1>5. QED BY <1>3, <1>4

(* So does what goes on after a key.                                       *)
LEMMA AfterKeyStays ==
  ASSUME NEW gs \in Seq(Generators), NEW hs \in Seq(Generators), Grows(gs, hs),
         NEW prefix \in Texts, NEW out \in Texts, AfterKey(prefix, out, gs)
  PROVE  AfterKey(prefix, out, hs)
<1>0. PICK i \in DOMAIN gs : \E n \in 0 .. Len(Text(gs[i])) :
        Like(prefix, SubSeq(Text(gs[i]), 1, n)) /\ GoesOn(Text(gs[i]), n, prefix, out)
  BY DEF AfterKey
<1>1. PICK n \in 0 .. Len(Text(gs[i])) :
        Like(prefix, SubSeq(Text(gs[i]), 1, n)) /\ GoesOn(Text(gs[i]), n, prefix, out)
  BY <1>0
<1>2. i \in DOMAIN hs /\ gs[i] \in Generators /\ hs[i] \in Generators
  BY LenProperties, ElementOfSeq DEF Grows, Follows
<1>3. IsPrefix(Text(gs[i]), Text(hs[i]))
  BY <1>2, TextGrows DEF Grows, Follows
<1>4. Text(gs[i]) \in Texts /\ Text(hs[i]) \in Texts
  BY <1>2, TextType
<1>5. /\ SubSeq(Text(hs[i]), 1, n) = SubSeq(Text(gs[i]), 1, n)
      /\ GoesOn(Text(hs[i]), n, prefix, out)
  BY <1>1, <1>3, <1>4, GoesOnStays
<1>6. n \in 0 .. Len(Text(hs[i]))
  <2>1. Len(Text(gs[i])) \in Nat /\ Len(Text(hs[i])) \in Nat
        /\ Len(Text(gs[i])) <= Len(Text(hs[i]))
    BY <1>3, <1>4, PrefixIs, LenProperties DEF Texts
  <2>2. QED BY <1>1, <2>1
<1>7. Like(prefix, SubSeq(Text(hs[i]), 1, n))
  BY <1>1, <1>5, Zenon
<1>8. QED BY <1>2, <1>5, <1>6, <1>7 DEF AfterKey

(* A request does not notice that generators grow.                         *)
LEMMA RequestStays ==
  ASSUME NEW gs \in Seq(Generators), NEW hs \in Seq(Generators), Grows(gs, hs),
         NEW q \in Calls, RequestInv(q, gs)
  PROVE  RequestInv(q, hs)
<1>1. q.prefix \in Texts /\ q.out \in Texts
  BY DEF Calls
<1>2. q.out # <<>> =>
        Continued(q.prefix, q.out, hs) \/ (q.pc = "shown" /\ AfterKey(q.prefix, q.out, hs))
  BY <1>1, ContinuedStays, AfterKeyStays DEF RequestInv
<1>3. ASSUME q.pc \in {"reading", "waiting", "ended"}
      PROVE  Reads(q, hs)
  <2> DEFINE g == gs[q.gen]
             h == hs[q.gen]
  <2>1. /\ q.gen \in DOMAIN gs /\ q.index \in 0 .. Len(g.buffer)
        /\ IsPrefix(q.prefix, Text(g))
        /\ Given(g, q.index) \o q.typed = q.prefix \o q.out
        /\ q.typed # <<>> => q.out = <<>>
        /\ q.pc = "ended" => g.ended /\ q.index = Len(g.buffer)
    BY <1>3 DEF RequestInv, Reads
  <2>2. /\ q.gen \in DOMAIN hs /\ h.prefix = g.prefix /\ IsPrefix(g.buffer, h.buffer)
        /\ g.ended => h.ended /\ h.buffer = g.buffer
    BY <2>1 DEF Grows, Follows
  <2>3. g \in Generators /\ h \in Generators
    BY <2>1, <2>2, LenProperties, ElementOfSeq
  <2> HIDE DEF g, h
  <2>4. IsPrefix(Text(g), Text(h)) /\ Given(h, q.index) = Given(g, q.index)
    BY <2>1, <2>2, <2>3, TextGrows
  <2>5. IsPrefix(q.prefix, Text(h))
    BY <1>1, <2>1, <2>3, <2>4, TextType, PrefixOfPrefix DEF Texts
  <2>6. Len(g.buffer) \in Nat /\ Len(h.buffer) \in Nat /\ Len(g.buffer) <= Len(h.buffer)
    BY <2>2, <2>3, TextType, PrefixIs, LenProperties
  <2>7. q.index \in 0 .. Len(h.buffer)
    BY <2>1, <2>6
  <2>8. q.pc = "ended" => h.ended /\ q.index = Len(h.buffer)
    BY <2>1, <2>2
  <2>9. QED BY <2>1, <2>2, <2>4, <2>5, <2>7, <2>8 DEF Reads, h
<1>4. QED BY <1>2, <1>3 DEF RequestInv, Reads

(* Nor do the rows of the cache.                                           *)
LEMMA RowsStay ==
  ASSUME NEW gs \in Seq(Generators), NEW hs \in Seq(Generators), Grows(gs, hs),
         NEW rows \in Seq(Rows), RowsInv(rows, gs)
  PROVE  RowsInv(rows, hs)
<1>1. \A i \in DOMAIN rows : Continued(rows[i].key, rows[i].value, hs)
  <2> TAKE i \in DOMAIN rows
  <2>1. rows[i] \in Rows
    BY LenProperties, ElementOfSeq
  <2>2. rows[i].key \in Texts /\ rows[i].value \in Texts
    BY <2>1 DEF Rows
  <2>3. QED BY <2>2, ContinuedStays DEF RowsInv
<1>2. QED BY <1>1 DEF RowsInv

-----------------------------------------------------------------------------
(* Where a completion comes from: a stream, or a row of the cache.         *)

(* The rest of a value goes on where its first k characters end.           *)
RestFollows(s, key, value, k) ==
  /\ Len(key) + k \in Len(key) .. Len(s)
  /\ SubSeq(s, 1, Len(key) + k) \o Rest(value, k) = key \o value

(* It does in every text that begins with the key and the value.           *)
LEMMA PartGoesOn ==
  ASSUME NEW C, NEW key \in Seq(C), NEW value \in Seq(C), NEW s \in Seq(C),
         IsPrefix(key \o value, s), NEW k \in 0 .. Len(value)
  PROVE  RestFollows(s, key, value, k)
<1> DEFINE whole == key \o value
           n == Len(key)
           m == Len(key) + k
           front == SubSeq(s, 1, m)
           rest == Rest(value, k)
<1>1. n \in Nat /\ Len(value) \in Nat /\ Len(s) \in Nat /\ k \in Nat
  BY LenProperties
<1>2. /\ whole \in Seq(C) /\ Len(whole) = n + Len(value)
      /\ \A i \in 1 .. n + Len(value) : whole[i] = IF i <= n THEN key[i] ELSE value[i - n]
  BY ConcatProperties
<1>3. IsPrefix(whole, s)
  OBVIOUS
<1> HIDE DEF whole
<1>4. Len(whole) <= Len(s) /\ \A i \in 1 .. Len(whole) : whole[i] = s[i]
  BY <1>2, <1>3, PrefixIs
<1>5. m \in n .. Len(s) /\ m \in 0 .. Len(s) /\ m <= Len(whole)
  BY <1>1, <1>2, <1>4
<1>6. /\ front \in Seq(C) /\ Len(front) = m /\ \A i \in 1 .. m : front[i] = s[i]
  <2>1. IsPrefix(s, s)
    BY <1>1, PrefixIs
  <2>2. QED BY <1>5, <2>1, SameBeginning
<1>7. /\ rest \in Seq(C) /\ Len(rest) = Len(value) - k
      /\ \A i \in 1 .. Len(value) - k : rest[i] = value[k + i]
  BY <1>1, RestIs
<1> HIDE DEF front, rest
<1> DEFINE joined == front \o rest
<1>8. /\ joined \in Seq(C) /\ Len(joined) = m + Len(rest)
      /\ \A i \in 1 .. m + Len(rest) : joined[i] = IF i <= m THEN front[i] ELSE rest[i - m]
  <2>1. /\ joined \in Seq(C) /\ Len(joined) = Len(front) + Len(rest)
        /\ \A i \in 1 .. Len(front) + Len(rest) :
             joined[i] = IF i <= Len(front) THEN front[i] ELSE rest[i - Len(front)]
    BY <1>6, <1>7, ConcatProperties
  <2>2. QED BY <1>6, <2>1, Zenon
<1> HIDE DEF joined
<1>9. Len(joined) = Len(whole)
  BY <1>1, <1>2, <1>7, <1>8
<1>10. ASSUME NEW i \in 1 .. Len(whole)
       PROVE  joined[i] = whole[i]
  <2>1. i \in Nat /\ i \in 1 .. m + Len(rest) /\ i \in 1 .. n + Len(value)
    BY <1>1, <1>2, <1>8, <1>9, <1>10
  <2>2. CASE i <= m
    BY <1>4, <1>6, <1>8, <2>1, <2>2
  <2>3. CASE ~(i <= m)
    <3>1. /\ i - m \in 1 .. Len(value) - k /\ k + (i - m) = i - n /\ ~(i <= n)
      BY <1>1, <1>7, <2>1, <2>3
    <3>2. QED BY <1>2, <1>7, <1>8, <2>1, <2>3, <3>1
  <2>4. QED BY <2>2, <2>3
<1>11. joined = whole
  BY <1>2, <1>8, <1>9, <1>10, SeqEqual
<1>12. QED BY <1>5, <1>11 DEF RestFollows, joined, whole, front, rest

(* What get returns of the row of a key that the prefix is LIKE goes on    *)
(* after the key.                                                          *)
LEMMA FromRow ==
  ASSUME NEW gs \in Seq(Generators), NEW p \in Texts, NEW key \in Texts, NEW value \in Texts,
         Like(p, key), Completes(value, Rest(p, Len(key))), Continued(key, value, gs)
  PROVE  Sliced(value, p, key) \in Texts /\ AfterKey(p, Sliced(value, p, key), gs)
<1> DEFINE C == Characters
           out == Sliced(value, p, key)
           n == Len(key)
<1>1. /\ p \in Seq(C) /\ key \in Seq(C) /\ value \in Seq(C)
      /\ Len(p) \in Nat /\ n \in Nat /\ Len(value) \in Nat
  BY LenProperties DEF Texts
<1>2. PICK i \in DOMAIN gs : IsPrefix(key \o value, Text(gs[i]))
  BY DEF Continued
<1> DEFINE s == Text(gs[i])
<1>3. gs[i] \in Generators
  BY LenProperties, ElementOfSeq
<1>4. s \in Seq(C) /\ Len(s) \in Nat
  BY <1>3, TextType, LenProperties DEF Texts
<1>5. IsPrefix(key \o value, s)
  BY <1>2
<1> HIDE DEF s
<1>6. n \in 0 .. Len(s) /\ SubSeq(s, 1, n) = key
  <2>1. key \o value \in Seq(C) /\ IsPrefix(key, key \o value)
    BY <1>1, ConcatProperties, ConcatIsLonger
  <2>2. IsPrefix(key, s)
    BY <1>1, <1>4, <1>5, <2>1, PrefixOfPrefix
  <2>3. n \in 0 .. Len(key) /\ n <= Len(s)
    BY <1>1, <1>4, <2>2, PrefixIs
  <2>4. SubSeq(s, 1, n) = SubSeq(key, 1, n)
    BY <1>1, <1>4, <2>2, <2>3, SameBeginning
  <2>5. QED BY <1>1, <1>4, <2>3, <2>4, SubSeqFull
<1>7. CASE n <= Len(p)
  <2> DEFINE rest == Rest(p, n)
             k == Len(p) - n
  <2>1. rest \in Seq(C) /\ Len(rest) = k /\ k \in Nat
    BY <1>1, <1>7, RestIs
  <2>2. IsPrefix(rest, value)
    BY DEF Completes
  <2>3. out = Rest(value, k)
    BY <1>7 DEF Sliced
  <2>4. out \in Seq(C)
    BY <1>1, <2>1, <2>3, RestIs
  <2>5. rest \o out = value
    <3>1. rest \o Rest(value, Len(rest)) = value
      BY <1>1, <2>1, <2>2, PrefixAndRest
    <3>2. QED BY <2>1, <2>3, <3>1
  <2> HIDE DEF rest, out, k
  <2>6. Associates(key, rest, out)
    BY <1>1, <2>1, <2>4, ConcatAssociates
  <2>7. (key \o rest) \o out = key \o value
    BY <2>5, <2>6 DEF Associates
  <2>8. IsPrefix(SubSeq(s, 1, n) \o rest \o out, s)
    BY <1>5, <1>6, <2>7
  <2>9. GoesOn(s, n, p, out)
    BY <1>7, <2>8 DEF GoesOn, rest
  <2>10. Like(p, SubSeq(s, 1, n))
    BY <1>6, Zenon
  <2>11. QED BY <1>6, <2>4, <2>9, <2>10 DEF AfterKey, Texts, s, out
<1>8. CASE ~(n <= Len(p))
  <2> DEFINE last == n - Len(p)
             k == IF last < Len(value) THEN Len(value) - last ELSE 0
  <2>1. last \in Nat /\ k \in 0 .. Len(value) /\ k \in Nat
    BY <1>1, <1>8
  <2>2. out = Rest(value, k)
    <3>1. Rest(value, 0) = value
      BY <1>1, SubSeqFull DEF Rest
    <3>2. QED BY <1>8, <3>1 DEF Sliced
  <2>3. out \in Seq(C)
    BY <1>1, <2>1, <2>2, RestIs
  <2> HIDE DEF k, out
  <2>4. n + k \in n .. Len(s) /\ SubSeq(s, 1, n + k) \o out = key \o value
    <3>1. RestFollows(s, key, value, k)
      BY <1>1, <1>4, <1>5, <2>1, PartGoesOn
    <3>2. QED BY <2>2, <3>1 DEF RestFollows
  <2>5. IsPrefix(SubSeq(s, 1, n + k) \o out, s)
    BY <1>5, <2>4
  <2>6. GoesOn(s, n, p, out)
    BY <1>8, <2>4, <2>5 DEF GoesOn
  <2>7. Like(p, SubSeq(s, 1, n))
    BY <1>6, Zenon
  <2>8. QED BY <1>6, <2>3, <2>6, <2>7 DEF AfterKey, Texts, s, out
<1>9. QED BY <1>7, <1>8

(* The place of the first newline, if any.                                 *)
LEMMA NewlineIs ==
  ASSUME NEW C, NEW s \in Seq(C)
  PROVE  NewlineIndex(s) \in 0 .. Len(s)
<1> DEFINE I == {i \in 1 .. Len(s) : s[i] = Newline}
<1>1. Len(s) \in Nat
  BY LenProperties
<1>2. NewlineIndex(s) = IF I # {} THEN Min(I) ELSE 0
  BY DEF NewlineIndex, SelectInSeq
<1>3. CASE I # {}
  <2>1. I \subseteq 0 .. Len(s)
    BY <1>1
  <2> HIDE DEF I
  <2>2. \E k \in I : \A l \in I : k <= l
    BY <1>1, <1>3, <2>1, HasMinimum
  <2>3. Min(I) \in I
    BY <2>2 DEF Min
  <2>4. QED BY <1>2, <1>3, <2>1, <2>3
<1>4. CASE I = {}
  BY <1>1, <1>2, <1>4
<1>5. QED BY <1>3, <1>4

(* Who is not reading only has to have a completion that continues.        *)
LEMMA NotReading ==
  ASSUME NEW gs, NEW q \in Calls, q.pc \in {"stopped", "shown", "dropped"},
         q.out # <<>> =>
           Continued(q.prefix, q.out, gs) \/ (q.pc = "shown" /\ AfterKey(q.prefix, q.out, gs))
  PROVE  RequestInv(q, gs)
BY DEF RequestInv, Reads

(* The fields of a call not made.                                          *)
LEMMA Idle ==
  /\ IdleRequest \in Calls
  /\ IdleRequest.pc = "idle" /\ IdleRequest.index = 0
  /\ IdleRequest.typed = <<>> /\ IdleRequest.out = <<>>
<1>1. <<>> \in Texts
  BY EmptySeq DEF Texts
<1> DEFINE q == <<>>
<1>2. IdleRequest =
        [pc |-> "idle", prefix |-> q, multiline |-> FALSE, aborted |-> FALSE,
         gen |-> 0, index |-> 0, typed |-> q, out |-> q]
  BY DEF IdleRequest
<1> HIDE DEF q
<1>3. q \in Texts
  BY <1>1 DEF q
<1>4. "idle" \in States /\ FALSE \in BOOLEAN /\ 0 \in Nat
  BY DEF States
<1>5. IdleRequest \in Calls
  BY <1>2, <1>3, <1>4 DEF Calls
<1>6. QED BY <1>2, <1>5 DEF q

(* The fields of a call that goes on to another step.                      *)
LEMMA CallUpdates ==
  ASSUME NEW q \in Calls, NEW pc \in States
  PROVE  LET c == [q EXCEPT !.pc = pc]
         IN  /\ c \in Calls /\ c.pc = pc /\ c.prefix = q.prefix /\ c.out = q.out
             /\ c.gen = q.gen /\ c.index = q.index /\ c.typed = q.typed
             /\ c.aborted = q.aborted
BY DEF Calls

(* The fields of a call that has taken a chunk.                            *)
LEMMA ChunkCounted ==
  ASSUME NEW q \in Calls, NEW still \in Texts
  PROVE  LET c == [q EXCEPT !.index = @ + 1, !.typed = still]
         IN  /\ c \in Calls /\ c.pc = q.pc /\ c.prefix = q.prefix /\ c.out = q.out
             /\ c.gen = q.gen /\ c.index = q.index + 1 /\ c.typed = still
             /\ c.aborted = q.aborted
<1>1. PICK n \in Nat : n = q.index + 1
  BY DEF Calls
<1>2. LET c == [q EXCEPT !.index = n, !.typed = still]
      IN  /\ c \in Calls /\ c.pc = q.pc /\ c.prefix = q.prefix /\ c.out = q.out
          /\ c.gen = q.gen /\ c.index = n /\ c.typed = still
          /\ c.aborted = q.aborted
  BY DEF Calls
<1>3. QED BY <1>1, <1>2

(* A call that returns nothing.                                            *)
LEMMA Dropped ==
  ASSUME NEW gs
  PROVE  LET q == [IdleRequest EXCEPT !.pc = "dropped"]
         IN  q \in Calls /\ RequestInv(q, gs)
<1> DEFINE q == [IdleRequest EXCEPT !.pc = "dropped"]
<1>1. "dropped" \in States
  BY DEF States
<1>2. q \in Calls /\ q.out = <<>> /\ q.pc = "dropped"
  BY <1>1, Idle, CallUpdates
<1> HIDE DEF q
<1>3. RequestInv(q, gs)
  BY <1>2, NotReading
<1>4. QED BY <1>2, <1>3 DEF q

(* A call that leaves its stream keeps its completion.                     *)
LEMMA StreamLeft ==
  ASSUME NEW gs, NEW q \in Calls, q.out # <<>> => Continued(q.prefix, q.out, gs)
  PROVE  /\ Stopped(q) \in Calls /\ RequestInv(Stopped(q), gs)
         /\ Stopped(q).out # <<>> => Continued(Stopped(q).prefix, Stopped(q).out, gs)
<1>1. q.prefix \in Texts /\ q.out \in Texts /\ q.aborted \in BOOLEAN /\ "stopped" \in States
  BY DEF Calls, States
<1>2. Stopped(q) = [IdleRequest EXCEPT !.pc = "stopped", !.prefix = q.prefix, !.out = q.out,
                                       !.aborted = q.aborted]
  BY DEF Stopped
<1>3. Stopped(q) \in Calls /\ Stopped(q).pc = "stopped"
      /\ Stopped(q).prefix = q.prefix /\ Stopped(q).out = q.out
  BY <1>1, <1>2, Idle DEF Calls
<1> DEFINE c == Stopped(q)
<1>4. /\ c \in Calls /\ c.pc \in {"stopped", "shown", "dropped"}
      /\ c.out # <<>> => Continued(c.prefix, c.out, gs)
  BY <1>3
<1> HIDE DEF c
<1>5. RequestInv(c, gs)
  BY <1>4, NotReading
<1>6. QED BY <1>4, <1>5 DEF c

(* One chunk more of a text: with what the user typed ahead it is what the *)
(* prefix and the completion have become.                                  *)
HasRead(read, chunk, typed, prefix, out, text) ==
  /\ read \o typed = prefix \o out /\ (typed # <<>> => out = <<>>)
  /\ IsPrefix(prefix, text) /\ IsPrefix(read \o chunk, text)

ReadsOn(C, read, chunk, typed, prefix, out, text) ==
  LET s == Untyped(chunk, typed)
      still == StillTyped(chunk, typed)
  IN  /\ s \in Seq(C) /\ still \in Seq(C) /\ out \o s \in Seq(C)
      /\ (read \o chunk) \o still = prefix \o (out \o s)
      /\ still # <<>> => out = <<>> /\ s = <<>>
      /\ s # <<>> => IsPrefix(prefix \o (out \o s), text)

(* One chunk more: without what the user has typed it goes on with the     *)
(* completion.                                                             *)
LEMMA ChunkRead ==
  ASSUME NEW C, NEW read \in Seq(C), NEW chunk \in Seq(C), NEW typed \in Seq(C),
         NEW prefix \in Seq(C), NEW out \in Seq(C), NEW text \in Seq(C),
         HasRead(read, chunk, typed, prefix, out, text)
  PROVE  ReadsOn(C, read, chunk, typed, prefix, out, text)
<1> DEFINE s == Untyped(chunk, typed)
           still == StillTyped(chunk, typed)
<1>0. /\ read \o typed = prefix \o out /\ (typed # <<>> => out = <<>>)
      /\ IsPrefix(prefix, text) /\ IsPrefix(read \o chunk, text)
  BY DEF HasRead
<1>1. IsPrefix(chunk, typed) \/ IsPrefix(typed, chunk)
  <2>1. CASE typed = <<>>
    <3>1. Len(typed) = 0 /\ Len(chunk) \in Nat
      BY <2>1, LenProperties
    <3>2. SubSeq(typed, 1, 0) = <<>> /\ SubSeq(chunk, 1, 0) = <<>>
      BY SubSeqEmpty
    <3>3. IsPrefix(typed, chunk)
      BY <3>1, <3>2 DEF IsPrefix
    <3>4. QED BY <3>3
  <2>2. CASE typed # <<>>
    <3>1. prefix \o out = prefix
      BY <1>0, <2>2, ConcatEmptySeq
    <3>2. IsPrefix(read \o typed, text) /\ IsPrefix(read \o chunk, text)
      BY <1>0, <3>1
    <3>3. QED BY <3>2, PrefixesCompare
  <2>3. QED BY <2>1, <2>2
<1>2. s \in Seq(C) /\ still \in Seq(C)
  BY <1>1, ChunkAndTyped
<1>3. /\ chunk \o still = typed \o s
      /\ s = <<>> \/ still = <<>>
      /\ typed = <<>> => still = <<>>
  BY <1>1, ChunkAndTyped
<1> HIDE DEF s, still
<1>4. out \o s \in Seq(C) /\ read \o chunk \in Seq(C)
  BY <1>2, ConcatProperties
<1>5. (read \o chunk) \o still = prefix \o (out \o s)
  <2>1. Associates(read, chunk, still)
    BY <1>2, ConcatAssociates
  <2>2. Associates(read, typed, s)
    BY <1>2, ConcatAssociates
  <2>3. Associates(prefix, out, s)
    BY <1>2, ConcatAssociates
  <2>4. QED BY <1>0, <1>3, <2>1, <2>2, <2>3 DEF Associates
<1>6. s # <<>> => read \o chunk = prefix \o (out \o s)
  BY <1>3, <1>4, <1>5, ConcatEmptySeq
<1>7. still # <<>> => out = <<>> /\ s = <<>>
  BY <1>0, <1>3
<1>8. s # <<>> => IsPrefix(prefix \o (out \o s), text)
  BY <1>0, <1>6
<1>9. QED BY <1>2, <1>4, <1>5, <1>7, <1>8 DEF ReadsOn, s, still

(* The next chunk is what a reader gets next.                              *)
LEMMA GivenNext ==
  ASSUME NEW g \in Generators, NEW n \in 0 .. Len(g.buffer) - 1
  PROVE  Given(g, n + 1) = Given(g, n) \o g.buffer[n + 1]
<1>1. g.prefix \in Seq(Characters) /\ g.buffer \in Seq(Seq(Characters))
  BY TextType DEF Texts
<1> DEFINE old == FlattenSeq(SubSeq(g.buffer, 1, n))
           chunk == g.buffer[n + 1]
<1>2. Len(g.buffer) \in Nat /\ n \in Int /\ n + 1 \in 1 .. Len(g.buffer)
      /\ \A i \in 1 .. Len(g.buffer) : g.buffer[i] \in Seq(Characters)
  BY <1>1, LenProperties, ElementOfSeq
<1>3. SubSeq(g.buffer, 1, n) \in Seq(Seq(Characters))
  <2>1. \A i \in 1 .. n : g.buffer[i] \in Seq(Characters)
    BY <1>2
  <2>2. QED BY <1>2, <2>1, SubSeqProperties
<1>4. old \in Seq(Characters) /\ chunk \in Seq(Characters)
  BY <1>2, <1>3, FlattenType
<1>5. FlattenSeq(SubSeq(g.buffer, 1, n + 1)) = old \o chunk
  BY <1>1, FlattenNext
<1> HIDE DEF old, chunk
<1>6. Associates(g.prefix, old, chunk)
  BY <1>1, <1>4, ConcatAssociates
<1>7. QED BY <1>5, <1>6 DEF Given, Associates, old, chunk

(* The reader stays where its generator is, or goes with a completion that *)
(* the generator has given.                                                *)
LEMMA ChunkTaken ==
  ASSUME NEW gs \in Seq(Generators), NEW q \in Calls, RequestInv(q, gs), q.pc = "reading",
         q.index < Len(gs[q.gen].buffer)
  PROVE  LET next == TakeChunk(q, gs[q.gen].buffer[q.index + 1])
         IN  next \in Calls /\ RequestInv(next, gs)
<1>1. PICK g \in Generators : g = gs[q.gen] /\ q.gen \in DOMAIN gs
  BY LenProperties, ElementOfSeq DEF RequestInv, Reads
<1>2. /\ q.index \in 0 .. Len(g.buffer) /\ IsPrefix(q.prefix, Text(g))
      /\ Given(g, q.index) \o q.typed = q.prefix \o q.out
      /\ q.typed # <<>> => q.out = <<>>
  BY <1>1 DEF RequestInv, Reads
<1>3. /\ q.prefix \in Texts /\ q.typed \in Texts /\ q.out \in Texts
      /\ q.aborted \in BOOLEAN /\ q.multiline \in BOOLEAN /\ q.index \in Nat
  BY DEF Calls
<1>4. Len(g.buffer) \in Nat /\ g.buffer \in Seq(Texts)
  BY TextType, LenProperties
<1>5. /\ q.index + 1 \in 1 .. Len(g.buffer) /\ q.index + 1 \in 0 .. Len(g.buffer)
      /\ q.index \in 0 .. Len(g.buffer) - 1
  BY <1>1, <1>2, <1>3, <1>4
<1> DEFINE chunk == g.buffer[q.index + 1]
           s == Untyped(chunk, q.typed)
           still == StillTyped(chunk, q.typed)
           all == q.out \o s
           taken == [q EXCEPT !.index = @ + 1, !.typed = still]
           next == TakeChunk(q, chunk)
           nl == NewlineIndex(s)
<1>6. chunk \in Texts
  BY <1>4, <1>5, ElementOfSeq
<1>7. /\ Given(g, q.index) \in Texts /\ Text(g) \in Texts
      /\ Given(g, q.index + 1) = Given(g, q.index) \o chunk
      /\ IsPrefix(Given(g, q.index + 1), Text(g))
  BY <1>2, <1>5, TextType, GivenNext
<1>8. /\ nl > 0 /\ ~q.multiline /\ chunk # <<>> =>
           next = Stopped(Update(taken, SubSeq(s, 1, nl - 1)))
      /\ (nl = 0 \/ q.multiline) /\ chunk # <<>> /\ s # <<>> => next = Update(taken, s)
      /\ (nl = 0 \/ q.multiline) /\ chunk # <<>> /\ s = <<>> => next = taken
      /\ chunk = <<>> => next = [IdleRequest EXCEPT !.pc = "dropped"]
  BY DEF TakeChunk
<1> HIDE DEF chunk, s, still, nl, next, taken
<1>9. /\ s \in Texts /\ still \in Texts /\ all \in Texts
      /\ Given(g, q.index + 1) \o still = q.prefix \o all
      /\ still # <<>> => q.out = <<>> /\ s = <<>>
      /\ s # <<>> => IsPrefix(q.prefix \o all, Text(g))
  <2> DEFINE C == Characters
             read == Given(g, q.index)
  <2>1. /\ read \in Seq(C) /\ chunk \in Seq(C) /\ q.typed \in Seq(C)
        /\ q.prefix \in Seq(C) /\ q.out \in Seq(C) /\ Text(g) \in Seq(C)
    BY <1>3, <1>6, <1>7 DEF Texts
  <2>2. HasRead(read, chunk, q.typed, q.prefix, q.out, Text(g))
    BY <1>2, <1>7 DEF HasRead
  <2> HIDE DEF C, read, all
  <2>3. ReadsOn(C, read, chunk, q.typed, q.prefix, q.out, Text(g))
    BY <2>1, <2>2, ChunkRead
  <2>4. QED BY <1>7, <2>3 DEF ReadsOn, Texts, s, still, all, read, C
<1> HIDE DEF all
<1>a. s \in Texts /\ still \in Texts /\ s \in Seq(Characters)
  BY <1>9 DEF Texts
<1>10. /\ taken \in Calls /\ taken.pc = "reading" /\ taken.prefix = q.prefix
       /\ taken.out = q.out /\ taken.gen = q.gen /\ taken.index = q.index + 1
       /\ taken.typed = still /\ taken.aborted = q.aborted
  BY <1>a, ChunkCounted DEF taken
<1>11. q.out # <<>> => Continued(q.prefix, q.out, gs)
  BY DEF RequestInv
<1>12. Stopped(taken) \in Calls /\ RequestInv(Stopped(taken), gs)
  BY <1>10, <1>11, StreamLeft
<1>b. Stopped(taken).out # <<>> => Continued(Stopped(taken).prefix, Stopped(taken).out, gs)
  BY <1>10, <1>11, StreamLeft
<1>13. CASE chunk = <<>>
  BY <1>1, <1>8, <1>13, Dropped DEF next, chunk
(* What becomes of the completion, whole or up to a newline.               *)
<1>14. ASSUME s # <<>>, NEW part \in Texts, IsPrefix(part, s)
       PROVE  LET c == [taken EXCEPT !.out = @ \o part]
              IN  /\ c \in Calls /\ c.pc = "reading" /\ c.prefix = q.prefix
                  /\ c.out = q.out \o part
                  /\ c.gen = q.gen /\ c.index = q.index + 1 /\ c.typed = still
                  /\ Continued(c.prefix, c.out, gs)
  <2> DEFINE c == [taken EXCEPT !.out = @ \o part]
             out == q.out \o part
  <2>1. out \in Texts
    BY <1>3, <1>14, ConcatProperties DEF Texts
  <2>2. IsPrefix(out, all)
    BY <1>3, <1>9, <1>14, ConcatKeepsPrefix DEF Texts, all
  <2>3. c = [taken EXCEPT !.out = out]
    BY <1>10
  <2> HIDE DEF out, c
  <2>4. IsPrefix(q.prefix \o out, q.prefix \o all)
    BY <1>3, <1>9, <2>1, <2>2, ConcatKeepsPrefix DEF Texts
  <2>5. q.prefix \o out \in Texts /\ q.prefix \o all \in Texts
    BY <1>3, <1>9, <2>1, ConcatProperties DEF Texts
  <2>6. IsPrefix(q.prefix \o out, Text(g))
    <3>1. IsPrefix(q.prefix \o all, Text(g))
      BY <1>9, <1>14
    <3>2. QED BY <1>7, <2>4, <2>5, <3>1, PrefixOfPrefix DEF Texts
  <2>7. Continued(q.prefix, out, gs)
    BY <1>1, <2>6 DEF Continued
  <2>8. /\ c \in Calls /\ c.pc = "reading" /\ c.prefix = q.prefix /\ c.out = out
        /\ c.gen = q.gen /\ c.index = q.index + 1 /\ c.typed = still
    BY <1>10, <2>1, <2>3 DEF Calls
  <2>9. QED BY <2>7, <2>8 DEF c, out
<1>15. CASE chunk # <<>> /\ nl > 0 /\ ~q.multiline
  <2> DEFINE part == SubSeq(s, 1, nl - 1)
             c == [taken EXCEPT !.out = @ \o part]
  <2>1. nl \in 0 .. Len(s) /\ Len(s) \in Nat
    BY <1>9, NewlineIs, LenProperties DEF Texts, nl
  <2>2. nl - 1 \in 0 .. Len(s) /\ s # <<>> /\ nl - 1 \in Nat
    BY <1>15, <2>1, EmptySeq
  <2>3. part \in Texts /\ IsPrefix(part, s)
    <3>1. /\ part \in Texts /\ Len(part) = nl - 1
          /\ \A i \in 1 .. nl - 1 : part[i] = s[i]
      <4>1. IsPrefix(s, s)
        BY <1>9, <2>1, PrefixIs DEF Texts
      <4>2. QED BY <1>9, <2>2, <4>1, SameBeginning DEF Texts
    <3> HIDE DEF part
    <3>2. Len(part) <= Len(s) /\ (\A i \in 1 .. Len(part) : part[i] = s[i])
          /\ part \in Seq(Characters)
      BY <2>1, <2>2, <3>1 DEF Texts
    <3>3. IsPrefix(part, s)
      BY <1>a, <3>2, PrefixIs
    <3>4. QED BY <3>1, <3>3
  <2> HIDE DEF part
  <2>4. c \in Calls /\ Continued(c.prefix, c.out, gs)
    BY <1>14, <2>2, <2>3
  <2>5. Stopped(c) \in Calls /\ RequestInv(Stopped(c), gs)
    BY <2>4, StreamLeft
  <2>6. Stopped(Stopped(taken)) \in Calls /\ RequestInv(Stopped(Stopped(taken)), gs)
    BY <1>12, <1>b, StreamLeft
  <2>7. next = Stopped(Update(taken, part))
    BY <1>8, <1>15 DEF part
  <2>8. next \in Calls /\ RequestInv(next, gs)
    BY <2>5, <2>6, <2>7 DEF Update
  <2>9. QED BY <1>1, <2>8 DEF next, chunk
<1>16. ASSUME NEW c \in Calls, c.pc = "reading", c.prefix = q.prefix, c.out = all,
              c.gen = q.gen, c.index = q.index + 1, c.typed = still,
              c.out # <<>> => Continued(c.prefix, c.out, gs), c.typed # <<>> => c.out = <<>>
       PROVE  RequestInv(c, gs)
  <2>1. Reads(c, gs)
    BY <1>1, <1>2, <1>5, <1>9, <1>16 DEF Reads
  <2>2. QED BY <1>16, <2>1 DEF RequestInv
<1>17. CASE chunk # <<>> /\ (nl = 0 \/ q.multiline) /\ s # <<>>
  <2> DEFINE c == [taken EXCEPT !.out = @ \o s]
  <2>1. IsPrefix(s, s)
    BY <1>9, PrefixIs, LenProperties DEF Texts
  <2>2. /\ c \in Calls /\ c.pc = "reading" /\ c.prefix = q.prefix /\ c.out = all
        /\ c.gen = q.gen /\ c.index = q.index + 1 /\ c.typed = still
        /\ Continued(c.prefix, c.out, gs)
    BY <1>9, <1>14, <1>17, <2>1 DEF all
  <2> HIDE DEF c
  <2>3. RequestInv(c, gs)
    BY <1>9, <1>16, <1>17, <2>2
  <2>4. next = IF taken.aborted THEN Stopped(taken) ELSE c
    BY <1>8, <1>17 DEF Update, c
  <2>5. QED BY <1>1, <1>12, <2>2, <2>3, <2>4 DEF next, chunk
<1>18. CASE chunk # <<>> /\ (nl = 0 \/ q.multiline) /\ s = <<>>
  <2>1. all = q.out
    BY <1>3, <1>18, ConcatEmptySeq DEF Texts, all
  <2>2. RequestInv(taken, gs)
    BY <1>9, <1>10, <1>11, <1>16, <2>1
  <2>3. QED BY <1>1, <1>8, <1>10, <1>18, <2>2 DEF next, chunk
<1>19. nl \in Nat
  BY <1>9, NewlineIs, LenProperties DEF Texts, nl
<1>20. QED BY <1>3, <1>13, <1>15, <1>17, <1>18, <1>19

-----------------------------------------------------------------------------
(* The rows of the cache.                                                  *)

(* Where(key) is where the row of the key is.                              *)
LEMMA WhereIs ==
  ASSUME cache \in Seq(Rows), NEW key
  PROVE  /\ Where(key) \in 0 .. Len(cache)
         /\ Where(key) # 0 => cache[Where(key)].key = key
         /\ Where(key) = 0 => \A i \in DOMAIN cache : cache[i].key # key
<1> DEFINE I == {i \in 1 .. Len(cache) : cache[i].key = key}
<1>1. Len(cache) \in Nat /\ DOMAIN cache = 1 .. Len(cache)
  BY LenProperties
<1>2. Where(key) = IF I # {} THEN Min(I) ELSE 0
  BY DEF Where, SelectInSeq
<1>3. CASE I # {}
  <2>1. I \subseteq 0 .. Len(cache) /\ \A i \in I : i # 0 /\ cache[i].key = key
    BY <1>1
  <2> HIDE DEF I
  <2>2. \E k \in I : \A l \in I : k <= l
    BY <1>1, <1>3, <2>1, HasMinimum
  <2>3. Min(I) \in I
    BY <2>2 DEF Min
  <2>4. QED BY <1>2, <1>3, <2>1, <2>3
<1>4. CASE I = {}
  <2>1. \A i \in DOMAIN cache : cache[i].key # key
    BY <1>1, <1>4
  <2>2. QED BY <1>1, <1>2, <1>4, <2>1
<1>5. QED BY <1>3, <1>4

(* RemoveAt of the community modules: the rows after the place move up.    *)
LEMMA RemoveAtIs ==
  ASSUME NEW S, NEW s \in Seq(S), NEW k \in 1 .. Len(s)
  PROVE  /\ RemoveAt(s, k) \in Seq(S) /\ Len(RemoveAt(s, k)) = Len(s) - 1
         /\ \A i \in 1 .. Len(s) - 1 : RemoveAt(s, k)[i] = s[IF i < k THEN i ELSE i + 1]
<1>1. Len(s) \in Nat /\ k \in Nat /\ k - 1 \in Int /\ k + 1 \in Int
      /\ \A i \in 1 .. Len(s) : s[i] \in S
  BY LenProperties, ElementOfSeq
<1> DEFINE a == SubSeq(s, 1, k - 1)
           b == SubSeq(s, k + 1, Len(s))
<1>2. a \in Seq(S) /\ Len(a) = k - 1 /\ \A i \in 1 .. k - 1 : a[i] = s[i]
  <2>1. \A i \in 1 .. k - 1 : s[i] \in S
    BY <1>1
  <2>2. /\ a \in Seq(S) /\ Len(a) = IF 1 <= k - 1 THEN k - 1 - 1 + 1 ELSE 0
        /\ \A i \in 1 .. k - 1 - 1 + 1 : a[i] = s[1 + i - 1]
    BY <1>1, <2>1, SubSeqProperties
  <2> HIDE DEF a
  <2>3. QED BY <1>1, <2>2
<1>3. b \in Seq(S) /\ Len(b) = Len(s) - k /\ \A i \in 1 .. Len(s) - k : b[i] = s[k + i]
  <2>1. \A i \in k + 1 .. Len(s) : s[i] \in S
    BY <1>1
  <2>2. /\ b \in Seq(S) /\ Len(b) = IF k + 1 <= Len(s) THEN Len(s) - (k + 1) + 1 ELSE 0
        /\ \A i \in 1 .. Len(s) - (k + 1) + 1 : b[i] = s[k + 1 + i - 1]
    BY <1>1, <2>1, SubSeqProperties
  <2> HIDE DEF b
  <2>3. QED BY <1>1, <2>2
<1>4. RemoveAt(s, k) = a \o b
  BY DEF RemoveAt
<1> HIDE DEF a, b
<1>5. /\ a \o b \in Seq(S) /\ Len(a \o b) = Len(a) + Len(b)
      /\ \A i \in 1 .. Len(a) + Len(b) :
           (a \o b)[i] = IF i <= Len(a) THEN a[i] ELSE b[i - Len(a)]
  BY <1>2, <1>3, ConcatProperties
<1>6. ASSUME NEW i \in 1 .. Len(s) - 1
      PROVE  (a \o b)[i] = s[IF i < k THEN i ELSE i + 1]
  <2>1. i \in 1 .. Len(a) + Len(b)
    BY <1>1, <1>2, <1>3
  <2>2. CASE i < k
    BY <1>1, <1>2, <1>5, <2>1, <2>2
  <2>3. CASE ~(i < k)
    <3>1. i - Len(a) \in 1 .. Len(s) - k /\ k + (i - Len(a)) = i + 1 /\ ~(i <= Len(a))
      BY <1>1, <1>2, <2>3
    <3>2. (a \o b)[i] = b[i - Len(a)]
      BY <1>5, <2>1, <3>1
    <3>3. QED BY <1>3, <2>3, <3>1, <3>2
  <2>4. QED BY <2>2, <2>3
<1>7. QED BY <1>1, <1>2, <1>3, <1>4, <1>5, <1>6

(* The rows that are left when one is taken out.                           *)
LEMMA FewerRows ==
  ASSUME NEW gs, NEW rows \in Seq(Rows), RowsInv(rows, gs),
         NEW fewer \in Seq(Rows), Len(fewer) <= Len(rows),
         NEW f \in [1 .. Len(fewer) -> 1 .. Len(rows)],
         \A i \in 1 .. Len(fewer) : fewer[i] = rows[f[i]],
         \A i, j \in 1 .. Len(fewer) : f[i] = f[j] => i = j
  PROVE  RowsInv(fewer, gs)
<1>1. /\ Len(rows) \in Nat /\ Len(fewer) \in Nat /\ Capacity \in Nat
      /\ DOMAIN rows = 1 .. Len(rows) /\ DOMAIN fewer = 1 .. Len(fewer)
  BY LenProperties, AutocompleteAssumption
<1>2. Len(fewer) <= Capacity
  BY <1>1 DEF RowsInv
<1>3. ASSUME NEW i \in DOMAIN fewer, NEW j \in DOMAIN fewer, fewer[i].key = fewer[j].key
      PROVE  i = j
  <2>1. f[i] \in DOMAIN rows /\ f[j] \in DOMAIN rows /\ rows[f[i]].key = rows[f[j]].key
    BY <1>1, <1>3
  <2>2. f[i] = f[j]
    BY <2>1 DEF RowsInv
  <2>3. QED BY <1>1, <2>2
<1>4. ASSUME NEW i \in DOMAIN fewer
      PROVE  Continued(fewer[i].key, fewer[i].value, gs)
  <2>1. f[i] \in DOMAIN rows /\ fewer[i] = rows[f[i]]
    BY <1>1
  <2>2. Continued(rows[f[i]].key, rows[f[i]].value, gs)
    BY <2>1 DEF RowsInv
  <2>3. QED BY <2>1, <2>2
<1>5. QED BY <1>2, <1>3, <1>4 DEF RowsInv

(* The rows of other keys.                                                 *)
LEMMA OthersAre ==
  ASSUME NEW gs, cache \in Seq(Rows), RowsInv(cache, gs), NEW key
  PROVE  /\ Others(key) \in Seq(Rows) /\ RowsInv(Others(key), gs)
         /\ \A i \in DOMAIN Others(key) : Others(key)[i].key # key
         /\ Len(Others(key)) = IF Where(key) = 0 THEN Len(cache) ELSE Len(cache) - 1
<1> DEFINE k == Where(key)
<1>1. /\ k \in 0 .. Len(cache) /\ (k # 0 => cache[k].key = key)
      /\ k = 0 => \A i \in DOMAIN cache : cache[i].key # key
  BY WhereIs
<1>2. Len(cache) \in Nat /\ DOMAIN cache = 1 .. Len(cache)
  BY LenProperties
<1>3. CASE k = 0
  BY <1>1, <1>3 DEF Others
<1>4. CASE k # 0
  <2> DEFINE rows == RemoveAt(cache, k)
             f == [i \in 1 .. Len(rows) |-> IF i < k THEN i ELSE i + 1]
  <2>1. k \in 1 .. Len(cache) /\ Others(key) = rows
    BY <1>1, <1>2, <1>4 DEF Others
  <2> HIDE DEF k
  <2>2. /\ rows \in Seq(Rows) /\ Len(rows) = Len(cache) - 1
        /\ \A i \in 1 .. Len(cache) - 1 : rows[i] = cache[IF i < k THEN i ELSE i + 1]
    BY <2>1, RemoveAtIs
  <2> HIDE DEF rows
  <2>3. \A i \in 1 .. Len(rows) : f[i] \in 1 .. Len(cache) /\ f[i] # k /\ rows[i] = cache[f[i]]
    BY <1>2, <2>1, <2>2
  <2>4. \A i, j \in 1 .. Len(rows) : f[i] = f[j] => i = j
    BY <1>2, <2>1, <2>2
  <2>5. f \in [1 .. Len(rows) -> 1 .. Len(cache)] /\ Len(rows) <= Len(cache)
    BY <1>2, <2>2, <2>3
  <2> HIDE DEF f
  <2>6. RowsInv(rows, gs)
    BY <2>2, <2>3, <2>4, <2>5, FewerRows
  <2>7. \A i \in DOMAIN rows : rows[i].key # key
    <3> TAKE i \in DOMAIN rows
    <3>1. i \in 1 .. Len(rows)
      BY <2>2, LenProperties
    <3>2. f[i] \in DOMAIN cache /\ k \in DOMAIN cache /\ f[i] # k /\ rows[i] = cache[f[i]]
      BY <1>2, <2>1, <2>3, <3>1
    <3>3. QED BY <1>1, <1>4, <3>2 DEF RowsInv
  <2>8. QED BY <1>4, <2>1, <2>2, <2>6, <2>7 DEF k
<1>5. QED BY <1>3, <1>4

(* A row for a new key, if there is room.                                  *)
LEMMA RowAdded ==
  ASSUME NEW gs, NEW rows \in Seq(Rows), RowsInv(rows, gs), NEW e \in Rows,
         Len(rows) < Capacity, \A i \in DOMAIN rows : rows[i].key # e.key,
         Continued(e.key, e.value, gs)
  PROVE  Append(rows, e) \in Seq(Rows) /\ RowsInv(Append(rows, e), gs)
<1> DEFINE more == Append(rows, e)
<1>1. /\ more \in Seq(Rows) /\ Len(more) = Len(rows) + 1
      /\ (\A i \in 1 .. Len(rows) : more[i] = rows[i])
      /\ more[Len(rows) + 1] = e
  BY AppendProperties
<1>2. /\ Len(rows) \in Nat /\ Capacity \in Nat
      /\ DOMAIN rows = 1 .. Len(rows) /\ DOMAIN more = 1 .. Len(rows) + 1
  BY <1>1, LenProperties, AutocompleteAssumption
<1> HIDE DEF more
<1>3. \A i \in DOMAIN more :
        \/ i \in DOMAIN rows /\ more[i] = rows[i]
        \/ i = Len(rows) + 1 /\ more[i] = e
  BY <1>1, <1>2
<1>4. \A i, j \in DOMAIN more : more[i].key = more[j].key => i = j
  BY <1>3 DEF RowsInv
<1>5. \A i \in DOMAIN more : Continued(more[i].key, more[i].value, gs)
  BY <1>3 DEF RowsInv
<1>6. QED BY <1>1, <1>2, <1>4, <1>5 DEF RowsInv, more

(* get leaves the rows as they are, but for their age.                     *)
LEMMA TouchedRows ==
  ASSUME NEW gs, cache \in Seq(Rows), RowsInv(cache, gs), NEW p
  PROVE  Touched(p) \in Seq(Rows) /\ RowsInv(Touched(p), gs)
<1>1. CASE Where(p) = 0
  BY <1>1 DEF Touched
<1>2. CASE Where(p) # 0
  <2>1. Where(p) \in 0 .. Len(cache) /\ cache[Where(p)].key = p /\ Len(cache) \in Nat
        /\ DOMAIN cache = 1 .. Len(cache)
    BY <1>2, WhereIs, LenProperties
  <2>2. PICK k \in DOMAIN cache : k = Where(p) /\ cache[k].key = p
    BY <1>2, <2>1
  <2>3. cache[k] \in Rows /\ Continued(cache[k].key, cache[k].value, gs)
    BY <2>1, <2>2, ElementOfSeq DEF RowsInv
  <2>4. /\ Others(p) \in Seq(Rows) /\ RowsInv(Others(p), gs)
        /\ \A i \in DOMAIN Others(p) : Others(p)[i].key # p
        /\ Len(Others(p)) = Len(cache) - 1
    BY <1>2, OthersAre
  <2>5. Len(Others(p)) < Capacity
    BY <2>1, <2>4, AutocompleteAssumption DEF RowsInv
  <2>6. Append(Others(p), cache[k]) \in Seq(Rows) /\ RowsInv(Append(Others(p), cache[k]), gs)
    BY <2>2, <2>3, <2>4, <2>5, RowAdded
  <2>7. QED BY <1>2, <2>2, <2>6 DEF Touched
<1>3. QED BY <1>1, <1>2

(* put: the oldest row goes when there is no room.                         *)
LEMMA StoredRows ==
  ASSUME NEW gs, cache \in Seq(Rows), RowsInv(cache, gs),
         NEW key \in Texts, NEW value \in Texts, Continued(key, value, gs)
  PROVE  Stored(key, value) \in Seq(Rows) /\ RowsInv(Stored(key, value), gs)
<1> DEFINE full == Where(key) = 0 /\ Len(cache) >= Capacity
           kept == IF full THEN Tail(cache) ELSE Others(key)
           e == [key |-> key, value |-> value]
<1>1. e \in Rows /\ e.key = key /\ e.value = value
  BY DEF Rows
<1>2. /\ Len(cache) \in Nat /\ DOMAIN cache = 1 .. Len(cache)
      /\ Capacity \in Nat \ {0} /\ Len(cache) <= Capacity
  BY LenProperties, AutocompleteAssumption DEF RowsInv
<1>3. /\ Others(key) \in Seq(Rows) /\ RowsInv(Others(key), gs)
      /\ \A i \in DOMAIN Others(key) : Others(key)[i].key # key
      /\ Len(Others(key)) = IF Where(key) = 0 THEN Len(cache) ELSE Len(cache) - 1
  BY OthersAre
<1>4. /\ kept \in Seq(Rows) /\ RowsInv(kept, gs) /\ Len(kept) < Capacity
      /\ \A i \in DOMAIN kept : kept[i].key # key
  <2>1. CASE full
    <3> DEFINE rest == Tail(cache)
               f == [i \in 1 .. Len(rest) |-> i + 1]
    <3>1. cache # <<>>
      BY <1>2, <2>1
    <3>2. /\ rest \in Seq(Rows) /\ Len(rest) = Len(cache) - 1
          /\ \A i \in 1 .. Len(rest) : rest[i] = cache[i + 1]
      BY <3>1, HeadTailProperties
    <3> HIDE DEF rest
    <3>3. \A i \in 1 .. Len(rest) : f[i] \in 1 .. Len(cache) /\ rest[i] = cache[f[i]]
      BY <1>2, <3>2
    <3>4. /\ f \in [1 .. Len(rest) -> 1 .. Len(cache)] /\ Len(rest) <= Len(cache)
          /\ \A i, j \in 1 .. Len(rest) : f[i] = f[j] => i = j
      BY <1>2, <3>2, <3>3
    <3> HIDE DEF f
    <3>5. RowsInv(rest, gs)
      BY <3>2, <3>3, <3>4, FewerRows
    <3>6. \A i \in DOMAIN rest : rest[i].key # key
      <4>1. \A i \in DOMAIN cache : cache[i].key # key
        BY <2>1, WhereIs
      <4>2. DOMAIN rest = 1 .. Len(rest)
        BY <3>2, LenProperties
      <4>3. QED BY <1>2, <3>3, <4>1, <4>2
    <3>7. Len(rest) < Capacity
      BY <1>2, <3>2
    <3>8. QED BY <2>1, <3>2, <3>5, <3>6, <3>7 DEF rest
  <2>2. CASE ~full
    <3>1. Len(Others(key)) < Capacity
      <4>1. Where(key) \in 0 .. Len(cache)
        BY WhereIs
      <4>2. CASE Where(key) = 0
        <5>1. Len(Others(key)) = Len(cache) /\ ~(Len(cache) >= Capacity)
          BY <1>3, <2>2, <4>2
        <5>2. QED BY <1>2, <5>1
      <4>3. CASE Where(key) # 0
        <5>1. Len(Others(key)) = Len(cache) - 1
          BY <1>3, <4>3
        <5>2. QED BY <1>2, <5>1
      <4>4. QED BY <4>2, <4>3
    <3>2. QED BY <1>3, <2>2, <3>1
  <2>3. QED BY <2>1, <2>2
<1>5. Stored(key, value) = Append(kept, e)
  BY DEF Stored
<1> HIDE DEF kept, e
<1>6. QED BY <1>1, <1>4, <1>5, RowAdded

-----------------------------------------------------------------------------
(* Steps: one call changes, and the generators grow.                       *)

(* All texts are over the characters of the inputs and chunks.             *)
LEMMA InputsAndChunks == Inputs \subseteq Texts /\ Chunks \subseteq Texts
BY TextAssumption DEF Texts, Characters

(* A generator follows itself.                                             *)
LEMMA GrowsAlike ==
  ASSUME NEW gs \in Seq(Generators)
  PROVE  Grows(gs, gs)
<1>1. ASSUME NEW i \in DOMAIN gs PROVE IsPrefix(gs[i].buffer, gs[i].buffer)
  <2>1. gs[i] \in Generators
    BY LenProperties, ElementOfSeq
  <2>2. gs[i].buffer \in Seq(Texts)
    BY <2>1, TextType
  <2>3. QED BY <2>2, PrefixIs, LenProperties
<1>2. QED BY <1>1 DEF Grows, Follows

OneGrown(gs, k, h, hs) ==
  /\ hs \in Seq(Generators) /\ Grows(gs, hs) /\ Len(hs) = Len(gs)
  /\ DOMAIN hs = DOMAIN gs
  /\ \A i \in DOMAIN gs : hs[i] = IF i = k THEN h ELSE gs[i]

(* One generator changes and the others stay.                              *)
LEMMA OneGrows ==
  ASSUME NEW gs \in Seq(Generators), NEW k \in DOMAIN gs, NEW h \in Generators,
         Follows(gs[k], h)
  PROVE  OneGrown(gs, k, h, [gs EXCEPT ![k] = h])
<1> DEFINE hs == [gs EXCEPT ![k] = h]
<1>1. k \in 1 .. Len(gs) /\ DOMAIN gs = 1 .. Len(gs)
  BY LenProperties
<1>2. hs \in Seq(Generators) /\ Len(hs) = Len(gs)
      /\ \A i \in 1 .. Len(gs) : hs[i] = IF i = k THEN h ELSE gs[i]
  BY <1>1, ExceptSeq
<1> HIDE DEF hs
<1>3. DOMAIN hs = DOMAIN gs
  BY <1>1, <1>2, LenProperties
<1>4. Grows(gs, hs)
  BY <1>1, <1>2, <1>3, GrowsAlike DEF Grows
<1>5. QED BY <1>1, <1>2, <1>3, <1>4 DEF OneGrown, hs

(* Cancelling the current generator takes nothing from its text, and then  *)
(* all have ended.                                                         *)
LEMMA CancelledGenerators ==
  ASSUME Inv
  PROVE  /\ Cancelled \in Seq(Generators) /\ Len(Cancelled) = Len(gens)
         /\ Grows(gens, Cancelled) /\ GeneratorsInv(Cancelled, pendingCompletion)
         /\ \A i \in DOMAIN Cancelled : Cancelled[i].ended
<1>1. gens \in Seq(Generators) /\ GeneratorsInv(gens, pendingCompletion)
  BY DEF Inv, Types
<1>2. CASE gens = <<>>
  <2>1. Cancelled = gens /\ \A i \in DOMAIN gens : FALSE
    BY <1>2 DEF Cancelled
  <2>2. QED BY <1>1, <2>1, GrowsAlike
<1>3. CASE gens # <<>>
  <2> DEFINE n == Len(gens)
             h == [gens[n] EXCEPT !.ended = TRUE]
             hs == Cancelled
  <2>1. n \in DOMAIN gens /\ DOMAIN gens = 1 .. n /\ n \in Nat
    BY <1>1, <1>3, LenProperties, EmptySeq
  <2>2. gens[n] \in Generators
    BY <1>1, <2>1, ElementOfSeq
  <2>3. h \in Generators /\ h.prefix = gens[n].prefix /\ h.buffer = gens[n].buffer
        /\ h.ended = TRUE /\ h.over = gens[n].over
    BY <2>2 DEF Generators
  <2>4. hs = [gens EXCEPT ![n] = h]
    BY <1>3 DEF Cancelled
  <2>5. IsPrefix(gens[n].buffer, h.buffer)
    BY <1>1, <2>1, <2>3, GrowsAlike DEF Grows, Follows
  <2> HIDE DEF h, hs, n
  <2>6. /\ hs \in Seq(Generators) /\ Grows(gens, hs) /\ Len(hs) = Len(gens)
        /\ DOMAIN hs = DOMAIN gens
        /\ \A i \in DOMAIN gens : hs[i] = IF i = n THEN h ELSE gens[i]
    <3>1. Follows(gens[n], h)
      BY <2>3, <2>5 DEF Follows
    <3>2. OneGrown(gens, n, h, [gens EXCEPT ![n] = h])
      BY <1>1, <2>1, <2>3, <3>1, OneGrows
    <3>3. QED BY <2>4, <3>2 DEF OneGrown
  <2>7. \A i \in DOMAIN hs : hs[i].ended
    <3>1. \A i \in DOMAIN gens : i # n => gens[i].ended
      BY <1>1 DEF GeneratorsInv, n
    <3>2. QED BY <2>3, <2>6, <3>1
  <2>8. Last(hs) = h /\ Last(gens) = gens[n]
    BY <2>1, <2>6 DEF Last, n
  <2>9. GeneratorsInv(hs, pendingCompletion)
    BY <1>1, <1>3, <2>3, <2>7, <2>8 DEF GeneratorsInv, Text
  <2>10. QED BY <2>6, <2>7, <2>9 DEF hs
<1>4. QED BY <1>2, <1>3

(* One call changes; the others do not notice.                             *)
LEMMA OneCall ==
  ASSUME Inv, NEW r \in Requests, NEW c \in Calls, req' = [req EXCEPT ![r] = c],
         gens' \in Seq(Generators), Grows(gens, gens'), RequestInv(c, gens')
  PROVE  req' \in [Requests -> Calls] /\ \A s \in Requests : RequestInv(req'[s], gens')
<1>1. req \in [Requests -> Calls] /\ gens \in Seq(Generators)
      /\ \A s \in Requests : RequestInv(req[s], gens)
  BY DEF Inv, Types
<1>2. req' \in [Requests -> Calls]
      /\ \A s \in Requests : req'[s] = IF s = r THEN c ELSE req[s]
  BY <1>1
<1>3. ASSUME NEW s \in Requests PROVE RequestInv(req'[s], gens')
  <2>1. CASE s = r
    BY <1>2, <2>1
  <2>2. CASE s # r
    <3>1. req'[s] = req[s] /\ req[s] \in Calls
      BY <1>1, <1>2, <2>2
    <3>2. RequestInv(req[s], gens')
      BY <1>1, <3>1, RequestStays
    <3>3. QED BY <3>1, <3>2
  <2>3. QED BY <2>1, <2>2
<1>4. QED BY <1>2, <1>3

(* A reader that was waiting is where it was.                              *)
LEMMA OneWoken ==
  ASSUME NEW gs, NEW q \in Calls, q.pc = "waiting", RequestInv(q, gs)
  PROVE  LET c == [q EXCEPT !.pc = "reading"] IN c \in Calls /\ RequestInv(c, gs)
<1> DEFINE c == [q EXCEPT !.pc = "reading"]
<1>1. "reading" \in States
  BY DEF States
<1>2. /\ c \in Calls /\ c.pc = "reading" /\ c.prefix = q.prefix /\ c.out = q.out
      /\ c.gen = q.gen /\ c.index = q.index /\ c.typed = q.typed
  BY <1>1, CallUpdates
<1> HIDE DEF c
<1>3. RequestInv(c, gs)
  BY <1>2 DEF RequestInv, Reads
<1>4. QED BY <1>2, <1>3 DEF c

(* So are all who waited for one generator.                                *)
LEMMA AllWoken ==
  ASSUME Inv, NEW i, req' = Woken(i), gens' \in Seq(Generators), Grows(gens, gens')
  PROVE  req' \in [Requests -> Calls] /\ \A s \in Requests : RequestInv(req'[s], gens')
<1>1. req \in [Requests -> Calls] /\ gens \in Seq(Generators)
      /\ \A s \in Requests : RequestInv(req[s], gens)
  BY DEF Inv, Types
<1>2. ASSUME NEW s \in Requests
      PROVE  req'[s] \in Calls /\ RequestInv(req'[s], gens')
  <2>1. req[s] \in Calls /\ RequestInv(req[s], gens')
    BY <1>1, RequestStays
  <2>2. CASE req[s].pc = "waiting" /\ req[s].gen = i
    <3>1. req'[s] = [req[s] EXCEPT !.pc = "reading"]
      BY <2>2 DEF Woken
    <3>2. QED BY <2>1, <2>2, <3>1, OneWoken
  <2>3. CASE ~(req[s].pc = "waiting" /\ req[s].gen = i)
    <3>1. req'[s] = req[s]
      BY <2>3 DEF Woken
    <3>2. QED BY <2>1, <3>1
  <2>4. QED BY <2>2, <2>3
<1>3. req' \in [Requests -> Calls]
  BY <1>2 DEF Woken
<1>4. QED BY <1>2, <1>3

(* Calls are numbered in the order in which they are made.                 *)
LEMMA Asked ==
  ASSUME Inv, NEW r \in Requests, req[r].pc # "idle"
  PROVE  r <= lastUUID
<1>1. lastUUID \in Nat /\ r \in Nat
  BY AutocompleteAssumption DEF Inv, Types, Requests
<1>2. ~(lastUUID < r)
  BY Idle DEF Inv
<1>3. QED BY <1>1, <1>2

(* The invariant, when a call changes and generators grow.                 *)
LEMMA CallStep ==
  ASSUME Inv, NEW r \in Requests, NEW c \in Calls, req' = [req EXCEPT ![r] = c],
         lastUUID' \in 0 .. MaxRequests, lastUUID <= lastUUID', r <= lastUUID',
         debouncing' \in BOOLEAN,
         gens' \in Seq(Generators), Grows(gens, gens'), RequestInv(c, gens'),
         pendingCompletion' \in Texts, GeneratorsInv(gens', pendingCompletion'),
         cache' \in Seq(Rows), RowsInv(cache', gens')
  PROVE  Inv'
<1>1. req' \in [Requests -> Calls] /\ \A s \in Requests : RequestInv(req'[s], gens')
  BY OneCall
<1>2. \A s \in Requests : lastUUID' < s => req'[s] = IdleRequest
  <2> SUFFICES ASSUME NEW s \in Requests, lastUUID' < s PROVE req'[s] = IdleRequest
    OBVIOUS
  <2>1. lastUUID \in Int /\ lastUUID' \in Int /\ s \in Int /\ r \in Int
    BY AutocompleteAssumption DEF Inv, Types, Requests
  <2>2. s # r /\ lastUUID < s
    BY <2>1
  <2>3. QED BY <2>2 DEF Inv, Types
<1>3. QED BY <1>1, <1>2 DEF Inv, Types

(* Nothing but a call changes.                                             *)
LEMMA CallOnly ==
  ASSUME Inv, NEW r \in Requests, req[r].pc # "idle",
         NEW c \in Calls, RequestInv(c, gens), req' = [req EXCEPT ![r] = c],
         UNCHANGED <<lastUUID, debouncing, gens, pendingCompletion, cache>>
  PROVE  Inv'
<1>1. gens' \in Seq(Generators) /\ Grows(gens, gens')
  BY GrowsAlike DEF Inv, Types
<1>2. RequestInv(c, gens') /\ GeneratorsInv(gens', pendingCompletion') /\ RowsInv(cache', gens')
  BY DEF Inv
<1>3. /\ lastUUID' \in 0 .. MaxRequests /\ lastUUID <= lastUUID' /\ r <= lastUUID'
      /\ debouncing' \in BOOLEAN /\ pendingCompletion' \in Texts /\ cache' \in Seq(Rows)
  BY Asked, AutocompleteAssumption DEF Inv, Types
<1>4. QED BY <1>1, <1>2, <1>3, CallStep

(* A call that goes on to another step of the same kind.                   *)
LEMMA Onward ==
  ASSUME NEW gs, NEW q \in Calls, RequestInv(q, gs), NEW pc \in States,
         \/ q.pc \in {"debouncing", "preparing"} /\ pc \in {"preparing", "starting"}
         \/ q.pc \in {"stopped", "ended"} /\ q.out # <<>> /\ pc = "saving"
  PROVE  LET c == [q EXCEPT !.pc = pc] IN c \in Calls /\ RequestInv(c, gs)
<1> DEFINE c == [q EXCEPT !.pc = pc]
<1>1. /\ c \in Calls /\ c.pc = pc /\ c.prefix = q.prefix /\ c.out = q.out
      /\ c.gen = q.gen /\ c.index = q.index /\ c.typed = q.typed
  BY CallUpdates
<1> HIDE DEF c
<1>2. RequestInv(c, gs)
  BY <1>1 DEF RequestInv, Reads
<1>3. QED BY <1>1, <1>2 DEF c

(* A completion that continues its prefix may be shown.                    *)
LEMMA Shown ==
  ASSUME NEW gs, NEW prefix \in Texts, NEW out \in Texts,
         Continued(prefix, out, gs) \/ AfterKey(prefix, out, gs)
  PROVE  LET c == [IdleRequest EXCEPT !.pc = "shown", !.prefix = prefix, !.out = out]
         IN  c \in Calls /\ RequestInv(c, gs)
<1> DEFINE c == [IdleRequest EXCEPT !.pc = "shown", !.prefix = prefix, !.out = out]
<1>1. "shown" \in States
  BY DEF States
<1>2. c \in Calls /\ c.pc = "shown" /\ c.prefix = prefix /\ c.out = out
  BY <1>1, Idle DEF Calls
<1> HIDE DEF c
<1>3. Continued(c.prefix, c.out, gs) \/ AfterKey(c.prefix, c.out, gs)
  BY <1>2
<1>4. RequestInv(c, gs)
  BY <1>2, <1>3, NotReading
<1>5. QED BY <1>2, <1>4 DEF c

(* The actions: first those of the debouncer and of the stream of a        *)
(* request.                                                                *)
LEMMA AskStep == ASSUME Inv, NEW r \in Requests, Ask(r) PROVE Inv'
<1>1. PICK p \in Inputs :
        req' = [req EXCEPT ![r] = [@ EXCEPT !.prefix = p,
                  !.pc = IF debouncing THEN "debouncing" ELSE "preparing"]]
  BY DEF Ask
<1> DEFINE pc == IF debouncing THEN "debouncing" ELSE "preparing"
           c == [IdleRequest EXCEPT !.prefix = p, !.pc = pc]
<1>2. req[r] = IdleRequest /\ lastUUID' = r
  <2>1. lastUUID \in Int /\ r = lastUUID + 1
    BY DEF Inv, Types, Ask
  <2>2. lastUUID < r
    BY <2>1
  <2>3. QED BY <2>2 DEF Inv, Ask
<1>3. p \in Texts /\ pc \in {"debouncing", "preparing"} /\ pc \in States
  BY InputsAndChunks DEF States
<1> HIDE DEF pc
<1>4. c \in Calls /\ c.pc = pc /\ c.index = 0 /\ c.out = <<>>
  BY <1>3, Idle DEF Calls
<1>5. req' = [req EXCEPT ![r] = c]
  BY <1>1, <1>2 DEF pc
<1> HIDE DEF c
<1>6. RequestInv(c, gens)
  BY <1>3, <1>4 DEF RequestInv, Reads
<1>7. gens' \in Seq(Generators) /\ Grows(gens, gens') /\ RequestInv(c, gens')
      /\ GeneratorsInv(gens', pendingCompletion') /\ RowsInv(cache', gens')
  BY <1>6, GrowsAlike DEF Inv, Types, Ask
<1>8. /\ lastUUID' \in 0 .. MaxRequests /\ lastUUID <= lastUUID' /\ r <= lastUUID'
      /\ debouncing' \in BOOLEAN /\ pendingCompletion' \in Texts /\ cache' \in Seq(Rows)
  BY <1>2, AutocompleteAssumption DEF Inv, Types, Ask, Requests
<1>9. QED BY <1>4, <1>5, <1>7, <1>8, CallStep

LEMMA DebouncedStep == ASSUME Inv, NEW r \in Requests, Debounced(r) PROVE Inv'
<1>1. /\ req[r].pc = "debouncing" /\ req[r].pc # "idle"
      /\ req[r] \in Calls /\ RequestInv(req[r], gens) /\ "preparing" \in States
  BY DEF Debounced, Inv, Types, States
<1>2. UNCHANGED <<lastUUID, debouncing, gens, pendingCompletion, cache>>
  BY DEF Debounced
<1>3. CASE lastUUID = r
  <2> DEFINE c == [req[r] EXCEPT !.pc = "preparing"]
  <2>1. c \in Calls /\ RequestInv(c, gens)
    BY <1>1, Onward
  <2>2. req' = [req EXCEPT ![r] = c]
    BY <1>3 DEF Debounced, Goto
  <2> HIDE DEF c
  <2>3. QED BY <1>1, <1>2, <2>1, <2>2, CallOnly
<1>4. CASE lastUUID # r
  <2> DEFINE c == [IdleRequest EXCEPT !.pc = "dropped"]
  <2>1. c \in Calls /\ RequestInv(c, gens)
    BY Dropped
  <2>2. req' = [req EXCEPT ![r] = c]
    BY <1>4 DEF Debounced, Drop
  <2> HIDE DEF c
  <2>3. QED BY <1>1, <1>2, <2>1, <2>2, CallOnly
<1>5. QED BY <1>3, <1>4

LEMMA AbortStep == ASSUME Inv, NEW r \in Requests, Abort(r) PROVE Inv'
<1> DEFINE q == req[r]
           c == [q EXCEPT !.aborted = TRUE]
<1>1. q.pc \in {"reading", "waiting"} /\ q \in Calls /\ RequestInv(q, gens)
  BY DEF Abort, Inv, Types
<1>2. UNCHANGED <<lastUUID, debouncing, gens, pendingCompletion, cache>>
      /\ req' = [req EXCEPT ![r] = c]
  BY DEF Abort
<1>3. /\ c \in Calls /\ c.pc = q.pc /\ c.prefix = q.prefix /\ c.out = q.out
      /\ c.gen = q.gen /\ c.index = q.index /\ c.typed = q.typed
  BY <1>1 DEF Calls
<1> HIDE DEF c
<1>4. RequestInv(c, gens)
  BY <1>1, <1>3 DEF RequestInv, Reads
<1>5. QED BY <1>1, <1>2, <1>3, <1>4, CallOnly

LEMMA FilterThrowsStep == ASSUME Inv, NEW r \in Requests, FilterThrows(r) PROVE Inv'
<1> DEFINE c == [IdleRequest EXCEPT !.pc = "dropped"]
<1>1. req[r].pc # "idle" /\ req' = [req EXCEPT ![r] = c]
      /\ UNCHANGED <<lastUUID, debouncing, gens, pendingCompletion, cache>>
  BY DEF FilterThrows, Drop
<1>2. c \in Calls /\ RequestInv(c, gens)
  BY Dropped
<1> HIDE DEF c
<1>3. QED BY <1>1, <1>2, CallOnly

LEMMA CompleteStep == ASSUME Inv, NEW r \in Requests, Complete(r) PROVE Inv'
<1>1. /\ req[r].pc # "idle" /\ req[r].pc \in {"stopped", "ended"} /\ req[r] \in Calls /\ RequestInv(req[r], gens)
      /\ "saving" \in States
      /\ UNCHANGED <<lastUUID, debouncing, gens, pendingCompletion, cache>>
  BY DEF Complete, Inv, Types, States
<1>2. CASE req[r].aborted \/ req[r].out = <<>>
  <2> DEFINE c == [IdleRequest EXCEPT !.pc = "dropped"]
  <2>1. c \in Calls /\ RequestInv(c, gens)
    BY Dropped
  <2>2. req' = [req EXCEPT ![r] = c]
    BY <1>2 DEF Complete, Drop
  <2> HIDE DEF c
  <2>3. QED BY <1>1, <2>1, <2>2, CallOnly
<1>3. CASE ~(req[r].aborted \/ req[r].out = <<>>)
  <2> DEFINE c == [req[r] EXCEPT !.pc = "saving"]
  <2>1. c \in Calls /\ RequestInv(c, gens)
    BY <1>1, <1>3, Onward
  <2>2. req' = [req EXCEPT ![r] = c]
    BY <1>3 DEF Complete, Goto
  <2> HIDE DEF c
  <2>3. QED BY <1>1, <2>1, <2>2, CallOnly
<1>4. QED BY <1>2, <1>3

LEMMA ReadStep == ASSUME Inv, NEW r \in Requests, Read(r) PROVE Inv'
<1> DEFINE q == req[r]
           g == gens[q.gen]
<1>1. /\ q.pc = "reading" /\ q.pc # "idle" /\ q \in Calls /\ RequestInv(q, gens)
      /\ gens \in Seq(Generators)
      /\ UNCHANGED <<lastUUID, debouncing, gens, pendingCompletion, cache>>
  BY DEF Read, Inv, Types
<1>2. CASE q.index < Len(g.buffer)
  <2> DEFINE c == TakeChunk(q, g.buffer[q.index + 1])
  <2>1. c \in Calls /\ RequestInv(c, gens)
    BY <1>1, <1>2, ChunkTaken
  <2>2. req' = [req EXCEPT ![r] = c]
    BY <1>2 DEF Read
  <2> HIDE DEF c
  <2>3. QED BY <1>1, <2>1, <2>2, CallOnly
<1>3. CASE ~(q.index < Len(g.buffer))
  <2> DEFINE pc == IF g.ended THEN "ended" ELSE "waiting"
             c == [q EXCEPT !.pc = pc]
  <2>1. req' = [req EXCEPT ![r] = c]
    BY <1>3 DEF Read
  <2>2. pc \in States /\ (pc = "ended" => g.ended) /\ pc \in {"ended", "waiting"}
    BY DEF States
  <2> HIDE DEF pc
  <2>3. /\ c \in Calls /\ c.pc = pc /\ c.prefix = q.prefix /\ c.out = q.out
        /\ c.gen = q.gen /\ c.index = q.index /\ c.typed = q.typed
    BY <1>1, <2>2, CallUpdates
  <2> HIDE DEF c
  <2>4. q.index = Len(g.buffer)
    <3>1. q.gen \in DOMAIN gens /\ q.index \in 0 .. Len(g.buffer)
      BY <1>1 DEF RequestInv, Reads
    <3>2. g \in Generators
      BY <1>1, <3>1, LenProperties, ElementOfSeq
    <3>3. Len(g.buffer) \in Nat
      BY <3>2, TextType, LenProperties
    <3>4. QED BY <1>3, <3>1, <3>3
  <2>5. RequestInv(c, gens)
    BY <1>1, <2>2, <2>3, <2>4 DEF RequestInv, Reads
  <2>6. QED BY <1>1, <2>1, <2>3, <2>5, CallOnly
<1>4. QED BY <1>2, <1>3

LEMMA FilterStopsStep == ASSUME Inv, NEW r \in Requests, FilterStops(r) PROVE Inv'
<1>1. /\ req[r].pc # "idle" /\ req[r].pc # "shown" /\ req' = [req EXCEPT ![r] = Stopped(req[r])]
      /\ gens' \in {gens, Cancelled}
      /\ UNCHANGED <<lastUUID, debouncing, pendingCompletion, cache>>
  BY DEF FilterStops
<1>2. /\ req[r] \in Calls /\ RequestInv(req[r], gens) /\ gens \in Seq(Generators)
      /\ GeneratorsInv(gens, pendingCompletion) /\ RowsInv(cache, gens) /\ cache \in Seq(Rows)
  BY DEF Inv, Types
<1>3. /\ gens' \in Seq(Generators) /\ Grows(gens, gens')
      /\ GeneratorsInv(gens', pendingCompletion')
  BY <1>1, <1>2, GrowsAlike, CancelledGenerators
<1>4. Stopped(req[r]) \in Calls /\ RequestInv(Stopped(req[r]), gens)
  BY <1>1, <1>2, StreamLeft DEF RequestInv
<1>5. RequestInv(Stopped(req[r]), gens') /\ RowsInv(cache', gens')
  BY <1>1, <1>2, <1>3, <1>4, RequestStays, RowsStay
<1>6. /\ lastUUID' \in 0 .. MaxRequests /\ lastUUID <= lastUUID' /\ r <= lastUUID'
      /\ debouncing' \in BOOLEAN /\ pendingCompletion' \in Texts /\ cache' \in Seq(Rows)
  BY <1>1, Asked, AutocompleteAssumption DEF Inv, Types
<1>7. QED BY <1>1, <1>3, <1>4, <1>5, <1>6, CallStep

(* A call changes and so does the cache.                                   *)
LEMMA CallAndCache ==
  ASSUME Inv, NEW r \in Requests, req[r].pc # "idle",
         NEW c \in Calls, RequestInv(c, gens), req' = [req EXCEPT ![r] = c],
         UNCHANGED <<lastUUID, debouncing, gens, pendingCompletion>>,
         cache' \in Seq(Rows), RowsInv(cache', gens)
  PROVE  Inv'
<1>1. gens' \in Seq(Generators) /\ Grows(gens, gens')
  BY GrowsAlike DEF Inv, Types
<1>2. RequestInv(c, gens') /\ GeneratorsInv(gens', pendingCompletion') /\ RowsInv(cache', gens')
  BY DEF Inv
<1>3. /\ lastUUID' \in 0 .. MaxRequests /\ lastUUID <= lastUUID' /\ r <= lastUUID'
      /\ debouncing' \in BOOLEAN /\ pendingCompletion' \in Texts
  BY Asked, AutocompleteAssumption DEF Inv, Types
<1>4. QED BY <1>1, <1>2, <1>3, CallStep

(* The cache is read: a row that is a hit continues the prefix.            *)
LEMMA LookupStep == ASSUME Inv, NEW r \in Requests, Lookup(r) PROVE Inv'
<1> DEFINE q == req[r]
           onward == [q EXCEPT !.pc = "starting"]
<1>1. /\ q.pc = "preparing" /\ q.pc # "idle" /\ q \in Calls /\ RequestInv(q, gens)
      /\ q.prefix \in Texts
      /\ UNCHANGED <<lastUUID, debouncing, gens, pendingCompletion>>
      /\ cache \in Seq(Rows) /\ RowsInv(cache, gens)
  BY DEF Lookup, Inv, Types, Calls
<1>2. onward \in Calls /\ RequestInv(onward, gens)
  <2>1. "starting" \in States
    BY DEF States
  <2>2. QED BY <1>1, <2>1, Onward
<1>3. CASE \E rows : Miss(r, rows)
  <2>1. req' = [req EXCEPT ![r] = onward] /\ UNCHANGED cache
    BY <1>3 DEF Miss, Goto
  <2> HIDE DEF onward
  <2>2. QED BY <1>1, <1>2, <2>1, CallAndCache
<1>4. CASE \E i \in Row(q.prefix) : Hit(r, i)
  <2>1. PICK i \in Row(q.prefix) : Hit(r, i)
    BY <1>4
  <2> DEFINE key == cache[i].key
             value == cache[i].value
             out == Sliced(value, q.prefix, key)
             shown == [IdleRequest EXCEPT !.pc = "shown", !.prefix = q.prefix, !.out = out]
  <2>2. i \in DOMAIN cache /\ Like(q.prefix, key)
    BY DEF Row
  <2>3. cache[i] \in Rows /\ Continued(key, value, gens)
    BY <1>1, <2>2, LenProperties, ElementOfSeq DEF RowsInv
  <2>4. key \in Texts /\ value \in Texts
    BY <2>3 DEF Rows
  <2>5. /\ Completes(value, Rest(q.prefix, Len(key)))
        /\ cache' = Touched(q.prefix)
        /\ IF out = <<>> THEN req' = [req EXCEPT ![r] = onward]
           ELSE req' = [req EXCEPT ![r] = shown]
    BY <2>1 DEF Hit, Goto, Show
  <2>6. cache' \in Seq(Rows) /\ RowsInv(cache', gens)
    BY <1>1, <2>5, TouchedRows
  <2> HIDE DEF key, value
  <2>7. gens \in Seq(Generators)
    BY DEF Inv, Types
  <2>8. out \in Texts /\ AfterKey(q.prefix, out, gens)
    BY <1>1, <2>2, <2>3, <2>4, <2>5, <2>7, FromRow
  <2> HIDE DEF out
  <2>9. shown \in Calls /\ RequestInv(shown, gens)
    BY <1>1, <2>8, Shown
  <2> HIDE DEF shown, onward
  <2>10. CASE out = <<>>
    BY <1>1, <1>2, <2>5, <2>6, <2>10, CallAndCache
  <2>11. CASE out # <<>>
    BY <1>1, <2>5, <2>6, <2>9, <2>11, CallAndCache
  <2>12. QED BY <2>10, <2>11
<1>5. QED BY <1>3, <1>4 DEF Lookup

(* The cache is written: what is saved continues the prefix.               *)
LEMMA SaveStep == ASSUME Inv, NEW r \in Requests, Save(r) PROVE Inv'
<1> DEFINE q == req[r]
           shown == [IdleRequest EXCEPT !.pc = "shown", !.prefix = q.prefix, !.out = q.out]
<1>1. /\ q.pc # "idle" /\ q \in Calls /\ RequestInv(q, gens)
      /\ q.prefix \in Texts /\ q.out \in Texts
      /\ req' = [req EXCEPT ![r] = shown] /\ cache' = Stored(q.prefix, q.out)
      /\ UNCHANGED <<lastUUID, debouncing, gens, pendingCompletion>>
      /\ cache \in Seq(Rows) /\ RowsInv(cache, gens)
  BY DEF Save, Show, Inv, Types, Calls
<1>2. Continued(q.prefix, q.out, gens)
  <2>1. q.pc = "saving"
    BY DEF Save
  <2>2. QED BY <1>1, <2>1 DEF RequestInv
<1>3. shown \in Calls /\ RequestInv(shown, gens)
  BY <1>1, <1>2, Shown
<1>4. cache' \in Seq(Rows) /\ RowsInv(cache', gens)
  BY <1>1, <1>2, StoredRows
<1> HIDE DEF shown
<1>5. QED BY <1>1, <1>3, <1>4, CallAndCache

(* A stream is reused only when the prefix begins what it has given, so    *)
(* that the reader can skip what has been typed; or a new one is begun.    *)
LEMMA StartStep == ASSUME Inv, NEW r \in Requests, Start(r) PROVE Inv'
<1> DEFINE q == req[r]
           p == q.prefix
<1>1. /\ q.pc = "starting" /\ q.pc # "idle" /\ q \in Calls /\ RequestInv(q, gens)
      /\ p \in Texts /\ p \in Seq(Characters) /\ q.index = 0 /\ q.out = <<>> /\ <<>> \in Texts
      /\ gens \in Seq(Generators) /\ GeneratorsInv(gens, pendingCompletion)
      /\ cache \in Seq(Rows) /\ RowsInv(cache, gens)
      /\ UNCHANGED <<lastUUID, debouncing, cache>>
  BY EmptySeq DEF Start, Inv, Types, Calls, RequestInv, Texts
<1>2. /\ lastUUID' \in 0 .. MaxRequests /\ lastUUID <= lastUUID' /\ r <= lastUUID'
      /\ debouncing' \in BOOLEAN
  BY <1>1, Asked, AutocompleteAssumption DEF Inv, Types
(* A call that begins to read.                                             *)
<1>3. ASSUME NEW gs \in Seq(Generators), NEW gen \in DOMAIN gs, NEW typed \in Texts,
             NEW multiline \in BOOLEAN,
             IsPrefix(p, Text(gs[gen])), gs[gen].prefix \o typed = p
      PROVE  LET c == [q EXCEPT !.pc = "reading", !.multiline = multiline,
                                !.gen = gen, !.typed = typed]
             IN  c \in Calls /\ RequestInv(c, gs)
  <2> DEFINE c == [q EXCEPT !.pc = "reading", !.multiline = multiline,
                            !.gen = gen, !.typed = typed]
  <2>1. gen \in Nat /\ "reading" \in States /\ gs[gen] \in Generators
    BY <1>3, LenProperties, ElementOfSeq DEF States
  <2>2. /\ c \in Calls /\ c.pc = "reading" /\ c.prefix = p /\ c.out = <<>>
        /\ c.gen = gen /\ c.index = 0 /\ c.typed = typed
    BY <1>1, <2>1 DEF Calls
  <2> HIDE DEF c
  <2>3. p \o <<>> = p
    BY <1>1, ConcatEmptySeq
  <2>4. Given(gs[gen], 0) \o typed = p \o <<>>
    BY <1>3, <2>1, <2>3, TextType
  <2>5. 0 \in 0 .. Len(gs[gen].buffer)
    BY <2>1, TextType, LenProperties
  <2>6. RequestInv(c, gs)
    BY <1>3, <2>2, <2>4, <2>5 DEF RequestInv, Reads
  <2>7. QED BY <2>2, <2>6 DEF c
<1>4. CASE ShouldReuseExistingGenerator(p)
  <2> DEFINE n == Len(gens)
             typed == Rest(p, Len(Last(gens).prefix))
  <2>1. PICK multiline \in BOOLEAN :
          req' = [req EXCEPT ![r] = [@ EXCEPT !.pc = "reading", !.multiline = multiline,
                                              !.gen = n, !.typed = typed]]
    BY <1>4 DEF Start
  <2>2. UNCHANGED <<gens, pendingCompletion>>
    BY <1>4 DEF Start
  <2>3. /\ gens # <<>> /\ IsPrefix(p, Last(gens).prefix \o pendingCompletion)
        /\ Len(Last(gens).prefix) <= Len(p)
    BY <1>4 DEF ShouldReuseExistingGenerator
  <2>4. n \in DOMAIN gens /\ Last(gens) = gens[n] /\ gens[n] \in Generators
    BY <1>1, <2>3, LenProperties, EmptySeq, ElementOfSeq DEF Last
  <2>5. IsPrefix(p, Text(gens[n]))
    BY <1>1, <2>3, <2>4 DEF GeneratorsInv
  <2>6. /\ gens[n].prefix \in Seq(Characters) /\ Text(gens[n]) \in Seq(Characters)
        /\ IsPrefix(gens[n].prefix, Text(gens[n]))
    <3>1. 0 \in 0 .. Len(gens[n].buffer)
      BY <2>4, TextType, LenProperties
    <3>2. QED BY <2>4, <3>1, TextType DEF Texts
  <2>7. IsPrefix(gens[n].prefix, p)
    <3>1. Len(p) \in Nat /\ Len(gens[n].prefix) \in Nat /\ Len(gens[n].prefix) <= Len(p)
      BY <1>1, <2>3, <2>4, <2>6, LenProperties
    <3>2. /\ \A i \in 1 .. Len(p) : p[i] = Text(gens[n])[i]
          /\ \A i \in 1 .. Len(gens[n].prefix) : gens[n].prefix[i] = Text(gens[n])[i]
      BY <1>1, <2>5, <2>6, PrefixIs
    <3>3. \A i \in 1 .. Len(gens[n].prefix) : gens[n].prefix[i] = p[i]
      BY <3>1, <3>2
    <3>4. p \in Seq(Characters) /\ gens[n].prefix \in Seq(Characters)
      BY <1>1, <2>6
    <3>5. Len(gens[n].prefix) <= Len(p)
      BY <3>1
    <3> HIDE DEF n, p
    <3>6. QED BY <3>3, <3>4, <3>5, PrefixIs
  <2>8. typed \in Texts /\ gens[n].prefix \o typed = p
    <3>1. p \in Seq(Characters) /\ gens[n].prefix \in Seq(Characters)
          /\ Last(gens).prefix = gens[n].prefix
      BY <1>1, <2>4, <2>6
    <3>2. Len(gens[n].prefix) \in Nat
      BY <3>1, LenProperties
    <3>3. Rest(p, Len(gens[n].prefix)) \in Seq(Characters)
      BY <3>1, <3>2, RestIs
    <3>4. gens[n].prefix \o Rest(p, Len(gens[n].prefix)) = p
      BY <2>7, <3>1, PrefixAndRest
    <3>5. typed = Rest(p, Len(gens[n].prefix))
      BY <3>1
    <3>6. QED BY <3>3, <3>4, <3>5 DEF Texts
  <2> DEFINE c == [q EXCEPT !.pc = "reading", !.multiline = multiline,
                            !.gen = n, !.typed = typed]
  <2> HIDE DEF typed, n
  <2>9. c \in Calls /\ RequestInv(c, gens)
    BY <1>1, <1>3, <2>4, <2>5, <2>8
  <2>10. req' = [req EXCEPT ![r] = c]
    BY <2>1
  <2> HIDE DEF c
  <2>11. QED BY <1>1, <2>2, <2>9, <2>10, CallOnly
<1>5. CASE ~ShouldReuseExistingGenerator(p)
  <2> DEFINE n == Len(gens) + 1
             h == NewGenerator(p)
             hs == Append(Cancelled, h)
  <2>1. PICK multiline \in BOOLEAN :
          req' = [req EXCEPT ![r] = [@ EXCEPT !.pc = "reading", !.multiline = multiline,
                                              !.gen = n, !.typed = <<>>]]
    BY <1>5 DEF Start
  <2>2. gens' = hs /\ pendingCompletion' = <<>>
    BY <1>5 DEF Start
  <2>3. /\ Cancelled \in Seq(Generators) /\ Len(Cancelled) = Len(gens)
        /\ Grows(gens, Cancelled) /\ \A i \in DOMAIN Cancelled : Cancelled[i].ended
    BY CancelledGenerators
  <2>4. h \in Generators /\ h.prefix = p /\ h.buffer = <<>> /\ ~h.over
    <3>1. <<>> \in Seq(Texts)
      BY EmptySeq
    <3>2. QED BY <1>1, <3>1 DEF NewGenerator, Generators
  <2>5. p \o <<>> = p /\ Text(h) = p
    <3>1. Given(h, 0) = p /\ Len(h.buffer) = 0
      BY <2>4, TextType, EmptySeq
    <3>2. Text(h) = p
      BY <2>4, <3>1, TextType
    <3>3. QED BY <1>1, <3>2, ConcatEmptySeq
  <2> HIDE DEF h
  <2>6. /\ hs \in Seq(Generators) /\ Len(hs) = n
        /\ (\A i \in 1 .. Len(Cancelled) : hs[i] = Cancelled[i])
        /\ hs[n] = h
    BY <2>3, <2>4, AppendProperties
  <2> HIDE DEF hs
  <2>7. /\ Len(gens) \in Nat /\ DOMAIN gens = 1 .. Len(gens)
        /\ DOMAIN Cancelled = 1 .. Len(gens) /\ DOMAIN hs = 1 .. n
    BY <1>1, <2>3, <2>6, LenProperties
  <2>8. Grows(gens, hs)
    BY <2>3, <2>6, <2>7 DEF Grows
  <2>9. GeneratorsInv(hs, <<>>)
    <3>1. \A i \in DOMAIN hs : i # n => i \in DOMAIN Cancelled /\ hs[i] = Cancelled[i]
      BY <2>3, <2>6, <2>7
    <3>2. \A i \in DOMAIN hs : (hs[i].over \/ i # Len(hs)) => hs[i].ended
      BY <2>3, <2>4, <2>6, <3>1
    <3>3. Last(hs) = h
      BY <2>6 DEF Last
    <3>4. QED BY <2>4, <2>5, <3>2, <3>3 DEF GeneratorsInv
  <2> DEFINE c == [q EXCEPT !.pc = "reading", !.multiline = multiline,
                            !.gen = n, !.typed = <<>>]
  <2>10. n \in DOMAIN hs /\ IsPrefix(p, Text(hs[n])) /\ hs[n].prefix \o <<>> = p
    <3>1. IsPrefix(p, p)
      BY <1>1, PrefixIs, LenProperties
    <3>2. QED BY <2>4, <2>5, <2>6, <2>7, <3>1
  <2> HIDE DEF n
  <2>11. c \in Calls /\ RequestInv(c, hs)
    BY <1>1, <1>3, <2>6, <2>10
  <2>12. req' = [req EXCEPT ![r] = c]
    BY <2>1
  <2> HIDE DEF c
  <2>13. RowsInv(cache', hs) /\ cache' \in Seq(Rows)
    BY <1>1, <2>6, <2>8, RowsStay
  <2>14. /\ gens' \in Seq(Generators) /\ Grows(gens, gens') /\ RequestInv(c, gens')
         /\ pendingCompletion' \in Texts /\ GeneratorsInv(gens', pendingCompletion')
         /\ RowsInv(cache', gens')
    BY <1>1, <2>2, <2>6, <2>8, <2>9, <2>11, <2>13
  <2>15. QED BY <1>2, <2>11, <2>12, <2>13, <2>14, CallStep
<1>6. QED BY <1>4, <1>5

-----------------------------------------------------------------------------
(* The generators.                                                         *)

(* A generator changes and whoever waits for it is woken.                  *)
LEMMA GeneratorStep ==
  ASSUME Inv, NEW i, req' = Woken(i), gens' \in Seq(Generators), Grows(gens, gens'),
         pendingCompletion' \in Texts, GeneratorsInv(gens', pendingCompletion'),
         UNCHANGED <<lastUUID, debouncing, cache>>
  PROVE  Inv'
<1>1. req' \in [Requests -> Calls] /\ \A s \in Requests : RequestInv(req'[s], gens')
  BY AllWoken
<1>2. \A s \in Requests : lastUUID' < s => req'[s] = IdleRequest
  <2> SUFFICES ASSUME NEW s \in Requests, lastUUID < s PROVE req'[s] = IdleRequest
    OBVIOUS
  <2>1. req[s] = IdleRequest /\ req[s].pc # "waiting"
    BY Idle DEF Inv
  <2>2. QED BY <2>1 DEF Woken
<1>3. cache' \in Seq(Rows) /\ RowsInv(cache', gens')
  BY RowsStay DEF Inv, Types
<1>4. lastUUID' \in 0 .. MaxRequests /\ debouncing' \in BOOLEAN
  BY DEF Inv, Types
<1>5. QED BY <1>1, <1>2, <1>3, <1>4 DEF Inv, Types

(* A chunk more at the end of the buffer is a chunk more at the end of the *)
(* text.                                                                   *)
LEMMA ChunkAdded ==
  ASSUME NEW g \in Generators, NEW c \in Texts
  PROVE  LET h == [g EXCEPT !.buffer = Append(@, c)]
         IN  /\ h \in Generators /\ h.prefix = g.prefix /\ IsPrefix(g.buffer, h.buffer)
             /\ h.ended = g.ended /\ h.over = g.over
             /\ Text(h) = Text(g) \o c
<1> DEFINE bs == g.buffer
           cs == Append(bs, c)
           h == [g EXCEPT !.buffer = cs]
<1>1. bs \in Seq(Texts) /\ g.prefix \in Seq(Characters) /\ bs \in Seq(Seq(Characters))
      /\ c \in Seq(Characters)
  BY TextType DEF Texts
<1>2. /\ cs \in Seq(Texts) /\ Len(bs) \in Nat /\ Len(cs) \in Nat /\ Len(bs) <= Len(cs)
      /\ \A i \in 1 .. Len(bs) : bs[i] = cs[i]
  BY <1>1, AppendProperties, LenProperties
<1>3. FlattenSeq(cs) = FlattenSeq(bs) \o c
  BY <1>1, FlattenAppend
<1> HIDE DEF cs
<1>4. IsPrefix(bs, cs)
  <2> HIDE DEF bs
  <2>1. QED BY <1>1, <1>2, PrefixIs
<1>5. /\ h \in Generators /\ h.prefix = g.prefix /\ h.buffer = cs
      /\ h.ended = g.ended /\ h.over = g.over
  BY <1>2 DEF Generators
<1>6. FlattenSeq(bs) \in Seq(Characters)
  BY <1>1, FlattenType
<1>7. Associates(g.prefix, FlattenSeq(bs), c)
  BY <1>1, <1>6, ConcatAssociates
<1> HIDE DEF h
<1>8. Text(h) = Text(g) \o c
  BY <1>3, <1>5, <1>7 DEF Text, Associates
<1>9. QED BY <1>4, <1>5, <1>8 DEF h, cs

(* Only the current generator has not ended, so that pendingCompletion is  *)
(* about the one that gets the chunk.                                      *)
LEMMA YieldsStep == ASSUME Inv, NEW i \in DOMAIN gens, Yields(i) PROVE Inv'
<1> DEFINE g == gens[i]
<1>1. /\ ~g.over /\ ~g.ended /\ req' = Woken(i)
      /\ UNCHANGED <<lastUUID, debouncing, cache>>
  BY DEF Yields
<1>2. PICK c \in Chunks :
        /\ gens' = [gens EXCEPT ![i].buffer = Append(@, c)]
        /\ pendingCompletion' = pendingCompletion \o c
  BY DEF Yields
<1>3. /\ gens \in Seq(Generators) /\ GeneratorsInv(gens, pendingCompletion)
      /\ pendingCompletion \in Texts
  BY DEF Inv, Types
<1>4. g \in Generators /\ c \in Texts /\ i = Len(gens) /\ gens # <<>>
  BY <1>1, <1>3, LenProperties, ElementOfSeq, EmptySeq, InputsAndChunks DEF GeneratorsInv
<1> DEFINE h == [g EXCEPT !.buffer = Append(@, c)]
           hs == [gens EXCEPT ![i] = h]
<1>5. /\ h \in Generators /\ h.prefix = g.prefix /\ IsPrefix(g.buffer, h.buffer)
      /\ h.ended = g.ended /\ h.over = g.over
      /\ Text(h) = Text(g) \o c
  BY <1>4, ChunkAdded
<1>6. gens' = hs
  BY <1>2
<1> HIDE DEF h
<1>7. OneGrown(gens, i, h, hs)
  <2>1. Follows(g, h)
    BY <1>1, <1>5 DEF Follows
  <2>2. QED BY <1>3, <1>5, <2>1, OneGrows
<1> HIDE DEF hs
<1>8. /\ gens' \in Seq(Generators) /\ Grows(gens, gens') /\ Len(gens') = Len(gens)
      /\ DOMAIN gens' = DOMAIN gens
      /\ \A j \in DOMAIN gens : gens'[j] = IF j = i THEN h ELSE gens[j]
  BY <1>6, <1>7 DEF OneGrown
<1>9. pendingCompletion' \in Texts
  BY <1>2, <1>3, <1>4, ConcatProperties DEF Texts
<1>10. GeneratorsInv(gens', pendingCompletion')
  <2>1. \A j \in DOMAIN gens' : (gens'[j].over \/ j # Len(gens')) => gens'[j].ended
    BY <1>1, <1>3, <1>4, <1>5, <1>8 DEF GeneratorsInv
  <2>2. Last(gens') = h /\ Last(gens) = g
    BY <1>4, <1>8 DEF Last
  <2>3. g.prefix \o pendingCompletion = Text(g)
    BY <1>3, <1>4, <2>2 DEF GeneratorsInv
  <2>4. Associates(g.prefix, pendingCompletion, c)
    <3>1. g.prefix \in Seq(Characters) /\ pendingCompletion \in Seq(Characters)
          /\ c \in Seq(Characters)
      BY <1>3, <1>4, TextType DEF Texts
    <3>2. QED BY <3>1, ConcatAssociates
  <2>5. h.prefix \o pendingCompletion' = Text(h)
    BY <1>2, <1>5, <2>3, <2>4 DEF Associates
  <2>6. QED BY <2>1, <2>2, <2>5 DEF GeneratorsInv
<1>11. QED BY <1>1, <1>8, <1>9, <1>10, GeneratorStep

(* An end adds nothing.                                                    *)
LEMMA EndsStep == ASSUME Inv, NEW i \in DOMAIN gens, Ends(i) PROVE Inv'
<1> DEFINE g == gens[i]
           h == [g EXCEPT !.ended = TRUE, !.over = TRUE]
           hs == [gens EXCEPT ![i] = h]
<1>1. req' = Woken(i) /\ UNCHANGED <<lastUUID, debouncing, pendingCompletion, cache>>
      /\ gens' = hs
  BY DEF Ends, Leave
<1>2. /\ gens \in Seq(Generators) /\ GeneratorsInv(gens, pendingCompletion)
      /\ pendingCompletion' \in Texts
  BY <1>1 DEF Inv, Types
<1>3. g \in Generators
  BY <1>2, LenProperties, ElementOfSeq
<1>4. /\ h \in Generators /\ h.prefix = g.prefix /\ h.buffer = g.buffer
      /\ h.ended = TRUE /\ h.over = TRUE
  BY <1>3 DEF Generators
<1>5. IsPrefix(g.buffer, g.buffer)
  BY <1>2, GrowsAlike DEF Grows, Follows
<1> HIDE DEF h
<1>6. OneGrown(gens, i, h, hs)
  <2>1. Follows(g, h)
    BY <1>4, <1>5 DEF Follows
  <2>2. QED BY <1>2, <1>4, <2>1, OneGrows
<1> HIDE DEF hs
<1>7. /\ gens' \in Seq(Generators) /\ Grows(gens, gens') /\ Len(gens') = Len(gens)
      /\ DOMAIN gens' = DOMAIN gens
      /\ \A j \in DOMAIN gens : gens'[j] = IF j = i THEN h ELSE gens[j]
  BY <1>1, <1>6 DEF OneGrown
<1>8. Text(h) = Text(g)
  BY <1>4 DEF Text
<1>9. GeneratorsInv(gens', pendingCompletion')
  <2>1. \A j \in DOMAIN gens' : (gens'[j].over \/ j # Len(gens')) => gens'[j].ended
    BY <1>2, <1>4, <1>7 DEF GeneratorsInv
  <2>2. gens # <<>> /\ Len(gens) \in DOMAIN gens
    BY <1>2, LenProperties, EmptySeq
  <2>3. /\ Last(gens').prefix = Last(gens).prefix
        /\ Text(Last(gens')) = Text(Last(gens))
    BY <1>4, <1>7, <1>8, <2>2 DEF Last
  <2>4. QED BY <1>1, <1>2, <2>1, <2>2, <2>3 DEF GeneratorsInv
<1>10. QED BY <1>1, <1>2, <1>7, <1>9, GeneratorStep

LEMMA DebounceTimeoutStep == ASSUME Inv, DebounceTimeout PROVE Inv'
BY DEF DebounceTimeout, Inv, Types

(* The whole.                                                              *)
LEMMA InitInv == Init => Inv
<1> SUFFICES ASSUME Init PROVE Inv
  OBVIOUS
<1>1. \A r \in Requests : req[r] = IdleRequest
  BY DEF Init
<1>2. IdleRequest \in Calls /\ RequestInv(IdleRequest, gens)
  BY Idle DEF RequestInv, Reads
<1>3. req \in [Requests -> Calls]
  BY <1>2 DEF Init
<1>4. gens \in Seq(Generators) /\ pendingCompletion \in Texts /\ cache \in Seq(Rows)
  BY EmptySeq DEF Init, Texts
<1>5. \A i \in DOMAIN gens : FALSE
  BY DEF Init
<1>6. Len(cache) = 0 /\ \A i \in DOMAIN cache : FALSE
  BY EmptySeq DEF Init
<1>7. GeneratorsInv(gens, pendingCompletion)
  BY <1>5 DEF Init, GeneratorsInv
<1>8. RowsInv(cache, gens)
  BY <1>6, AutocompleteAssumption DEF RowsInv
<1>9. lastUUID \in 0 .. MaxRequests /\ debouncing \in BOOLEAN
  <2>1. 0 \in 0 .. MaxRequests
    BY AutocompleteAssumption
  <2>2. QED BY <2>1, Zenon DEF Init
<1>10. \A r \in Requests : RequestInv(req[r], gens)
  BY <1>1, <1>2
<1>11. QED BY <1>1, <1>3, <1>4, <1>7, <1>8, <1>9, <1>10 DEF Inv, Types

LEMMA RequestSteps == ASSUME Inv, NEW r \in Requests, RequestStep(r) PROVE Inv'
BY DebouncedStep, LookupStep, StartStep, ReadStep, FilterStopsStep, FilterThrowsStep,
   CompleteStep, SaveStep DEF RequestStep

LEMMA NextInv == Inv /\ [Next]_vars => Inv'
<1> SUFFICES ASSUME Inv, [Next]_vars PROVE Inv'
  OBVIOUS
<1>1. ASSUME NEW r \in Requests, Ask(r) \/ Abort(r) \/ RequestStep(r) PROVE Inv'
  BY <1>1, AskStep, AbortStep, RequestSteps
<1>2. ASSUME NEW i \in DOMAIN gens, Yields(i) \/ Ends(i) PROVE Inv'
  BY <1>2, YieldsStep, EndsStep
<1>3. CASE DebounceTimeout
  BY <1>3, DebounceTimeoutStep
<1>4. CASE UNCHANGED vars
  BY <1>4 DEF vars, Inv, Types
<1>5. QED BY <1>1, <1>2, <1>3, <1>4 DEF Next

(* The inductive invariant holds.                                          *)
THEOREM Invariance == Spec => []Inv
<1>1. QED BY InitInv, NextInv, PTL DEF Spec

-----------------------------------------------------------------------------
(* What a run checks follows from it.                                      *)

LEMMA InvTypes == Inv => TypeOK
<1> SUFFICES ASSUME Inv PROVE TypeOK
  OBVIOUS
<1>1. \A r \in Requests : req[r].pc \in States
  BY DEF Inv, Types, Calls
<1>2. ASSUME NEW r \in Requests, req[r].pc \in {"reading", "waiting", "ended"}
      PROVE  req[r].gen \in DOMAIN gens /\ req[r].index \in 0 .. Len(gens[req[r].gen].buffer)
  BY <1>2 DEF Inv, RequestInv, Reads
<1>3. QED BY <1>1, <1>2 DEF Inv, Types, TypeOK, GeneratorsInv, RowsInv, States

LEMMA InvPending == Inv => PendingIsOfCurrent
BY DEF Inv, GeneratorsInv, PendingIsOfCurrent

LEMMA InvContinues == Inv => CompletionContinues
<1> SUFFICES ASSUME Inv, NEW r \in Requests, req[r].out # <<>>
             PROVE  \E i \in DOMAIN gens :
                      LET s == Text(gens[i]) p == req[r].prefix IN
                      \/ IsPrefix(p \o req[r].out, s)
                      \/ /\ req[r].pc = "shown"
                         /\ \E n \in 0 .. Len(s) :
                              Like(p, SubSeq(s, 1, n)) /\ GoesOn(s, n, p, req[r].out)
  BY DEF CompletionContinues
<1>1. \/ Continued(req[r].prefix, req[r].out, gens)
      \/ (req[r].pc = "shown" /\ AfterKey(req[r].prefix, req[r].out, gens))
  BY DEF Inv, RequestInv
<1>2. QED BY <1>1 DEF Continued, AfterKey

(* At the end nothing is left of what the user has typed ahead: the prefix *)
(* would be longer than the text that it begins.                           *)
LEMMA InvEnded == Inv => EndedIsComplete
<1> SUFFICES ASSUME Inv, NEW r \in Requests, req[r].pc = "ended"
             PROVE  req[r].prefix \o req[r].out = Text(gens[req[r].gen])
  BY DEF EndedIsComplete
<1> DEFINE q == req[r]
           g == gens[q.gen]
<1>1. /\ q.gen \in DOMAIN gens /\ q.index = Len(g.buffer)
      /\ IsPrefix(q.prefix, Text(g))
      /\ Given(g, q.index) \o q.typed = q.prefix \o q.out
      /\ q.typed # <<>> => q.out = <<>>
  BY DEF Inv, RequestInv, Reads
<1>2. q \in Calls /\ gens \in Seq(Generators)
  BY DEF Inv, Types
<1>3. g \in Generators
  BY <1>1, <1>2, LenProperties, ElementOfSeq
<1>4. /\ q.prefix \in Seq(Characters) /\ q.typed \in Seq(Characters)
      /\ Text(g) \in Seq(Characters) /\ Given(g, q.index) = Text(g)
  BY <1>1, <1>2, <1>3, TextType DEF Calls, Texts
<1>5. Text(g) \o q.typed = q.prefix \o q.out
  BY <1>1, <1>4
<1>6. q.typed = <<>>
  <2> SUFFICES ASSUME q.typed # <<>> PROVE FALSE
    OBVIOUS
  <2>1. q.prefix \o q.out = q.prefix
    BY <1>1, <1>4, ConcatEmptySeq
  <2>2. Len(Text(g) \o q.typed) = Len(Text(g)) + Len(q.typed)
    BY <1>4, ConcatProperties
  <2>3. Len(q.typed) \in Nat \ {0} /\ Len(Text(g)) \in Nat /\ Len(q.prefix) \in Nat
    BY <1>4, LenProperties, EmptySeq
  <2>4. Len(q.prefix) <= Len(Text(g))
    BY <1>1, <1>4, PrefixIs
  <2>5. Len(Text(g)) + Len(q.typed) = Len(q.prefix)
    BY <1>5, <2>1, <2>2, Zenon
  <2> HIDE DEF g, q
  <2>6. QED BY <2>3, <2>4, <2>5
<1>7. Text(g) \o <<>> = Text(g)
  BY <1>4, ConcatEmptySeq
<1>8. QED BY <1>5, <1>6, <1>7

(* A reader is where its generator has a buffer; the cache is bounded and  *)
(* has one row for a key.                                                  *)
THEOREM TypesCorrect == Spec => []TypeOK
<1>1. QED BY Invariance, InvTypes, PTL

(* What a request is compared with for the reuse of the current generator  *)
(* is what this generator has given, and no other one.                     *)
THEOREM PendingOfCurrent == Spec => []PendingIsOfCurrent
<1>1. QED BY Invariance, InvPending, PTL

(* A completion, of a stream of one's own or a shared one, goes on where   *)
(* its prefix ends in what a model has written; one of the cache goes on   *)
(* after a key that the prefix is LIKE.                                    *)
THEOREM CompletionsContinue == Spec => []CompletionContinues
<1>1. QED BY Invariance, InvContinues, PTL

(* Who reads a shared stream to its end misses nothing of it.              *)
THEOREM EndedComplete == Spec => []EndedIsComplete
<1>1. QED BY Invariance, InvEnded, PTL

=============================================================================
