-------------------------- MODULE LinkedListProofs --------------------------
(***************************************************************************)
(* What the list operations do to the set of the items of a list, and that *)
(* they keep its items distinct.                                           *)
(***************************************************************************)
EXTENDS LinkedList, Integers, SequenceTheorems, TLAPS

\* A list is empty exactly when it has no items.
LEMMA EmptyRange ==
  ASSUME NEW S, NEW q \in Seq(S)
  PROVE  /\ q = <<>> <=> Range(q) = {}
         /\ Range(<<>>) = {}
         /\ IsInjective(<<>>)
<1>1. Range(<<>>) = {} /\ IsInjective(<<>>)
  BY DEF Range, IsInjective
<1>2. ASSUME q # <<>> PROVE Range(q) # {}
  <2>1. 1 \in DOMAIN q
    BY <1>2, EmptySeq, LenProperties
  <2> QED BY <2>1 DEF Range
<1> QED BY <1>1, <1>2

\* append adds the item to the list, and keeps the items distinct if it is new.
LEMMA AppendRange ==
  ASSUME NEW S, NEW q \in Seq(S), NEW x \in S
  PROVE  /\ Append(q, x) \in Seq(S)
         /\ Append(q, x) # <<>>
         /\ Range(Append(q, x)) = Range(q) \cup {x}
         /\ IsInjective(q) /\ x \notin Range(q) => IsInjective(Append(q, x))
<1>1. /\ Append(q, x) \in Seq(S) /\ Append(q, x) # <<>>
      /\ DOMAIN q = 1..Len(q) /\ Len(q) \in Nat
      /\ DOMAIN Append(q, x) = 1..(Len(q) + 1)
      /\ \A i \in 1..Len(q) : Append(q, x)[i] = q[i]
      /\ Append(q, x)[Len(q) + 1] = x
  BY AppendProperties, LenProperties
<1>2. Range(Append(q, x)) = Range(q) \cup {x}
  <2>1. ASSUME NEW y \in Range(Append(q, x)) PROVE y \in Range(q) \cup {x}
    BY <1>1, <2>1 DEF Range
  <2>2. ASSUME NEW y \in Range(q) \cup {x} PROVE y \in Range(Append(q, x))
    BY <1>1, <2>2 DEF Range
  <2> QED BY <2>1, <2>2
<1>3. ASSUME IsInjective(q), x \notin Range(q) PROVE IsInjective(Append(q, x))
  BY <1>1, <1>3 DEF IsInjective, Range
<1> QED BY <1>1, <1>2, <1>3

\* Popping the first item of a list of distinct items takes out that item only.
LEMMA TailRange ==
  ASSUME NEW S, NEW q \in Seq(S), q # <<>>, IsInjective(q)
  PROVE  /\ Head(q) \in S /\ Head(q) \in Range(q)
         /\ Tail(q) \in Seq(S)
         /\ IsInjective(Tail(q))
         /\ Range(Tail(q)) = Range(q) \ {Head(q)}
<1>1. /\ Tail(q) \in Seq(S) /\ Head(q) \in S
      /\ Len(q) \in Nat \ {0} /\ DOMAIN q = 1..Len(q)
      /\ DOMAIN Tail(q) = 1..(Len(q) - 1)
      /\ \A i \in 1..(Len(q) - 1) : Tail(q)[i] = q[i + 1]
      /\ Head(q) = q[1]
  BY HeadTailProperties, LenProperties, EmptySeq
<1>2. Head(q) \in Range(q)
  BY <1>1 DEF Range
<1>3. IsInjective(Tail(q))
  BY <1>1 DEF IsInjective
<1>4. ASSUME NEW y \in Range(Tail(q)) PROVE y \in Range(q) \ {Head(q)}
  BY <1>1, <1>4 DEF IsInjective, Range
<1>5. ASSUME NEW y \in Range(q) \ {Head(q)} PROVE y \in Range(Tail(q))
  <2>1. PICK i \in 1..Len(q) : y = q[i]
    BY <1>1, <1>5 DEF Range
  <2>2. i # 1 /\ i - 1 \in 1..(Len(q) - 1) /\ (i - 1) + 1 = i
    BY <1>1, <1>5, <2>1
  <2> QED BY <1>1, <2>1, <2>2 DEF Range
<1> QED BY <1>1, <1>2, <1>3, <1>4, <1>5

\* Removing an item from a list of distinct items removes it altogether, and
\* nothing else.
LEMMA RemoveRange ==
  ASSUME NEW S, NEW q \in Seq(S), NEW x, IsInjective(q)
  PROVE  /\ remove_one(q, x) \in Seq(S)
         /\ IsInjective(remove_one(q, x))
         /\ Range(remove_one(q, x)) = Range(q) \ {x}
<1>1. CASE x \notin Range(q)
  BY <1>1 DEF remove_one
<1>2. CASE x \in Range(q)
  <2> DEFINE P(i) == q[i] = x /\ \A j \in 1..(i - 1) : q[j] # x
  <2> DEFINE k == CHOOSE i \in DOMAIN q : P(i)
  <2> DEFINE r == [i \in 1..(Len(q) - 1) |-> q[IF i < k THEN i ELSE i + 1]]
  <2>1. DOMAIN q = 1..Len(q) /\ Len(q) \in Nat /\ \A i \in 1..Len(q) : q[i] \in S
    BY LenProperties, ElementOfSeq
  <2>2. \E i \in DOMAIN q : P(i)
    <3>1. PICK i \in DOMAIN q : q[i] = x
      BY <1>2 DEF Range
    <3>2. \A j \in 1..(i - 1) : q[j] # x
      BY <2>1, <3>1 DEF IsInjective
    <3> QED BY <3>1, <3>2
  <2>3. k \in 1..Len(q) /\ q[k] = x
    BY <2>1, <2>2
  <2>4. remove_one(q, x) = r
    BY <1>2 DEF remove_one
  <2> HIDE DEF k
  <2>5. /\ Len(q) - 1 \in Nat
        /\ \A i \in 1..(Len(q) - 1) : (IF i < k THEN i ELSE i + 1) \in 1..Len(q)
    BY <2>1, <2>3
  <2>6. r \in Seq(S)
    <3>1. r \in [1..(Len(q) - 1) -> S]
      BY <2>1, <2>5
    <3> QED BY <2>5, <3>1, SeqDef
  <2>7. IsInjective(r)
    <3> SUFFICES ASSUME NEW a \in 1..(Len(q) - 1), NEW b \in 1..(Len(q) - 1), r[a] = r[b]
                 PROVE  a = b
      BY DEF IsInjective
    <3>1. (IF a < k THEN a ELSE a + 1) = (IF b < k THEN b ELSE b + 1)
      BY <2>1, <2>5 DEF IsInjective
    <3> QED BY <2>1, <2>3, <3>1
  <2>8. ASSUME NEW y \in Range(r) PROVE y \in Range(q) \ {x}
    <3>1. PICK i \in 1..(Len(q) - 1) : y = q[IF i < k THEN i ELSE i + 1]
      BY <2>8 DEF Range
    <3>2. (IF i < k THEN i ELSE i + 1) # k
      BY <2>1, <2>3
    <3> QED BY <2>1, <2>3, <2>5, <3>1, <3>2 DEF Range, IsInjective
  <2>9. ASSUME NEW y \in Range(q) \ {x} PROVE y \in Range(r)
    <3>1. PICK i \in 1..Len(q) : y = q[i]
      BY <2>1, <2>9 DEF Range
    <3>2. i # k
      BY <2>3, <2>9, <3>1
    <3>3. CASE i < k
      <4>1. i \in 1..(Len(q) - 1) /\ r[i] = q[i]
        BY <2>1, <2>3, <3>3
      <4> QED BY <3>1, <4>1 DEF Range
    <3>4. CASE i > k
      <4>1. i - 1 \in 1..(Len(q) - 1) /\ ~(i - 1 < k) /\ (i - 1) + 1 = i
        BY <2>1, <2>3, <3>4
      <4>2. r[i - 1] = q[i]
        BY <4>1
      <4> QED BY <3>1, <4>1, <4>2 DEF Range
    <3> QED BY <2>1, <2>3, <3>2, <3>3, <3>4
  <2> QED BY <2>4, <2>6, <2>7, <2>8, <2>9
<1> QED BY <1>1, <1>2

\* Two lists of distinct items without a common item, one behind the other.
LEMMA ConcatRange ==
  ASSUME NEW S, NEW p \in Seq(S), NEW q \in Seq(S),
         IsInjective(p), IsInjective(q), Range(p) \cap Range(q) = {}
  PROVE  /\ p \o q \in Seq(S)
         /\ IsInjective(p \o q)
         /\ Range(p \o q) = Range(p) \cup Range(q)
<1>1. /\ p \o q \in Seq(S)
      /\ Len(p) \in Nat /\ Len(q) \in Nat
      /\ DOMAIN p = 1..Len(p) /\ DOMAIN q = 1..Len(q)
      /\ DOMAIN (p \o q) = 1..(Len(p) + Len(q))
      /\ \A i \in 1..(Len(p) + Len(q)) :
           (p \o q)[i] = IF i <= Len(p) THEN p[i] ELSE q[i - Len(p)]
  BY ConcatProperties, LenProperties
<1>2. ASSUME NEW a \in 1..(Len(p) + Len(q)), NEW b \in 1..(Len(p) + Len(q)),
             (p \o q)[a] = (p \o q)[b]
      PROVE  a = b
  <2>1. CASE a <= Len(p) /\ b <= Len(p)
    BY <1>1, <1>2, <2>1 DEF IsInjective
  <2>2. CASE a > Len(p) /\ b > Len(p)
    <3>1. a - Len(p) \in DOMAIN q /\ b - Len(p) \in DOMAIN q
      BY <1>1, <2>2
    <3>2. q[a - Len(p)] = q[b - Len(p)]
      BY <1>1, <1>2, <2>2
    <3>3. a - Len(p) = b - Len(p)
      BY <3>1, <3>2 DEF IsInjective
    <3> QED BY <1>1, <3>3
  <2>3. CASE a <= Len(p) /\ b > Len(p)
    <3>1. p[a] \in Range(p) /\ q[b - Len(p)] \in Range(q)
      BY <1>1, <2>3 DEF Range
    <3> QED BY <1>1, <1>2, <2>3, <3>1
  <2>4. CASE a > Len(p) /\ b <= Len(p)
    <3>1. p[b] \in Range(p) /\ q[a - Len(p)] \in Range(q)
      BY <1>1, <2>4 DEF Range
    <3> QED BY <1>1, <1>2, <2>4, <3>1
  <2> QED BY <1>1, <2>1, <2>2, <2>3, <2>4
<1> QED BY <1>1, <1>2, RangeConcatenation DEF IsInjective

\* A list of distinct items cut in two after its first m items.
LEMMA SplitRange ==
  ASSUME NEW S, NEW q \in Seq(S), NEW m \in 0..Len(q), IsInjective(q)
  PROVE  LET p == SubSeq(q, 1, m)
             r == SubSeq(q, m + 1, Len(q))
         IN  /\ p \in Seq(S) /\ r \in Seq(S)
             /\ IsInjective(p) /\ IsInjective(r)
             /\ Range(p) \cap Range(r) = {}
             /\ Range(p) \cup Range(r) = Range(q)
<1> DEFINE p == SubSeq(q, 1, m)
           r == SubSeq(q, m + 1, Len(q))
<1>1. Len(q) \in Nat /\ DOMAIN q = 1..Len(q) /\ \A i \in 1..Len(q) : q[i] \in S
  BY LenProperties, ElementOfSeq
<1>2. p \in Seq(S) /\ DOMAIN p = 1..m /\ \A i \in 1..m : p[i] = q[i]
  BY <1>1, SubSeqProperties, LenProperties
<1>3. /\ r \in Seq(S) /\ DOMAIN r = 1..(Len(q) - m)
      /\ \A i \in 1..(Len(q) - m) : r[i] = q[m + i]
  BY <1>1, SubSeqProperties, LenProperties
<1> HIDE DEF p, r
<1>4. IsInjective(p)
  BY <1>1, <1>2 DEF IsInjective
<1>5. IsInjective(r)
  <2> SUFFICES ASSUME NEW a \in 1..(Len(q) - m), NEW b \in 1..(Len(q) - m), r[a] = r[b]
               PROVE  a = b
    BY <1>3 DEF IsInjective
  <2>1. m + a \in DOMAIN q /\ m + b \in DOMAIN q /\ q[m + a] = q[m + b]
    BY <1>1, <1>3
  <2>2. m + a = m + b
    BY <2>1 DEF IsInjective
  <2> QED BY <2>2
<1>6. ASSUME NEW y \in Range(p) \cap Range(r) PROVE FALSE
  <2>1. PICK i \in 1..m : y = q[i]
    BY <1>2, <1>6 DEF Range
  <2>2. PICK j \in 1..(Len(q) - m) : y = q[m + j]
    BY <1>3, <1>6 DEF Range
  <2>3. i \in DOMAIN q /\ m + j \in DOMAIN q /\ i # m + j
    BY <1>1
  <2> QED BY <2>1, <2>2, <2>3 DEF IsInjective
<1>7. ASSUME NEW y \in Range(p) \cup Range(r) PROVE y \in Range(q)
  <2>1. CASE y \in Range(p)
    BY <1>1, <1>2, <2>1 DEF Range
  <2>2. CASE y \in Range(r)
    <3>1. PICK i \in 1..(Len(q) - m) : y = q[m + i]
      BY <1>3, <2>2 DEF Range
    <3>2. m + i \in DOMAIN q
      BY <1>1
    <3> QED BY <3>1, <3>2 DEF Range
  <2> QED BY <1>7, <2>1, <2>2
<1>8. ASSUME NEW y \in Range(q) PROVE y \in Range(p) \cup Range(r)
  <2>1. PICK i \in 1..Len(q) : y = q[i]
    BY <1>1, <1>8 DEF Range
  <2>2. CASE i <= m
    BY <1>2, <2>1, <2>2 DEF Range
  <2>3. CASE i > m
    <3>1. i - m \in 1..(Len(q) - m) /\ m + (i - m) = i
      BY <1>1, <2>3
    <3> QED BY <1>3, <2>1, <3>1 DEF Range
  <2> QED BY <1>1, <2>2, <2>3
<1> QED BY <1>2, <1>3, <1>4, <1>5, <1>6, <1>7, <1>8 DEF p, r
=============================================================================
