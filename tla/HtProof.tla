------------------------------ MODULE HtProof ------------------------------
(***************************************************************************)
(* Theorems about HashTable for any keys, hashes, values, capacities that  *)
(* are powers of two, and numbers of removals and faults.                  *)
(*                                                                         *)
(* A loop over the slots is described by the set of indexes where it may   *)
(* stop.  While no slot has been freed that set is Stops, which has one    *)
(* member at most, and the invariant is that every slot in use is where    *)
(* the loop for its own key stops.  Filling the slot where a loop stops    *)
(* keeps that for all slots, because no other loop passes an empty one;    *)
(* and moving the slots into a larger array is filling, once for each.     *)
(* That a loop meets an empty slot rests on counting the slots in use,     *)
(* freed ones too.                                                         *)
(***************************************************************************)
EXTENDS HashTable, FiniteSetTheorems, TLAPS

\* What a slot holds, and an array of them.
Slot == {Empty} \cup [key : Keys, value : Vals, mem : {"live", "freed"}]
IsTable(e, cap) == cap \in Nat \ {0} /\ e \in [0..(cap - 1) -> Slot]

-----------------------------------------------------------------------------
\* A set of naturals that is not empty has a least member.
LEMMA LeastNat ==
  ASSUME NEW S \in SUBSET Nat, S # {}
  PROVE  \E m \in S : \A k \in S : m <= k
<1> DEFINE R == {ss \in Nat \X Nat : ss[1] < ss[2]}
<1>1. IsWellFoundedOn(R, Nat)
  BY NatLessThanWellFounded DEF OpToRel
<1>2. \E x \in S : \A y \in S : ~(<<y, x>> \in R)
  <2> HIDE DEF R
  <2> QED BY <1>1, WFMin
<1>3. \A x, y \in Nat : ~(<<y, x>> \in R) => x <= y
  OBVIOUS
<1> QED BY <1>2, <1>3

\* Induction, as a fact about a set: the least number outside it cannot be.
LEMMA NatInd ==
  ASSUME NEW S, 0 \in S, \A n \in Nat : n \in S => n + 1 \in S
  PROVE  \A n \in Nat : n \in S
<1> DEFINE T == Nat \ S
<1> SUFFICES ASSUME T # {} PROVE FALSE
  OBVIOUS
<1>1. PICK m \in T : \A k \in T : m <= k
  BY LeastNat
<1>2. m \in Nat /\ m # 0
  OBVIOUS
<1>3. m - 1 \in Nat /\ m - 1 \notin T /\ m - 1 + 1 = m
  BY <1>1, <1>2
<1> QED BY <1>3

\* Powers of two, as numbers of subsets: a set with one member more has twice as many.
LEMMA PowerOfTwo ==
  ASSUME NEW n \in Nat
  PROVE  2^n \in Nat /\ 2^(n + 1) = 2^n * 2 /\ n + 1 <= 2^n
<1>1. \A m \in Nat : IsFiniteSet(SUBSET (1..m)) /\ Cardinality(SUBSET (1..m)) = 2^m /\ 2^m \in Nat
  <2> TAKE m \in Nat
  <2>1. IsFiniteSet(1..m) /\ Cardinality(1..m) = m
    BY FS_Interval
  <2> QED BY <2>1, FS_SUBSET, FS_CardinalityType
<1>2. ASSUME NEW m \in Nat PROVE 2^(m + 1) = 2^m * 2
  <2> DEFINE A == SUBSET (1..m)
             x == m + 1
             B == {T \in SUBSET (1..x) : x \in T}
             f == [T \in A |-> T \cup {x}]
  <2>1. 1..x = (1..m) \cup {x} /\ x \notin 1..m
    OBVIOUS
  <2>2. SUBSET (1..x) = A \cup B /\ A \cap B = {}
    BY <2>1
  <2>3. f \in Bijection(A, B)
    <3>1. f \in [A -> B]
      BY <2>1
    <3>2. \A S, T \in A : f[S] = f[T] => S = T
      BY <2>1
    <3>3. \A T \in B : T \ {x} \in A /\ f[T \ {x}] = T
      BY <2>1
    <3> HIDE DEF f, A, B
    <3> QED BY <3>1, <3>2, <3>3 DEF Bijection, Injection, Surjection, IsInjective
  <2>4. IsFiniteSet(A) /\ Cardinality(A) = 2^m
    BY <1>1
  <2>5. IsFiniteSet(B) /\ Cardinality(B) = 2^m
    <3> HIDE DEF f, A, B
    <3> QED BY <2>3, <2>4, FS_Bijection DEF ExistsBijection
  <2>6. Cardinality(A \cup B) = 2^m + 2^m
    <3> HIDE DEF A, B
    <3>1. Cardinality(A \cap B) = 0
      BY <2>2, FS_EmptySet
    <3>2. Cardinality(A \cup B) = Cardinality(A) + Cardinality(B) - Cardinality(A \cap B)
      BY <2>4, <2>5, FS_Union
    <3>3. 2^m \in Nat
      BY <1>1
    <3> QED BY <2>4, <2>5, <3>1, <3>2, <3>3
  <2>7. Cardinality(SUBSET (1..x)) = 2^x
    <3>1. x \in Nat
      OBVIOUS
    <3> HIDE DEF x
    <3> QED BY <3>1, <1>1
  <2>8. 2^x = 2^m + 2^m
    <3> HIDE DEF A, B, x
    <3> QED BY <2>2, <2>6, <2>7
  <2>9. 2^m \in Nat
    BY <1>1
  <2> QED BY <2>8, <2>9
<1>3. n + 1 <= 2^n
  <2> DEFINE S == {m \in Nat : m + 1 <= 2^m}
  <2>1. 0 \in S
    <3>1. 2^0 = 1
      OBVIOUS
    <3> QED BY <3>1
  <2>2. \A m \in Nat : m \in S => m + 1 \in S
    BY <1>1, <1>2
  <2>3. n \in S
    <3> HIDE DEF S
    <3> QED BY <2>1, <2>2, NatInd
  <2> QED BY <2>3
<1> QED BY <1>1, <1>2, <1>3

\* From a slot to another, round the end of the array.
LEMMA Round ==
  ASSUME NEW cap \in Nat \ {0}, NEW h \in 0..(cap - 1)
  PROVE  /\ \A i \in 0..(cap - 1) : (i - h) % cap \in 0..(cap - 1) /\ (h + ((i - h) % cap)) % cap = i
         /\ \A d \in 0..(cap - 1) : (h + d) % cap \in 0..(cap - 1) /\ (((h + d) % cap) - h) % cap = d
<1>1. \A i \in 0..(cap - 1) : (i - h) % cap = IF i >= h THEN i - h ELSE i - h + cap
  OBVIOUS
<1>2. \A d \in 0..(cap - 1) : (h + d) % cap = IF h + d < cap THEN h + d ELSE h + d - cap
  OBVIOUS
<1>3. \A i \in 0..(cap - 1) : (i - h) % cap \in 0..(cap - 1) /\ (h + ((i - h) % cap)) % cap = i
  <2> TAKE i \in 0..(cap - 1)
  <2> DEFINE d == (i - h) % cap
  <2>1. d = IF i >= h THEN i - h ELSE i - h + cap
    BY <1>1
  <2> HIDE DEF d
  <2>2. d \in 0..(cap - 1) 
    BY <2>1
  <2>3. (h + d) % cap = IF h + d < cap THEN h + d ELSE h + d - cap
    BY <2>2, <1>2
  <2> QED BY <2>1, <2>2, <2>3 DEF d
<1>4. \A d \in 0..(cap - 1) : (h + d) % cap \in 0..(cap - 1) /\ (((h + d) % cap) - h) % cap = d
  <2> TAKE d \in 0..(cap - 1)
  <2> DEFINE i == (h + d) % cap
  <2>1. i = IF h + d < cap THEN h + d ELSE h + d - cap
    BY <1>2
  <2> HIDE DEF i
  <2>2. i \in 0..(cap - 1) 
    BY <2>1
  <2>3. (i - h) % cap = IF i >= h THEN i - h ELSE i - h + cap
    BY <2>2, <1>1
  <2> QED BY <2>1, <2>2, <2>3 DEF i
<1> QED BY <1>3, <1>4

-----------------------------------------------------------------------------
\* Where the loop for a key may stop while nothing has been freed: with First(k, cap)
\* its first index, the slots it has passed are in use by other keys.
First(k, cap) == hash_key(k) % cap
Passed(e, cap, k, i) == {(First(k, cap) + d) % cap : d \in 0..(((i - First(k, cap)) % cap) - 1)}
Stops(e, cap, k) ==
  {i \in 0..(cap - 1) :
     /\ e[i].mem = "none" \/ e[i].key = k
     /\ \A j \in Passed(e, cap, k, i) : e[j].mem # "none" /\ e[j].key # k}

\* Every slot in use is where the loop for its key stops.
Found(e, cap) == \A i \in Used(e) : i \in Stops(e, cap, e[i].key)

\* The first index is one of the array; so are those passed, and the last is not.
LEMMA FirstIs ==
  ASSUME NEW cap \in Nat \ {0}, NEW k \in Keys
  PROVE  First(k, cap) \in 0..(cap - 1)
<1>1. hash_key(k) \in Nat
  BY HtAssumption DEF hash_key
<1> QED BY <1>1 DEF First

LEMMA PassedIs ==
  ASSUME NEW e, NEW cap \in Nat \ {0}, NEW k \in Keys, NEW i \in 0..(cap - 1)
  PROVE  /\ Passed(e, cap, k, i) \subseteq 0..(cap - 1)
         /\ i \notin Passed(e, cap, k, i)
         /\ \A j \in 0..(cap - 1) : j # i => j \in Passed(e, cap, k, i) \/ i \in Passed(e, cap, k, j)
<1> DEFINE h == First(k, cap)
           D(j) == (j - h) % cap
<1>1. h \in 0..(cap - 1)
  BY FirstIs
<1>2. \A j \in 0..(cap - 1) : D(j) \in 0..(cap - 1) /\ (h + D(j)) % cap = j
  BY <1>1, Round
<1>3. \A d \in 0..(cap - 1) : (h + d) % cap \in 0..(cap - 1) /\ D((h + d) % cap) = d
  BY <1>1, Round
<1>4. \A j : Passed(e, cap, k, j) = {(h + d) % cap : d \in 0..(D(j) - 1)}
  BY DEF Passed
<1> HIDE DEF h, D
<1>5. \A j \in 0..(cap - 1) : \A d \in 0..(D(j) - 1) : d \in 0..(cap - 1) /\ d # D(j)
  BY <1>2
<1>6. \A j \in 0..(cap - 1) : Passed(e, cap, k, j) \subseteq 0..(cap - 1)
  BY <1>3, <1>4, <1>5
<1>7. i \notin Passed(e, cap, k, i)
  BY <1>3, <1>4, <1>5
<1>8. ASSUME NEW j \in 0..(cap - 1), NEW l \in 0..(cap - 1), D(j) < D(l)
      PROVE  j \in Passed(e, cap, k, l)
  <2>1. D(j) \in 0..(D(l) - 1) /\ j = (h + D(j)) % cap
    BY <1>2, <1>8
  <2> QED BY <2>1, <1>4
<1>9. \A j \in 0..(cap - 1) : j # i => D(j) < D(i) \/ D(i) < D(j)
  <2> TAKE j \in 0..(cap - 1)
  <2>1. D(j) = D(i) => j = i
    BY <1>2
  <2> QED BY <1>2, <2>1
<1> QED BY <1>6, <1>7, <1>8, <1>9

\* A loop stops at one index at most.
LEMMA StopIsUnique ==
  ASSUME NEW e, NEW cap \in Nat \ {0}, NEW k \in Keys, NEW i \in Stops(e, cap, k), NEW j \in Stops(e, cap, k)
  PROVE  i = j
<1>1. i \in 0..(cap - 1) /\ j \in 0..(cap - 1)
  BY DEF Stops
<1>2. j # i => j \in Passed(e, cap, k, i) \/ i \in Passed(e, cap, k, j)
  BY <1>1, PassedIs
<1> QED BY <1>2 DEF Stops

\* While nothing is freed, the loops of the code stop there.
LEMMA ProbeIs ==
  ASSUME NEW cap, NEW e, IsTable(e, cap), Clean(e), NEW a, a.key \in Keys, a.mem # "freed"
  PROVE  Probe(e, cap, a) = Stops(e, cap, a.key)
<1> DEFINE k == a.key
           h == First(k, cap)
<1>1. cap \in Nat \ {0} /\ DOMAIN e = 0..(cap - 1) /\ \A i \in 0..(cap - 1) : e[i] \in Slot
  BY DEF IsTable
<1>2. \A i \in 0..(cap - 1) : e[i].mem # "freed"
  BY <1>1 DEF Clean, Freed
<1>3. FirstIndexes(a, cap) = {h}
  BY DEF FirstIndexes, First
<1>4. \A i \in 0..(cap - 1) : /\ MayMatch(a, e[i]) <=> e[i].key = k
                              /\ MayDiffer(a, e[i]) <=> e[i].key # k
  BY <1>2 DEF MayMatch, MayDiffer
<1>5. Probe(e, cap, a) =
        {i \in 0..(cap - 1) :
           /\ e[i].mem = "none" \/ MayMatch(a, e[i])
           /\ \A d \in 0..(((i - h) % cap) - 1) :
                e[(h + d) % cap].mem # "none" /\ MayDiffer(a, e[(h + d) % cap])}
  BY <1>3 DEF Probe
<1> HIDE DEF h
<1>6. ASSUME NEW i \in 0..(cap - 1)
      PROVE  (\A d \in 0..(((i - h) % cap) - 1) : e[(h + d) % cap].mem # "none" /\ MayDiffer(a, e[(h + d) % cap]))
             <=> (\A j \in Passed(e, cap, k, i) : e[j].mem # "none" /\ e[j].key # k)
  <2>1. Passed(e, cap, k, i) = {(h + d) % cap : d \in 0..(((i - h) % cap) - 1)}
    BY DEF Passed, h
  <2>2. Passed(e, cap, k, i) \subseteq 0..(cap - 1)
    BY <1>1, PassedIs
  <2>3. \A j \in Passed(e, cap, k, i) : MayDiffer(a, e[j]) <=> e[j].key # k
    BY <2>2, <1>4
  <2> QED BY <2>1, <2>3
<1>7. \A i \in 0..(cap - 1) : i \in Probe(e, cap, a) <=> i \in Stops(e, cap, k)
  BY <1>4, <1>5, <1>6 DEF Stops
<1> QED BY <1>5, <1>7 DEF Stops

\* An empty slot has no key; where the loop for a key stops at one, no slot has it.
LEMMA NotThere ==
  ASSUME NEW cap, NEW e, IsTable(e, cap), Found(e, cap), NEW k \in Keys, NEW i \in Stops(e, cap, k),
         e[i].mem = "none"
  PROVE  \A j \in Used(e) : e[j].key # k
<1> SUFFICES ASSUME NEW j \in Used(e), e[j].key = k PROVE FALSE
  OBVIOUS
<1>1. j \in Stops(e, cap, k)
  BY DEF Found
<1>2. i = j
  BY <1>1, StopIsUnique DEF IsTable
<1> QED BY <1>2 DEF Used

\* The value of a key in the table.
Holds(e, k, v) == \E i \in Used(e) : e[i].key = k /\ e[i].value = v

\* A slot that is filled, or whose value is replaced, where the loop for its key stops.
LEMMA FillKeeps ==
  ASSUME NEW cap, NEW e, IsTable(e, cap), Clean(e), Found(e, cap), NEW k \in Keys, NEW v \in Vals,
         NEW i \in Stops(e, cap, k),
         NEW f \in {[e EXCEPT ![i] = IF @.mem = "none" THEN Live(k, v) ELSE [@ EXCEPT !.value = v]]}
  PROVE  /\ IsTable(f, cap) /\ Clean(f) /\ Found(f, cap)
         /\ \A j, w : Holds(f, j, w) <=> IF j = k THEN w = v ELSE Holds(e, j, w)
<1>1. /\ cap \in Nat \ {0} /\ i \in 0..(cap - 1) /\ DOMAIN e = 0..(cap - 1)
      /\ \A j \in 0..(cap - 1) : e[j] \in Slot /\ e[j].mem # "freed"
  BY DEF IsTable, Stops, Clean, Freed
<1>2. /\ DOMAIN f = 0..(cap - 1)
      /\ f[i] = (IF e[i].mem = "none" THEN Live(k, v) ELSE [e[i] EXCEPT !.value = v])
      /\ \A j \in 0..(cap - 1) : j # i => f[j] = e[j]
  BY <1>1
<1>3. e[i].mem # "none" => e[i].key = k /\ e[i] \in [key : Keys, value : Vals, mem : {"live", "freed"}]
  BY <1>1 DEF Stops, Slot, Empty
<1>4. /\ f[i] \in [key : Keys, value : Vals, mem : {"live", "freed"}]
      /\ f[i].key = k /\ f[i].value = v /\ f[i].mem = "live"
  <2>1. CASE e[i].mem = "none"
    BY <2>1, <1>2 DEF Live
  <2>2. CASE e[i].mem # "none"
    <3>1. e[i].mem = "live"
      BY <2>2, <1>1, <1>3
    <3> QED BY <2>2, <3>1, <1>2, <1>3
  <2> QED BY <2>1, <2>2
<1>5. IsTable(f, cap)
  <2>1. f \in [0..(cap - 1) -> Slot]
    <3>1. \A j \in 0..(cap - 1) : f[j] \in Slot
      BY <1>1, <1>2, <1>4 DEF Slot
    <3>2. f = [j \in DOMAIN f |-> f[j]]
      OBVIOUS
    <3> QED BY <3>1, <3>2, <1>2
  <2> QED BY <2>1, <1>1 DEF IsTable
<1>6. Clean(f)
  BY <1>1, <1>2, <1>4 DEF Clean, Freed
<1>7. Used(f) = Used(e) \cup {i}
  BY <1>1, <1>2, <1>4 DEF Used
<1>8. Found(f, cap)
  <2> SUFFICES ASSUME NEW j \in Used(f) PROVE j \in Stops(f, cap, f[j].key)
    BY DEF Found
  <2>1. j \in 0..(cap - 1)
    BY <1>2 DEF Used
  <2>2. CASE j = i
    <3>1. \A l \in Passed(e, cap, k, i) : l \in 0..(cap - 1) /\ l # i
      BY <1>1, PassedIs
    <3>2. Passed(f, cap, k, i) = Passed(e, cap, k, i)
      BY DEF Passed
    <3>3. \A l \in Passed(f, cap, k, i) : f[l].mem # "none" /\ f[l].key # k
      BY <3>1, <3>2, <1>2 DEF Stops
    <3> QED BY <2>1, <2>2, <3>3, <1>4 DEF Stops
  <2>3. CASE j # i
    <3> DEFINE m == e[j].key
    <3>1. j \in Used(e) /\ f[j] = e[j]
      BY <2>1, <2>3, <1>2, <1>7
    <3>2. j \in Stops(e, cap, m)
      BY <3>1 DEF Found
    <3>3. m \in Keys
      BY <3>1, <2>1, <1>1 DEF Slot, Used, Empty
    <3>4. Passed(f, cap, m, j) = Passed(e, cap, m, j)
      BY DEF Passed
    <3> HIDE DEF m
    <3>5. \A l \in Passed(e, cap, m, j) : l \in 0..(cap - 1) /\ e[l].mem # "none" /\ e[l].key # m
      BY <3>2, <3>3, <2>1, <1>1, PassedIs DEF Stops
    <3>6. \A l \in Passed(e, cap, m, j) : f[l].mem # "none" /\ f[l].key # m
      <4> TAKE l \in Passed(e, cap, m, j)
      <4>1. CASE l = i
        BY <4>1, <3>5, <1>3, <1>4
      <4>2. CASE l # i
        BY <4>2, <3>5, <1>2
      <4> QED BY <4>1, <4>2
    <3>7. f[j].mem = "none" \/ f[j].key = m
      BY <3>1 DEF m
    <3>8. j \in Stops(f, cap, m)
      BY <3>4, <3>6, <3>7, <2>1 DEF Stops
    <3> QED BY <3>1, <3>8 DEF m
  <2> QED BY <2>2, <2>3
<1>9. ASSUME NEW j, NEW w PROVE Holds(f, j, w) <=> IF j = k THEN w = v ELSE Holds(e, j, w)
  <2>1. CASE j = k
    <3>1. Holds(f, j, v)
      BY <2>1, <1>4, <1>7 DEF Holds
    <3>2. ASSUME NEW l \in Used(f), f[l].key = k PROVE l = i
      <4>1. l \in Stops(f, cap, k) /\ i \in Stops(f, cap, k)
        BY <3>2, <1>4, <1>7, <1>8 DEF Found
      <4> QED BY <4>1, <1>1, StopIsUnique
    <3> QED BY <2>1, <3>1, <3>2, <1>4 DEF Holds
  <2>2. CASE j # k
    <3>1. \A l \in Used(f) : f[l].key = j => l # i /\ l \in Used(e) /\ f[l] = e[l]
      BY <2>2, <1>2, <1>4, <1>7 DEF Used
    <3>2. \A l \in Used(e) : e[l].key = j => l # i /\ l \in Used(f) /\ f[l] = e[l]
      BY <2>2, <1>1, <1>2, <1>3, <1>7 DEF Used
    <3> QED BY <2>2, <3>1, <3>2 DEF Holds
  <2> QED BY <2>1, <2>2
<1> QED BY <1>5, <1>6, <1>8, <1>9

-----------------------------------------------------------------------------
\* The slots in use are finitely many.
LEMMA UsedIsFinite ==
  ASSUME NEW cap, NEW e, IsTable(e, cap)
  PROVE  /\ Used(e) \subseteq 0..(cap - 1) /\ IsFiniteSet(Used(e)) /\ Cardinality(Used(e)) \in Nat
         /\ \A i \in Used(e) : e[i] \in [key : Keys, value : Vals, mem : {"live", "freed"}]
<1>1. Used(e) \subseteq 0..(cap - 1) /\ cap \in Nat \ {0}
  BY DEF Used, IsTable
<1>2. IsFiniteSet(0..(cap - 1))
  BY <1>1, FS_Interval
<1>3. IsFiniteSet(Used(e)) /\ Cardinality(Used(e)) \in Nat
  BY <1>1, <1>2, FS_Subset, FS_CardinalityType
<1>4. \A i \in Used(e) : e[i] \in [key : Keys, value : Vals, mem : {"live", "freed"}]
  BY <1>1 DEF Used, IsTable, Slot, Empty
<1> QED BY <1>1, <1>3, <1>4

\* ht_set_entry uses one slot more, or none; freed slots may deceive it, but not in this.
LEMMA SetEntryIs ==
  ASSUME NEW cap, NEW e, IsTable(e, cap),
         NEW a \in [key : Keys, value : Vals, mem : {"live", "freed"}], NEW f \in ht_set_entry(e, cap, a)
  PROVE  /\ IsTable(f, cap)
         /\ \E i \in 0..(cap - 1) : /\ i \in Probe(e, cap, a)
                                    /\ f = [e EXCEPT ![i] = IF @.mem = "none" THEN a ELSE [@ EXCEPT !.value = a.value]]
                                    /\ Used(f) = Used(e) \cup {i}
<1>1. PICK i \in Probe(e, cap, a) :
        f = [e EXCEPT ![i] = IF @.mem = "none" THEN a ELSE [@ EXCEPT !.value = a.value]]
  BY DEF ht_set_entry
<1>2. /\ cap \in Nat \ {0} /\ i \in 0..(cap - 1) /\ DOMAIN e = 0..(cap - 1)
      /\ \A j \in 0..(cap - 1) : e[j] \in Slot
  BY DEF IsTable, Probe
<1>3. /\ DOMAIN f = 0..(cap - 1) /\ \A j \in 0..(cap - 1) : j # i => f[j] = e[j]
      /\ f[i] = IF e[i].mem = "none" THEN a ELSE [e[i] EXCEPT !.value = a.value]
  BY <1>1, <1>2
<1>4. f[i] \in [key : Keys, value : Vals, mem : {"live", "freed"}]
  <2>1. CASE e[i].mem = "none"
    BY <2>1, <1>3
  <2>2. CASE e[i].mem # "none"
    <3>1. e[i] \in [key : Keys, value : Vals, mem : {"live", "freed"}]
      BY <2>2, <1>2 DEF Slot, Empty
    <3> QED BY <2>2, <3>1, <1>3
  <2> QED BY <2>1, <2>2
<1>5. f[i].mem # "none"
  BY <1>4
<1>6. Used(f) = Used(e) \cup {i}
  BY <1>2, <1>3, <1>5 DEF Used
<1>7. f \in [0..(cap - 1) -> Slot]
  <2>1. \A j \in 0..(cap - 1) : f[j] \in Slot
    BY <1>2, <1>3, <1>4 DEF Slot
  <2>2. f = [j \in DOMAIN f |-> f[j]]
    BY <1>1
  <2> QED BY <2>1, <2>2, <1>3
<1> QED BY <1>1, <1>2, <1>6, <1>7 DEF IsTable

\* While nothing is freed, it is a filling of the slot where the loop for the key stops.
LEMMA SetEntryKeeps ==
  ASSUME NEW cap, NEW e, IsTable(e, cap), Clean(e), Found(e, cap), NEW k \in Keys, NEW v \in Vals,
         NEW f \in ht_set_entry(e, cap, Live(k, v))
  PROVE  /\ IsTable(f, cap) /\ Clean(f) /\ Found(f, cap)
         /\ \A j, w : Holds(f, j, w) <=> IF j = k THEN w = v ELSE Holds(e, j, w)
<1> DEFINE a == Live(k, v)
<1>1. a.key = k /\ a.value = v /\ a.mem = "live"
  BY DEF Live
<1>2. PICK i \in Probe(e, cap, a) :
        f = [e EXCEPT ![i] = IF @.mem = "none" THEN a ELSE [@ EXCEPT !.value = a.value]]
  BY DEF ht_set_entry
<1>3. Probe(e, cap, a) = Stops(e, cap, k)
  <2> HIDE DEF a
  <2> QED BY <1>1, ProbeIs
<1>4. i \in Stops(e, cap, k)
  BY <1>2, <1>3
<1>5. f \in {[e EXCEPT ![i] = IF @.mem = "none" THEN Live(k, v) ELSE [@ EXCEPT !.value = v]]}
  BY <1>1, <1>2
<1> HIDE DEF a
<1> QED BY <1>4, <1>5, FillKeeps

\* A freed slot that is moved makes the array unclean, or replaces the value of a slot
\* that is in use: where the array is clean after it, every slot is found.
LEMMA CleanIsFound ==
  ASSUME NEW cap, NEW e, IsTable(e, cap), Clean(e) => Found(e, cap),
         NEW a \in [key : Keys, value : Vals, mem : {"live", "freed"}], NEW f \in ht_set_entry(e, cap, a),
         Clean(f)
  PROVE  Clean(e) /\ Found(f, cap)
<1>1. PICK i \in 0..(cap - 1) :
        /\ f = [e EXCEPT ![i] = IF @.mem = "none" THEN a ELSE [@ EXCEPT !.value = a.value]]
        /\ Used(f) = Used(e) \cup {i}
  BY SetEntryIs
<1>2. cap \in Nat \ {0} /\ DOMAIN e = 0..(cap - 1) /\ \A j \in 0..(cap - 1) : e[j] \in Slot
  BY DEF IsTable
<1>3. /\ DOMAIN f = 0..(cap - 1) /\ \A j \in 0..(cap - 1) : j # i => f[j] = e[j]
      /\ f[i] = IF e[i].mem = "none" THEN a ELSE [e[i] EXCEPT !.value = a.value]
  BY <1>1, <1>2
<1>4. \A j \in 0..(cap - 1) : f[j].mem # "freed"
  BY <1>3 DEF Clean, Freed
<1>5. Clean(e)
  <2>1. e[i].mem # "freed"
    BY <1>2, <1>3, <1>4 DEF Slot, Empty
  <2> QED BY <2>1, <1>2, <1>3, <1>4 DEF Clean, Freed
<1>6. CASE a.mem = "live"
  <2>1. a = Live(a.key, a.value) /\ a.key \in Keys /\ a.value \in Vals
    BY <1>6 DEF Live
  <2>2. f \in ht_set_entry(e, cap, Live(a.key, a.value))
    BY <2>1
  <2> QED BY <2>1, <2>2, <1>5, SetEntryKeeps
<1>7. CASE a.mem # "live"
  <2>1. e[i].mem # "none"
    BY <1>3, <1>4, <1>7
  <2> DEFINE k == e[i].key
             v == a.value
  <2>2. i \in Stops(e, cap, k) /\ k \in Keys /\ v \in Vals
    BY <2>1, <1>2, <1>5 DEF Found, Used, Slot, Empty
  <2>3. f \in {[e EXCEPT ![i] = IF @.mem = "none" THEN Live(k, v) ELSE [@ EXCEPT !.value = v]]}
    BY <2>1, <1>1, <1>2
  <2> HIDE DEF k, v
  <2> QED BY <2>2, <2>3, <1>5, FillKeeps
<1> QED BY <1>5, <1>6, <1>7

-----------------------------------------------------------------------------
\* ht_expand.  Before(n) are the slots in use that the loop has moved after n rounds,
\* and Image(n) what the new array may then be: it uses no more slots, every slot in use
\* is found unless a freed one was moved to another place, and while nothing has been
\* freed the keys have the values they had.
Before(n) == {i \in Used(entries) : i < n}
Image(n) ==
  {e \in [0..(NewCapacity - 1) -> Slot] :
     /\ Cardinality(Used(e)) <= Cardinality(Before(n))
     /\ Clean(e) => Found(e, NewCapacity)
     /\ (Clean(entries) /\ Found(entries, capacity)) =>
          /\ Clean(e)
          /\ \A j, w : Holds(e, j, w) <=>
                       \E i \in Before(n) : entries[i].key = j /\ entries[i].value = w}

\* One round of its loop, of the arrays X.
Round1(X, n) ==
  IF n = 0 THEN {[i \in 0..(NewCapacity - 1) |-> Empty]}
  ELSE IF entries[n - 1].mem = "none" THEN X
  ELSE UNION {ht_set_entry(e, NewCapacity, entries[n - 1]) : e \in X}

\* calloc gives an array of empty slots.
LEMMA ImageAtFirst ==
  ASSUME IsTable(entries, capacity)
  PROVE  [i \in 0..(NewCapacity - 1) |-> Empty] \in Image(0)
<1> DEFINE e == [i \in 0..(NewCapacity - 1) |-> Empty]
<1>1. Used(entries) \subseteq 0..(capacity - 1) /\ capacity \in Nat \ {0}
  BY UsedIsFinite DEF IsTable
<1>2. Before(0) = {}
  BY <1>1 DEF Before
<1>3. e \in [0..(NewCapacity - 1) -> Slot]
  BY DEF Slot
<1>4. Used(e) = {} /\ Freed(e) = {}
  BY DEF Used, Freed, Empty
<1>5. Cardinality({}) <= Cardinality({})
  BY FS_EmptySet
<1> HIDE DEF e
<1> QED BY <1>2, <1>3, <1>4, <1>5 DEF Image, Clean, Found, Holds, e

\* A round moves one slot.
LEMMA ImageAtNext ==
  ASSUME IsTable(entries, capacity), NEW n \in 1..capacity, entries[n - 1].mem # "none",
         NEW e \in Image(n - 1), NEW f \in ht_set_entry(e, NewCapacity, entries[n - 1])
  PROVE  f \in Image(n)
<1> DEFINE a == entries[n - 1]
           k == a.key
           v == a.value
<1>1. /\ capacity \in Nat \ {0} /\ NewCapacity \in Nat \ {0} /\ n - 1 \in 0..(capacity - 1)
      /\ n - 1 \in Used(entries)
  BY DEF IsTable, NewCapacity, Used
<1>2. a \in [key : Keys, value : Vals, mem : {"live", "freed"}] /\ IsFiniteSet(Used(entries))
      /\ Used(entries) \subseteq 0..(capacity - 1)
  BY <1>1, UsedIsFinite
<1>3. IsTable(e, NewCapacity)
  BY <1>1 DEF IsTable, Image
<1>4. IsTable(f, NewCapacity)
      /\ \E i \in 0..(NewCapacity - 1) :
           /\ i \in Probe(e, NewCapacity, a)
           /\ f = [e EXCEPT ![i] = IF @.mem = "none" THEN a ELSE [@ EXCEPT !.value = a.value]]
           /\ Used(f) = Used(e) \cup {i}
  <2> HIDE DEF a
  <2>1. f \in ht_set_entry(e, NewCapacity, a)
    BY DEF a
  <2> QED BY <2>1, <1>2, <1>3, SetEntryIs
<1>5. Before(n) = Before(n - 1) \cup {n - 1} /\ n - 1 \notin Before(n - 1)
  BY <1>1, <1>2 DEF Before
<1>6. Cardinality(Used(f)) <= Cardinality(Before(n))
  <2>1. IsFiniteSet(Before(n - 1))
    <3>1. Before(n - 1) \subseteq Used(entries)
      BY DEF Before
    <3> QED BY <3>1, <1>2, FS_Subset
  <2>2. Cardinality(Before(n)) = Cardinality(Before(n - 1)) + 1 /\ Cardinality(Before(n - 1)) \in Nat
    BY <2>1, <1>5, FS_AddElement, FS_CardinalityType
  <2>3. IsFiniteSet(Used(e)) /\ Cardinality(Used(e)) \in Nat
    BY <1>3, UsedIsFinite
  <2>4. Cardinality(Used(f)) <= Cardinality(Used(e)) + 1 /\ Cardinality(Used(f)) \in Nat
    <3>1. PICK i : Used(f) = Used(e) \cup {i}
      BY <1>4
    <3>2. IsFiniteSet(Used(e) \cup {i}) /\ Cardinality(Used(e) \cup {i}) <= Cardinality(Used(e)) + 1
      <4>1. \A U : IsFiniteSet(U) => /\ IsFiniteSet(U \cup {i})
                                     /\ Cardinality(U \cup {i}) = IF i \in U THEN Cardinality(U) ELSE Cardinality(U) + 1
        BY FS_AddElement
      <4> QED BY <2>3, <4>1
    <3> QED BY <3>1, <3>2, FS_CardinalityType
  <2>5. Cardinality(Used(e)) <= Cardinality(Before(n - 1))
    BY DEF Image
  <2> QED BY <2>2, <2>3, <2>4, <2>5
<1>7. ASSUME Clean(entries), Found(entries, capacity)
      PROVE  /\ Clean(f)
             /\ \A j, w : Holds(f, j, w) <=> \E i \in Before(n) : entries[i].key = j /\ entries[i].value = w
  <2>1. /\ Clean(e) /\ Found(e, NewCapacity)
        /\ \A j, w : Holds(e, j, w) <=> \E i \in Before(n - 1) : entries[i].key = j /\ entries[i].value = w
    BY <1>7 DEF Image
  <2>2. a.mem = "live" /\ k \in Keys /\ v \in Vals
    BY <1>1, <1>2, <1>7 DEF Clean, Freed, Used
  <2>3. a = Live(k, v)
    BY <1>2, <2>2 DEF Live
  <2>4. \A i \in Used(entries) : entries[i].key = k => i = n - 1
    <3> TAKE i \in Used(entries)
    <3> HAVE entries[i].key = k
    <3>1. i \in Stops(entries, capacity, k) /\ n - 1 \in Stops(entries, capacity, k)
      BY <1>1, <1>7 DEF Found
    <3> QED BY <3>1, <1>1, <2>2, StopIsUnique
  <2>5. /\ Clean(f) /\ Found(f, NewCapacity)
        /\ \A j, w : Holds(f, j, w) <=> IF j = k THEN w = v ELSE Holds(e, j, w)
    <3> HIDE DEF k, v
    <3>1. f \in ht_set_entry(e, NewCapacity, Live(k, v))
      BY <2>3
    <3> QED BY <3>1, <2>1, <2>2, <1>3, SetEntryKeeps
  <2>6. ASSUME NEW j, NEW w
        PROVE  (IF j = k THEN w = v ELSE Holds(e, j, w))
                 <=> \E i \in Before(n) : entries[i].key = j /\ entries[i].value = w
    <3>1. CASE j = k
      <4>1. \A i \in Before(n) : entries[i].key = k => i = n - 1
        BY <2>4 DEF Before
      <4> QED BY <3>1, <4>1, <1>5
    <3>2. CASE j # k
      BY <3>2, <2>1, <1>5
    <3> QED BY <3>1, <3>2
  <2> QED BY <2>5, <2>6
<1>8. Clean(f) => Found(f, NewCapacity)
  <2> HIDE DEF a
  <2>1. f \in ht_set_entry(e, NewCapacity, a) /\ (Clean(e) => Found(e, NewCapacity))
    BY DEF a, Image
  <2> QED BY <2>1, <1>2, <1>3, CleanIsFound
<1> QED BY <1>4, <1>6, <1>7, <1>8 DEF Image, IsTable

\* The whole loop: the arrays it may end with, by induction over its rounds.
LEMMA MovedIs ==
  ASSUME IsTable(entries, capacity)
  PROVE  Moved \subseteq Image(capacity)
<1> DEFINE cap == capacity
<1>0. cap \in Nat
  BY DEF IsTable
<1> DEFINE D == {m \in Nat : \E f : f = [n \in 0..m |-> Round1(f[n - 1], n)]}
<1>1. 0 \in D
  <2> DEFINE z == {[i \in 0..(NewCapacity - 1) |-> Empty]}
             f == [n \in 0..0 |-> z]
  <2>1. \A n \in 0..0 : n = 0
    OBVIOUS
  <2>2. \A X : Round1(X, 0) = z
    BY DEF Round1
  <2>3. f = [n \in 0..0 |-> Round1(f[n - 1], n)]
    <3> HIDE DEF z
    <3> QED BY <2>1, <2>2
  <2> QED BY <2>3
<1>2. ASSUME NEW m \in Nat, m \in D PROVE m + 1 \in D
  <2>1. PICK f : f = [n \in 0..m |-> Round1(f[n - 1], n)]
    BY <1>2
  <2> DEFINE g == [n \in 0..(m + 1) |-> IF n = m + 1 THEN Round1(f[m], m + 1) ELSE f[n]]
  <2>2. ASSUME NEW n \in 0..(m + 1) PROVE g[n] = Round1(g[n - 1], n)
    <3>1. CASE n = m + 1
      <4>1. g[m] = f[m] /\ n - 1 = m
        BY <3>1
      <4>2. g[n] = Round1(f[m], m + 1)
        BY <3>1
      <4> HIDE DEF g
      <4> QED BY <3>1, <4>1, <4>2
    <3>2. CASE n # m + 1 /\ n # 0
      <4>1. n \in 0..m /\ n - 1 \in 0..m
        BY <3>2
      <4>2. g[n] = f[n] /\ g[n - 1] = f[n - 1]
        BY <4>1
      <4>3. f[n] = Round1(f[n - 1], n)
        BY <4>1, <2>1
      <4> HIDE DEF g
      <4> QED BY <4>2, <4>3
    <3>3. CASE n = 0
      <4>1. g[0] = f[0] /\ 0 \in 0..m
        OBVIOUS
      <4>2. f[0] = Round1(f[0 - 1], 0)
        BY <4>1, <2>1
      <4>3. \A X, Y : Round1(X, 0) = Round1(Y, 0)
        BY DEF Round1
      <4> HIDE DEF g
      <4>4. g[0] = Round1(g[0 - 1], 0)
        BY <4>1, <4>2, <4>3
      <4> QED BY <3>3, <4>4
    <3> QED BY <3>1, <3>2, <3>3
  <2>3. g = [n \in 0..(m + 1) |-> g[n]]
    OBVIOUS
  <2>4. g = [n \in 0..(m + 1) |-> Round1(g[n - 1], n)]
    <3> HIDE DEF g
    <3> QED BY <2>2, <2>3
  <2> HIDE DEF g
  <2>5. m + 1 \in Nat /\ \E h : h = [n \in 0..(m + 1) |-> Round1(h[n - 1], n)]
    BY <2>4
  <2> QED BY <2>5
<1>3. cap \in D
  <2> HIDE DEF D
  <2> QED BY <1>0, <1>1, <1>2, NatInd
<1> DEFINE upTo == CHOOSE f : f = [n \in 0..cap |-> Round1(f[n - 1], n)]
<1>4. upTo = [n \in 0..cap |-> Round1(upTo[n - 1], n)]
  BY <1>3
<1>5. Moved = upTo[cap]
  BY DEF Moved, Round1
<1> HIDE DEF upTo
<1>6. \A n \in 0..cap : upTo[n] = Round1(upTo[n - 1], n)
  BY <1>4
<1> DEFINE S == {n \in Nat : n <= cap => upTo[n] \subseteq Image(n)}
<1>7. 0 \in S
  <2>1. upTo[0] = {[i \in 0..(NewCapacity - 1) |-> Empty]}
    <3>1. upTo[0] = Round1(upTo[0 - 1], 0)
      BY <1>0, <1>6
    <3> QED BY <3>1 DEF Round1
  <2> QED BY <2>1, ImageAtFirst
<1>8. ASSUME NEW n \in Nat, n \in S PROVE n + 1 \in S
  <2> SUFFICES ASSUME n + 1 <= cap PROVE upTo[n + 1] \subseteq Image(n + 1)
    OBVIOUS
  <2>1. n + 1 \in 1..cap /\ n + 1 \in 0..cap /\ (n + 1) - 1 = n /\ n \in 0..(cap - 1) /\ n + 1 # 0
    BY <1>0
  <2>2. upTo[n] \subseteq Image(n)
    BY <1>0, <1>8, <2>1
  <2>3. upTo[n + 1] = Round1(upTo[n], n + 1)
    BY <2>1, <1>6
  <2>4. CASE entries[n].mem = "none"
    <3>1. upTo[n + 1] = upTo[n]
      BY <2>1, <2>3, <2>4 DEF Round1
    <3>2. Before(n + 1) = Before(n)
      <4>0. Used(entries) \subseteq 0..(cap - 1)
        BY UsedIsFinite
      <4>1. n \notin Used(entries) /\ \A i \in Used(entries) : i \in Nat
        BY <2>4, <4>0 DEF Used
      <4>2. \A i \in Used(entries) : i < n + 1 <=> i < n
        BY <4>1, <2>1
      <4> QED BY <4>2 DEF Before
    <3>3. Image(n + 1) = Image(n)
      BY <3>2 DEF Image
    <3> QED BY <2>2, <3>1, <3>3
  <2>5. CASE entries[n].mem # "none"
    <3>1. upTo[n + 1] = UNION {ht_set_entry(e, NewCapacity, entries[n]) : e \in upTo[n]}
      BY <2>1, <2>3, <2>5 DEF Round1
    <3>2. ASSUME NEW e \in Image(n), NEW f \in ht_set_entry(e, NewCapacity, entries[n])
          PROVE  f \in Image(n + 1)
      BY <2>1, <2>5, <3>2, ImageAtNext
    <3> QED BY <2>2, <3>1, <3>2
  <2> QED BY <2>4, <2>5
<1>9. cap \in S
  <2> HIDE DEF S
  <2> QED BY <1>0, <1>7, <1>8, NatInd
<1> QED BY <1>0, <1>5, <1>9

-----------------------------------------------------------------------------
\* The inductive invariant.
Capacities == {cap \in Nat \ {0, 1} : cap <= MaxCapacity /\ \E n \in 1..MaxCapacity : cap = 2^n}

\* A table that the program can go on with: the array, its capacity and the length.
Usable(e, cap, len) ==
  /\ cap \in Capacities /\ IsTable(e, cap)
  /\ len \in Nat /\ Cardinality(Used(e)) <= len /\ len <= cap \div 2
  /\ Clean(e) => Found(e, cap)

\* The keys that the iterator has passed.
Seen == {entries[i].key : i \in {j \in Used(entries) : j < it.index}}

HtInv ==
  /\ table \in {"none", "live", "corrupt"}
  /\ Usable(entries, capacity, length)
  /\ it.index \in 0..capacity /\ it.seen = Seen

\* An array of empty slots.
LEMMA FreshIs ==
  ASSUME NEW cap \in Capacities, NEW e, e = [i \in 0..(cap - 1) |-> Empty]
  PROVE  Usable(e, cap, 0) /\ Used(e) = {} /\ Clean(e)
<1>1. cap \in Nat \ {0}
  BY DEF Capacities
<1>2. e \in [0..(cap - 1) -> Slot] /\ Used(e) = {} /\ Freed(e) = {}
  BY DEF Slot, Used, Freed, Empty
<1>3. Cardinality({}) <= 0 /\ 0 <= cap \div 2
  BY <1>1, FS_EmptySet
<1> QED BY <1>1, <1>2, <1>3 DEF Usable, IsTable, Clean, Found

\* The capacities are powers of two, and stay so when doubled.
LEMMA CapacityIs ==
  /\ InitialCapacity \in Capacities
  /\ \A cap \in Capacities : cap * 2 <= MaxCapacity => cap * 2 \in Capacities
<1>1. PICK n \in 1..MaxCapacity : InitialCapacity = 2^n
  BY HtAssumption
<1>2. n \in Nat /\ n >= 1
  BY HtAssumption
<1>3. InitialCapacity \in Nat \ {0, 1}
  BY <1>1, <1>2, PowerOfTwo
<1>4. ASSUME NEW cap \in Capacities, cap * 2 <= MaxCapacity PROVE cap * 2 \in Capacities
  <2>1. PICK m \in 1..MaxCapacity : cap = 2^m
    BY DEF Capacities
  <2>2. m \in Nat /\ MaxCapacity \in Nat /\ cap \in Nat \ {0, 1}
    BY HtAssumption DEF Capacities
  <2>3. cap * 2 = 2^(m + 1) /\ m + 1 <= cap
    BY <2>1, <2>2, PowerOfTwo
  <2>4. m + 1 \in 1..MaxCapacity /\ cap * 2 \in Nat \ {0, 1}
    BY <2>2, <2>3, <1>4
  <2> QED BY <2>3, <2>4, <1>4 DEF Capacities
<1> QED BY <1>1, <1>3, <1>4, HtAssumption DEF Capacities

\* What ht_set goes on with: the table as it is, or moved to twice the capacity; room for
\* one more.
LEMMA ExpandedIs ==
  ASSUME Usable(entries, capacity, length), NEW s \in Expanded
  PROVE  /\ Usable(s.entries, s.capacity, length) /\ s.length = length /\ s.ret \in {0, 1}
         /\ s.ret = 1 => length + 1 <= s.capacity \div 2
         /\ s.ret = 0 => s.entries = entries /\ s.capacity = capacity
         /\ Clean(entries) => /\ Clean(s.entries)
                              /\ \A j, w : Holds(s.entries, j, w) <=> Holds(entries, j, w)
<1>1. /\ capacity \in Capacities /\ capacity \in Nat \ {0, 1} /\ IsTable(entries, capacity)
      /\ length \in Nat /\ Cardinality(Used(entries)) <= length /\ length <= capacity \div 2
      /\ (Clean(entries) => Found(entries, capacity))
  BY DEF Usable, Capacities
<1>2. CASE ~MustExpand
  <2>1. s.entries = entries /\ s.capacity = capacity /\ s.length = length /\ s.ret = 1
    BY <1>2 DEF Expanded, State
  <2>2. length + 1 <= capacity \div 2
    BY <1>1, <1>2 DEF MustExpand
  <2> QED BY <2>1, <2>2
<1>3. CASE MustExpand /\ s = State(entries, capacity, length, 0)
  <2>1. s.entries = entries /\ s.capacity = capacity /\ s.length = length /\ s.ret = 0
    BY <1>3 DEF State
  <2> QED BY <2>1
<1>4. CASE MustExpand /\ s # State(entries, capacity, length, 0)
  <2>1. NewCapacity <= MaxCapacity /\ \E e \in Moved : s = State(e, NewCapacity, length, 1)
    BY <1>4, Zenon DEF Expanded
  <2>2. PICK e \in Moved : s.entries = e /\ s.capacity = NewCapacity /\ s.length = length /\ s.ret = 1
    BY <2>1 DEF State
  <2>3. NewCapacity \in Capacities /\ NewCapacity = capacity * 2
    BY <2>1, <1>1, CapacityIs DEF NewCapacity
  <2>4. e \in Image(capacity)
    BY <1>1, MovedIs
  <2>5. Before(capacity) = Used(entries)
    <3>1. Used(entries) \subseteq 0..(capacity - 1)
      BY <1>1, UsedIsFinite
    <3> QED BY <3>1, <1>1 DEF Before
  <2>6. /\ IsTable(e, NewCapacity) /\ Cardinality(Used(e)) <= Cardinality(Used(entries))
        /\ Clean(e) => Found(e, NewCapacity)
        /\ Clean(entries) => /\ Clean(e)
                             /\ \A j, w : Holds(e, j, w) <=> Holds(entries, j, w)
    <3>1. NewCapacity \in Nat \ {0}
      BY <2>3 DEF Capacities
    <3> QED BY <3>1, <2>4, <2>5, <1>1 DEF Image, IsTable, Holds
  <2>7. Cardinality(Used(e)) \in Nat /\ Cardinality(Used(entries)) \in Nat
    BY <2>6, <1>1, UsedIsFinite
  <2>8. Cardinality(Used(e)) <= length /\ length + 1 <= NewCapacity \div 2 /\ length <= NewCapacity \div 2
    BY <2>3, <2>6, <2>7, <1>1
  <2> QED BY <2>2, <2>3, <2>6, <2>8, <1>1 DEF Usable
<1> QED BY <1>2, <1>3, <1>4

\* ht_set leaves a table to go on with, whose map has changed for its key, or not at all.
LEMMA SetIs ==
  ASSUME Usable(entries, capacity, length), NEW k \in Keys, NEW v \in Vals, NEW r \in ht_set(k, v)
  PROVE  /\ Usable(r.entries, r.capacity, r.length) /\ r.ret \in {0, 1}
         /\ Clean(entries) =>
              /\ Clean(r.entries)
              /\ \A j, w : Holds(r.entries, j, w) <=>
                           IF r.ret = 1 /\ j = k THEN w = v ELSE Holds(entries, j, w)
<1>1. PICK s \in Expanded :
        r \in IF s.ret = 0 THEN {s}
              ELSE {State(e, s.capacity, s.length + Cardinality(Used(e) \ Used(s.entries)), 1)
                      : e \in ht_set_entry(s.entries, s.capacity, Live(k, v))}
                   \cup {[s EXCEPT !.ret = 0]
                           : i \in {j \in Probe(s.entries, s.capacity, Live(k, v)) :
                                      Faults /\ s.entries[j].mem = "none"}}
  BY DEF ht_set
<1>2. /\ Usable(s.entries, s.capacity, length) /\ s.length = length /\ s.ret \in {0, 1}
      /\ s.ret = 1 => length + 1 <= s.capacity \div 2
      /\ Clean(entries) => /\ Clean(s.entries)
                           /\ \A j, w : Holds(s.entries, j, w) <=> Holds(entries, j, w)
  BY ExpandedIs
<1>3. \E e, c, l, t : s = State(e, c, l, t)
  BY DEF Expanded
<1>4. CASE s.ret = 0
  <2>1. r = s
    BY <1>1, <1>4
  <2> QED BY <2>1, <1>2, <1>4
<1>5. CASE s.ret = 1 /\ r = [s EXCEPT !.ret = 0]
  <2>1. r.entries = s.entries /\ r.capacity = s.capacity /\ r.length = s.length /\ r.ret = 0
    BY <1>3, <1>5 DEF State
  <2> QED BY <2>1, <1>2
<1>6. CASE s.ret = 1 /\ r # [s EXCEPT !.ret = 0]
  <2>1. PICK e \in ht_set_entry(s.entries, s.capacity, Live(k, v)) :
          r = State(e, s.capacity, s.length + Cardinality(Used(e) \ Used(s.entries)), 1)
    BY <1>1, <1>6
  <2> DEFINE U == Used(s.entries)
             cap == s.capacity
             a == Live(k, v)
             more == Cardinality(Used(e) \ U)
  <2>2. /\ r.entries = e /\ r.capacity = cap /\ r.length = length + more /\ r.ret = 1
    BY <2>1, <1>2 DEF State
  <2>3. /\ cap \in Capacities /\ cap \in Nat \ {0, 1} /\ IsTable(s.entries, cap) /\ length \in Nat
        /\ Cardinality(U) <= length /\ length + 1 <= cap \div 2
        /\ (Clean(s.entries) => Found(s.entries, cap))
    BY <1>2, <1>6 DEF Usable, Capacities
  <2>4. a \in [key : Keys, value : Vals, mem : {"live", "freed"}]
    BY DEF Live
  <2>5. e \in ht_set_entry(s.entries, cap, a)
    BY <2>1
  <2> HIDE DEF a, cap
  <2>6. IsTable(e, cap) /\ \E i \in 0..(cap - 1) : Used(e) = U \cup {i}
    BY <2>3, <2>4, <2>5, SetEntryIs
  <2>7. IsFiniteSet(U) /\ Cardinality(U) \in Nat
    BY <2>3, UsedIsFinite
  <2>8. more \in {0, 1} /\ Cardinality(Used(e)) = Cardinality(U) + more
    <3> HIDE DEF U
    <3>1. PICK i \in 0..(cap - 1) : Used(e) = U \cup {i}
      BY <2>6
    <3>2. CASE i \in U
      <4>1. Used(e) = U /\ Used(e) \ U = {}
        BY <3>1, <3>2
      <4>2. Cardinality(Used(e)) = Cardinality(U) /\ Cardinality(Used(e) \ U) = 0
        BY <4>1, FS_EmptySet
      <4> QED BY <4>2, <2>7
    <3>3. CASE i \notin U
      <4>1. Used(e) \ U = {i} /\ Used(e) = U \cup {i}
        BY <3>1, <3>3
      <4>2. Cardinality({i}) = 1
        BY FS_Singleton
      <4>3. Cardinality(U \cup {i}) = Cardinality(U) + 1
        BY <2>7, <3>3, FS_AddElement
      <4> QED BY <4>1, <4>2, <4>3
    <3> QED BY <3>2, <3>3
  <2>9. Clean(e) => Found(e, cap)
    BY <2>3, <2>4, <2>5, CleanIsFound
  <2>10. Usable(e, cap, length + more)
    <3> HIDE DEF more, U
    <3>1. length + more \in Nat /\ Cardinality(Used(e)) <= length + more /\ length + more <= cap \div 2
      BY <2>3, <2>7, <2>8
    <3> QED BY <3>1, <2>3, <2>6, <2>9 DEF Usable
  <2>11. ASSUME Clean(entries)
         PROVE  Clean(e) /\ \A j, w : Holds(e, j, w) <=> IF j = k THEN w = v ELSE Holds(entries, j, w)
    <3>1. Clean(s.entries) /\ Found(s.entries, cap) /\ \A j, w : Holds(s.entries, j, w) <=> Holds(entries, j, w)
      BY <2>3, <2>11, <1>2
    <3>2. e \in ht_set_entry(s.entries, cap, Live(k, v))
      BY <2>5 DEF a
    <3>3. Clean(e) /\ \A j, w : Holds(e, j, w) <=> IF j = k THEN w = v ELSE Holds(s.entries, j, w)
      BY <3>1, <3>2, <2>3, SetEntryKeeps
    <3> QED BY <3>1, <3>3
  <2> HIDE DEF more
  <2> QED BY <2>2, <2>10, <2>11
<1> QED BY <1>2, <1>4, <1>5, <1>6

\* The next slot in use, if there is one.
LEMMA NextIs ==
  ASSUME IsTable(entries, capacity), it.index \in 0..capacity, ht_next # {}
  PROVE  LET n == CHOOSE i \in ht_next : \A j \in ht_next : i <= j
         IN  n \in ht_next /\ \A j \in ht_next : n <= j
<1>1. ht_next \in SUBSET Nat
  <2>1. Used(entries) \subseteq 0..(capacity - 1)
    BY UsedIsFinite
  <2> QED BY <2>1 DEF ht_next, IsTable
<1>2. \E i \in ht_next : \A j \in ht_next : i <= j
  BY <1>1, LeastNat
<1> QED BY <1>2

\* ht_remove leaves a slot in use; only where nothing was freed and nothing is, nothing
\* has changed.
LEMMA RemoveIs ==
  ASSUME Usable(entries, capacity, length), NEW k \in Keys, Remove(k)
  PROVE  /\ Usable(entries', capacity, length) /\ Used(entries') = Used(entries)
         /\ \A i \in Used(entries) : entries'[i].key = entries[i].key
         /\ Clean(entries') => entries' = entries
         /\ Clean(entries) /\ Clean(entries') => \A w : ~Holds(entries, k, w)
<1>1. PICK i \in Probe(entries, capacity, Live(k, NULL)) :
        entries' = IF entries[i].mem = "none" THEN entries ELSE [entries EXCEPT ![i].mem = "freed"]
  BY DEF Remove
<1>2. /\ capacity \in Nat \ {0} /\ i \in 0..(capacity - 1) /\ DOMAIN entries = 0..(capacity - 1)
      /\ \A j \in 0..(capacity - 1) : entries[j] \in Slot
  BY DEF Usable, IsTable, Probe
<1>3. CASE entries[i].mem = "none"
  <2>1. entries' = entries
    BY <1>1, <1>3
  <2>2. ASSUME Clean(entries) PROVE \A w : ~Holds(entries, k, w)
    <3>1. Live(k, NULL).key = k /\ Live(k, NULL).mem = "live"
      BY DEF Live
    <3>2. i \in Stops(entries, capacity, k)
      BY <3>1, <2>2, ProbeIs DEF Usable
    <3> QED BY <3>2, <2>2, <1>3, NotThere DEF Usable, Holds
  <2> QED BY <2>1, <2>2
<1>4. CASE entries[i].mem # "none"
  <2>1. entries[i] \in [key : Keys, value : Vals, mem : {"live", "freed"}]
    BY <1>2, <1>4 DEF Slot, Empty
  <2>2. /\ DOMAIN entries' = 0..(capacity - 1) /\ \A j \in 0..(capacity - 1) : j # i => entries'[j] = entries[j]
        /\ entries'[i] = [entries[i] EXCEPT !.mem = "freed"]
    BY <1>1, <1>2, <1>4
  <2>3. /\ entries'[i] \in [key : Keys, value : Vals, mem : {"live", "freed"}]
        /\ entries'[i].key = entries[i].key /\ entries'[i].mem = "freed"
    BY <2>1, <2>2
  <2>4. Used(entries') = Used(entries)
    BY <1>2, <1>4, <2>2, <2>3 DEF Used
  <2>5. ~Clean(entries')
    BY <1>2, <2>2, <2>3 DEF Clean, Freed
  <2>6. IsTable(entries', capacity)
    <3>1. \A j \in 0..(capacity - 1) : entries'[j] \in Slot
      BY <1>2, <2>2, <2>3 DEF Slot
    <3>2. entries' = [entries EXCEPT ![i].mem = "freed"]
      BY <1>1, <1>4
    <3>3. entries' = [j \in DOMAIN entries' |-> entries'[j]]
      BY <3>2
    <3> QED BY <3>1, <3>3, <1>2, <2>2 DEF IsTable
  <2>7. \A j \in Used(entries) : entries'[j].key = entries[j].key
    BY <1>2, <2>2, <2>3 DEF Used
  <2> QED BY <2>4, <2>5, <2>6, <2>7 DEF Usable
<1> QED BY <1>3, <1>4

-----------------------------------------------------------------------------
\* An iterator at the start has passed nothing.
LEMMA IteratorAtStart ==
  ASSUME Usable(entries', capacity', length'), it' = NoIterator
  PROVE  it'.index \in 0..capacity' /\ it'.seen = Seen'
<1>1. IsTable(entries', capacity') /\ capacity' \in Nat \ {0}
  BY DEF Usable, IsTable
<1>2. Used(entries') \subseteq 0..(capacity' - 1)
  BY <1>1, UsedIsFinite
<1>3. Seen' = {}
  BY <1>1, <1>2 DEF Seen, NoIterator
<1> QED BY <1>1, <1>3 DEF NoIterator

\* One lemma for each call.
LEMMA CreateKeeps == HtInv /\ Create => HtInv'
<1> SUFFICES ASSUME Create PROVE HtInv'
  OBVIOUS
<1>1. table' = "live" /\ it' = NoIterator
  BY DEF Create
<1>2. Usable(entries', capacity', length')
  <2>1. /\ capacity' = InitialCapacity /\ length' = 0 /\ InitialCapacity \in Capacities
        /\ entries' = [i \in 0..(InitialCapacity - 1) |-> Empty]
    BY CapacityIs DEF Create
  <2> QED BY <2>1, FreshIs
<1>3. it'.index \in 0..capacity' /\ it'.seen = Seen'
  BY <1>1, <1>2, IteratorAtStart
<1> QED BY <1>1, <1>2, <1>3 DEF HtInv

LEMMA DestroyIs ==
  ASSUME Usable(entries, capacity, length), Destroy
  PROVE  Usable(entries', capacity', length') /\ Used(entries') = {}
<1>1. capacity \in Capacities /\ DOMAIN entries = 0..(capacity - 1)
  BY DEF Usable, IsTable
<1>2. entries' = [i \in 0..(capacity - 1) |-> Empty] /\ capacity' = capacity /\ length' = 0
  BY <1>1 DEF Destroy
<1> QED BY <1>1, <1>2, FreshIs

LEMMA DestroyKeeps == HtInv /\ Destroy => HtInv'
<1> SUFFICES ASSUME HtInv, Destroy PROVE HtInv'
  OBVIOUS
<1>1. table' \in {"none", "live", "corrupt"} /\ it' = NoIterator
  BY DEF Destroy
<1>2. Usable(entries', capacity', length')
  BY DestroyIs DEF HtInv
<1>3. it'.index \in 0..capacity' /\ it'.seen = Seen'
  BY <1>1, <1>2, IteratorAtStart
<1> QED BY <1>1, <1>2, <1>3 DEF HtInv

LEMMA SetKeeps ==
  ASSUME HtInv, NEW k \in Keys, NEW v \in Vals, Set(k, v)
  PROVE  HtInv'
<1>1. table' = table /\ it' = NoIterator
  BY DEF Set
<1>2. PICK s \in ht_set(k, v) : entries' = s.entries /\ capacity' = s.capacity /\ length' = s.length
  BY DEF Set
<1>3. Usable(s.entries, s.capacity, s.length)
  BY SetIs DEF HtInv
<1>4. Usable(entries', capacity', length')
  BY <1>2, <1>3
<1>5. it'.index \in 0..capacity' /\ it'.seen = Seen'
  BY <1>1, <1>4, IteratorAtStart
<1> QED BY <1>1, <1>4, <1>5 DEF HtInv

LEMMA GetKeeps ==
  ASSUME HtInv, NEW k \in Keys, Get(k)
  PROVE  HtInv'
BY DEF HtInv, Get, Seen, Usable, IsTable, Used, Clean, Freed, Found, Stops, Passed

LEMMA RemoveKeeps ==
  ASSUME HtInv, NEW k \in Keys, Remove(k)
  PROVE  HtInv'
<1>1. /\ table' \in {"none", "live", "corrupt"}
      /\ capacity' = capacity /\ length' = length /\ it' = it
  BY DEF Remove
<1>2. /\ Usable(entries', capacity, length) /\ Used(entries') = Used(entries)
      /\ \A i \in Used(entries) : entries'[i].key = entries[i].key
  BY RemoveIs DEF HtInv
<1>3. Seen' = Seen
  BY <1>1, <1>2 DEF Seen
<1> QED BY <1>1, <1>2, <1>3 DEF HtInv

LEMMA IterateKeeps == HtInv /\ Iterate => HtInv'
<1> SUFFICES ASSUME HtInv, Iterate PROVE HtInv'
  OBVIOUS
<1>1. /\ table' = table /\ it' = NoIterator
      /\ entries' = entries /\ capacity' = capacity /\ length' = length
  BY DEF Iterate
<1>2. Usable(entries', capacity', length')
  BY <1>1 DEF HtInv
<1>3. it'.index \in 0..capacity' /\ it'.seen = Seen'
  BY <1>1, <1>2, IteratorAtStart
<1> QED BY <1>1, <1>2, <1>3 DEF HtInv

\* Between the iterator and the slot it stops at no slot is in use, and at the end none
\* is after it.
LEMMA NextKeeps ==
  ASSUME HtInv, NEW n, Next(n)
  PROVE  HtInv'
<1>1. /\ table' = table /\ entries' = entries /\ capacity' = capacity /\ length' = length
      /\ it.index < capacity
      /\ n = IF ht_next = {} THEN capacity ELSE CHOOSE i \in ht_next : \A j \in ht_next : i <= j
      /\ it' = [index |-> IF n = capacity THEN n ELSE n + 1,
                seen |-> IF n = capacity THEN it.seen ELSE it.seen \cup {entries[n].key}]
  BY DEF Next
<1>2. /\ IsTable(entries, capacity) /\ capacity \in Nat \ {0}
      /\ it.index \in 0..capacity /\ it.seen = Seen
  BY DEF HtInv, Usable, IsTable
<1>3. Used(entries) \subseteq 0..(capacity - 1)
  BY <1>2, UsedIsFinite
<1>4. Seen' = {entries[i].key : i \in {j \in Used(entries) : j < it'.index}}
  BY <1>1 DEF Seen
<1>5. it'.index \in 0..capacity /\ it'.seen = Seen'
  <2>1. CASE ht_next = {}
    <3>1. n = capacity /\ it'.index = capacity /\ it'.seen = it.seen
      BY <2>1, <1>1
    <3>2. \A j \in Used(entries) : j < it.index /\ j < capacity
      BY <2>1, <1>2, <1>3 DEF ht_next
    <3>3. {j \in Used(entries) : j < it'.index} = {j \in Used(entries) : j < it.index}
      BY <3>1, <3>2
    <3>4. Seen' = Seen
      BY <3>3, <1>4 DEF Seen
    <3> QED BY <3>1, <3>4, <1>2
  <2>2. CASE ht_next # {}
    <3>1. n \in ht_next /\ \A j \in ht_next : n <= j
      <4>1. n = CHOOSE i \in ht_next : \A j \in ht_next : i <= j
        BY <2>2, <1>1
      <4> QED BY <4>1, <2>2, <1>2, NextIs
    <3>2. n \in Used(entries) /\ n \in 0..(capacity - 1) /\ n >= it.index /\ n # capacity
      BY <3>1, <1>2, <1>3 DEF ht_next
    <3>3. it'.index = n + 1 /\ it'.seen = it.seen \cup {entries[n].key}
      BY <3>2, <1>1
    <3>4. \A j \in Used(entries) : j < n + 1 <=> (j < it.index \/ j = n)
      <4> TAKE j \in Used(entries)
      <4>1. j \in Nat
        BY <1>2, <1>3
      <4>2. j >= it.index => n <= j
        BY <3>1 DEF ht_next
      <4> QED BY <4>1, <4>2, <3>2, <1>2
    <3>5. {j \in Used(entries) : j < it'.index} = {j \in Used(entries) : j < it.index} \cup {n}
      BY <3>2, <3>3, <3>4
    <3>6. Seen' = Seen \cup {entries[n].key}
      BY <3>5, <1>4 DEF Seen
    <3> QED BY <3>2, <3>3, <3>6, <1>2
  <2> QED BY <2>1, <2>2
<1> QED BY <1>1, <1>5 DEF HtInv

LEMMA InvInit == HtInit => HtInv
<1> SUFFICES ASSUME HtInit PROVE HtInv
  OBVIOUS
<1>1. Usable(entries, capacity, length) /\ Used(entries) = {}
  <2>1. /\ capacity = InitialCapacity /\ length = 0 /\ InitialCapacity \in Capacities
        /\ entries = [i \in 0..(InitialCapacity - 1) |-> Empty]
    BY CapacityIs DEF HtInit
  <2> QED BY <2>1, FreshIs
<1>2. it.index = 0 /\ it.seen = {} /\ table = "none"
  BY DEF HtInit, NoIterator
<1>3. Seen = {}
  BY <1>1 DEF Seen
<1>4. capacity \in Nat
  BY <1>1 DEF Usable, IsTable
<1> QED BY <1>1, <1>2, <1>3, <1>4 DEF HtInv

LEMMA StepKeeps == HtInv /\ [HtNext]_htVars => HtInv'
<1> SUFFICES ASSUME HtInv, [HtNext]_htVars PROVE HtInv'
  OBVIOUS
<1>1. CASE Create
  BY <1>1, CreateKeeps
<1>2. CASE Destroy
  BY <1>2, DestroyKeeps
<1>3. CASE Iterate
  BY <1>3, IterateKeeps
<1>4. CASE \E n \in 0..capacity : Next(n)
  BY <1>4, NextKeeps
<1>5. CASE \E k \in Keys : Get(k)
  BY <1>5, GetKeeps
<1>6. CASE \E k \in Keys : Remove(k)
  BY <1>6, RemoveKeeps
<1>7. CASE \E k \in Keys, v \in Vals : Set(k, v)
  BY <1>7, SetKeeps
<1>8. CASE UNCHANGED htVars
  BY <1>8 DEF htVars, HtInv, Seen, Usable, IsTable, Used, Clean, Freed, Found, Stops, Passed
<1> QED BY <1>1, <1>2, <1>3, <1>4, <1>5, <1>6, <1>7, <1>8 DEF HtNext

LEMMA Invariance == HtSpec => []HtInv
BY InvInit, StepKeeps, PTL DEF HtSpec

-----------------------------------------------------------------------------
\* The table keeps its type: the capacity is a power of two through expansions that
\* succeed and that fail (ht.c:86, ht.c:178).
THEOREM CapacityIsPowerOfTwo == HtSpec => []HtTypeOK
<1>1. HtInv => HtTypeOK
  <2> SUFFICES ASSUME HtInv PROVE HtTypeOK
    OBVIOUS
  <2>1. /\ capacity \in Nat \ {0, 1} /\ capacity <= MaxCapacity
        /\ \E n \in 1..MaxCapacity : capacity = 2^n
        /\ entries \in [0..(capacity - 1) -> Slot]
        /\ length \in Nat /\ length <= capacity \div 2
    BY DEF HtInv, Usable, Capacities, IsTable
  <2>2. length \in 0..capacity
    BY <2>1
  <2>3. it.seen \subseteq Keys
    <3>1. \A i \in Used(entries) : entries[i].key \in Keys
      BY UsedIsFinite DEF HtInv, Usable
    <3> QED BY <3>1 DEF HtInv, Seen
  <2> QED BY <2>1, <2>2, <2>3 DEF HtTypeOK, HtInv, Slot
<1> QED BY <1>1, Invariance, PTL

\* No sequence of calls fills the table: every probing loop (ht.c:89, ht.c:114, ht.c:141)
\* meets an empty slot.
THEOREM ThereIsRoomToProbe == HtSpec => []RoomToProbe
<1>1. HtInv => RoomToProbe
  BY DEF HtInv, Usable, RoomToProbe
<1> QED BY <1>1, Invariance, PTL

\* A key that ht_set put into the table is found by the loop of ht_get, after any
\* collisions and expansions, until something is removed.
THEOREM EveryKeyIsFound == HtSpec => []KeysAreFound
<1>1. HtInv => KeysAreFound
  <2> SUFFICES ASSUME HtInv, Clean(entries), NEW i \in Used(entries)
               PROVE  Probe(entries, capacity, Live(entries[i].key, NULL)) = {i}
    BY DEF KeysAreFound
  <2> DEFINE k == entries[i].key
  <2>1. IsTable(entries, capacity) /\ Found(entries, capacity) /\ capacity \in Nat \ {0} /\ k \in Keys
    BY UsedIsFinite DEF HtInv, Usable, IsTable
  <2>2. Probe(entries, capacity, Live(k, NULL)) = Stops(entries, capacity, k)
    <3>1. Live(k, NULL).key = k /\ Live(k, NULL).mem = "live"
      BY DEF Live
    <3> QED BY <3>1, <2>1, ProbeIs
  <2>3. i \in Stops(entries, capacity, k)
    BY <2>1 DEF Found
  <2>4. \A j \in Stops(entries, capacity, k) : j = i
    <3> HIDE DEF k
    <3> QED BY <2>1, <2>3, StopIsUnique
  <2> QED BY <2>2, <2>3, <2>4
<1> QED BY <1>1, Invariance, PTL

\* ht_next visits the slot of every key before it returns false (ht.c:246).
THEOREM EveryKeyIsVisited == HtSpec => []IterationIsComplete
<1>1. HtInv => IterationIsComplete
  <2> SUFFICES ASSUME HtInv, it.index = capacity
               PROVE  it.seen = {entries[i].key : i \in Used(entries)}
    BY DEF IterationIsComplete
  <2>1. Used(entries) \subseteq 0..(capacity - 1) /\ capacity \in Nat
    BY UsedIsFinite DEF HtInv, Usable, IsTable
  <2>2. {j \in Used(entries) : j < it.index} = Used(entries)
    BY <2>1
  <2> QED BY <2>2 DEF HtInv, Seen
<1> QED BY <1>1, Invariance, PTL

\* Every probing loop ends, also where freed slots deceive it: there is an empty slot,
\* and the first slot where the loop may stop is not passed.
THEOREM EveryLoopEnds ==
  HtSpec => [](\A k \in Keys : Probe(entries, capacity, Live(k, NULL)) # {})
<1>1. HtInv => \A k \in Keys : Probe(entries, capacity, Live(k, NULL)) # {}
  <2> SUFFICES ASSUME HtInv, NEW k \in Keys PROVE Probe(entries, capacity, Live(k, NULL)) # {}
    OBVIOUS
  <2> DEFINE cap == capacity
             a == Live(k, NULL)
             h == First(k, cap)
             May(i) == entries[i].mem = "none" \/ MayMatch(a, entries[i])
             S == {d \in 0..(cap - 1) : May((h + d) % cap)}
  <2>1. /\ cap \in Nat \ {0, 1} /\ IsTable(entries, cap) /\ length \in Nat
        /\ Cardinality(Used(entries)) <= length /\ length <= cap \div 2
    BY DEF HtInv, Usable, Capacities
  <2>2. h \in 0..(cap - 1) /\ FirstIndexes(a, cap) = {h}
    BY <2>1, FirstIs DEF FirstIndexes, Live, First
  <2>3. PICK i \in 0..(cap - 1) : entries[i].mem = "none"
    <3> SUFFICES ASSUME \A i \in 0..(cap - 1) : entries[i].mem # "none" PROVE FALSE
      OBVIOUS
    <3>1. Used(entries) = 0..(cap - 1)
      BY <2>1 DEF Used, IsTable
    <3>2. Cardinality(0..(cap - 1)) = cap
      BY <2>1, FS_Interval
    <3> QED BY <2>1, <3>1, <3>2
  <2> HIDE DEF h, a
  <2>4. S # {}
    <3>1. (i - h) % cap \in 0..(cap - 1) /\ (h + ((i - h) % cap)) % cap = i
      BY <2>1, <2>2, Round
    <3> QED BY <2>3, <3>1
  <2>5. PICK d \in S : \A c \in S : d <= c
    <3>1. S \in SUBSET Nat
      BY <2>1
    <3> HIDE DEF S
    <3> QED BY <2>4, <3>1, LeastNat
  <2> DEFINE j == (h + d) % cap
  <2>6. j \in 0..(cap - 1) /\ (j - h) % cap = d /\ May(j)
    BY <2>1, <2>2, Round
  <2>7. \A c \in 0..(d - 1) : ~May((h + c) % cap)
    BY <2>1, <2>5
  <2> HIDE DEF j
  <2>8. \A c \in 0..(d - 1) : entries[(h + c) % cap].mem # "none" /\ MayDiffer(a, entries[(h + c) % cap])
    BY <2>7 DEF MayMatch, MayDiffer
  <2>9. j \in Probe(entries, cap, a)
    <3> HIDE DEF S
    <3> QED BY <2>2, <2>6, <2>8 DEF Probe
  <2> QED BY <2>9 DEF a
<1> QED BY <1>1, Invariance, PTL

-----------------------------------------------------------------------------
\* The map is what the slots in use hold.
LEMMA MapIs ==
  ASSUME NEW cap, NEW e, IsTable(e, cap), Found(e, cap)
  PROVE  /\ \A k \in Keys : \A w : Holds(e, k, w) <=> w # NULL /\ w = MapOf(e)[k]
         /\ \A i \in Used(e) : e[i].key \in Keys /\ e[i].value = MapOf(e)[e[i].key]
<1>1. ASSUME NEW k \in Keys, NEW w PROVE Holds(e, k, w) <=> w # NULL /\ w = MapOf(e)[k]
  <2> DEFINE at == CHOOSE i \in Used(e) : e[i].key = k
  <2>1. MapOf(e)[k] = IF \E i \in Used(e) : e[i].key = k THEN e[at].value ELSE NULL
    BY DEF MapOf
  <2>2. \A i \in Used(e) : e[i].key = k => i = at
    <3>1. \A i, j \in Used(e) : e[i].key = k /\ e[j].key = k => i = j
      <4> TAKE i, j \in Used(e)
      <4> HAVE e[i].key = k /\ e[j].key = k
      <4>1. i \in Stops(e, cap, k) /\ j \in Stops(e, cap, k)
        BY DEF Found
      <4> QED BY <4>1, StopIsUnique DEF IsTable
    <3> QED BY <3>1
  <2>3. \A i \in Used(e) : e[i].value # NULL
    BY UsedIsFinite, HtAssumption
  <2> HIDE DEF at
  <2> QED BY <2>1, <2>2, <2>3 DEF Holds
<1>2. \A i \in Used(e) : e[i].key \in Keys /\ Holds(e, e[i].key, e[i].value)
  BY UsedIsFinite DEF Holds
<1> QED BY <1>1, <1>2

\* Two arrays that hold the same have the same map; so does one where a value was replaced.
LEMMA MapOfHolds ==
  ASSUME NEW cap, NEW e, IsTable(e, cap), Found(e, cap),
         NEW cap2, NEW f, IsTable(f, cap2), Found(f, cap2)
  PROVE  /\ (\A j, w : Holds(f, j, w) <=> Holds(e, j, w)) => MapOf(f) = MapOf(e)
         /\ \A k \in Keys, v \in Vals :
              (\A j, w : Holds(f, j, w) <=> IF j = k THEN w = v ELSE Holds(e, j, w))
                => MapOf(f) = [MapOf(e) EXCEPT ![k] = v]
<1> DEFINE M == MapOf(e)
           N == MapOf(f)
<1>1. /\ \A k \in Keys : \A w : Holds(e, k, w) <=> w # NULL /\ w = M[k]
      /\ \A k \in Keys : \A w : Holds(f, k, w) <=> w # NULL /\ w = N[k]
  BY MapIs
<1>2. M = [k \in Keys |-> M[k]] /\ N = [k \in Keys |-> N[k]]
  BY DEF MapOf
<1>3. \A v \in Vals : v # NULL
  BY HtAssumption
<1> HIDE DEF M, N
<1>4. ASSUME \A j, w : Holds(f, j, w) <=> Holds(e, j, w) PROVE N = M
  <2>1. \A k \in Keys : N[k] = M[k]
    BY <1>1, <1>4
  <2> QED BY <2>1, <1>2
<1>5. ASSUME NEW k \in Keys, NEW v \in Vals,
             \A j, w : Holds(f, j, w) <=> IF j = k THEN w = v ELSE Holds(e, j, w)
      PROVE  N = [M EXCEPT ![k] = v]
  <2>1. N[k] = v
    BY <1>1, <1>3, <1>5
  <2>2. \A j \in Keys : j # k => N[j] = M[j]
    BY <1>1, <1>5
  <2> QED BY <2>1, <2>2, <1>2
<1> QED BY <1>4, <1>5 DEF M, N

\* No slot in use, no value.
LEMMA NoneInUse ==
  ASSUME NEW e, Used(e) = {}
  PROVE  MapOf(e) = [k \in Keys |-> NULL]
BY DEF MapOf

\* What ht_get returns is the value the map has.
LEMMA GetIs ==
  ASSUME IsTable(entries, capacity), Clean(entries), Found(entries, capacity),
         NEW k \in Keys, NEW v \in ht_get(k)
  PROVE  v = MapOf(entries)[k]
<1>1. PICK i \in Probe(entries, capacity, Live(k, NULL)) : v = entries[i].value
  BY DEF ht_get
<1>2. i \in Stops(entries, capacity, k)
  <2>1. Live(k, NULL).key = k /\ Live(k, NULL).mem = "live"
    BY DEF Live
  <2> QED BY <2>1, ProbeIs
<1>3. i \in 0..(capacity - 1) /\ DOMAIN entries = 0..(capacity - 1) /\ entries[i] \in Slot
  BY <1>2 DEF Stops, IsTable
<1>4. CASE entries[i].mem = "none"
  <2>1. \A j \in Used(entries) : entries[j].key # k
    BY <1>2, <1>4, NotThere
  <2>2. entries[i].value = NULL
    BY <1>3, <1>4 DEF Slot, Empty
  <2> QED BY <2>1, <2>2, <1>1 DEF MapOf
<1>5. CASE entries[i].mem # "none"
  <2>1. i \in Used(entries) /\ entries[i].key = k
    BY <1>2, <1>3, <1>5 DEF Used, Stops
  <2> QED BY <2>1, <1>1, MapIs
<1> QED BY <1>4, <1>5

\* Each step, with nothing removed before it nor after it, is a step of the abstract map.
LEMMA StepIsOfMap ==
  ASSUME HtInv, HtInv', HtNext, Clean(entries), Clean(entries')
  PROVE  \/ /\ KV!MapNext
            /\ call'.op = "get" => call'.ret = MapOf(entries)[call'.key]
         \/ UNCHANGED <<MapOf(entries), call>>
<1> DEFINE M == MapOf(entries)
           N == MapOf(entries)'
<1>1. /\ IsTable(entries, capacity) /\ Found(entries, capacity)
      /\ IsTable(entries', capacity') /\ Found(entries', capacity')
      /\ N = MapOf(entries')
  BY DEF HtInv, Usable
<1>2. CASE Create \/ Destroy
  <2>1. Used(entries') = {} /\ call' = [op |-> "none"]
    <3>1. CASE Create
      BY <3>1 DEF Create, Used, Empty
    <3>2. CASE Destroy
      BY <3>2, DestroyIs DEF HtInv, Destroy
    <3> QED BY <1>2, <3>1, <3>2
  <2>2. N = [k \in Keys |-> NULL]
    BY <2>1, <1>1, NoneInUse
  <2>3. KV!Restart
    BY <2>1, <2>2 DEF KV!Restart
  <2> QED BY <2>1, <2>3 DEF KV!MapNext
<1>3. CASE Iterate \/ \E n \in 0..capacity : Next(n)
  BY <1>3 DEF Iterate, Next, MapOf, Used
<1>4. ASSUME NEW k \in Keys, Get(k)
      PROVE  KV!MapNext /\ (call'.op = "get" => call'.ret = M[call'.key])
  <2>1. PICK v \in ht_get(k) : call' = [op |-> "get", key |-> k, ret |-> v]
    BY <1>4 DEF Get
  <2>2. v = M[k] /\ N = M
    <3>1. v = M[k]
      BY <2>1, <1>1, GetIs
    <3>2. entries' = entries
      BY <1>4 DEF Get
    <3> QED BY <3>1, <3>2, <1>1
  <2> HIDE DEF M, N
  <2>3. KV!Get(k)
    BY <2>1, <2>2 DEF KV!Get, M, N
  <2>4. KV!MapNext
    BY <2>3 DEF KV!MapNext, KV!Common
  <2> QED BY <2>1, <2>2, <2>4
<1>5. ASSUME NEW k \in Keys, Remove(k)
      PROVE  KV!MapNext /\ call'.op # "get"
  <2>1. call' = [op |-> "remove", key |-> k, ret |-> 1]
    BY <1>5 DEF Remove
  <2>2. entries' = entries /\ \A w : ~Holds(entries, k, w)
    BY <1>5, RemoveIs DEF HtInv
  <2>3. M[k] = NULL
    BY <2>2, <1>1, MapIs
  <2>4. N = [M EXCEPT ![k] = NULL]
    <3>1. M = [j \in Keys |-> M[j]]
      BY DEF MapOf
    <3>2. N = M
      BY <2>2, <1>1
    <3> HIDE DEF M, N
    <3> QED BY <3>1, <3>2, <2>3
  <2>5. KV!Remove(k)
    BY <2>1, <2>4 DEF KV!Remove
  <2> QED BY <2>1, <2>5 DEF KV!MapNext, KV!Common
<1>6. ASSUME NEW k \in Keys, NEW v \in Vals, Set(k, v)
      PROVE  KV!MapNext /\ call'.op # "get"
  <2>1. PICK s \in ht_set(k, v) :
          /\ entries' = s.entries
          /\ call' = [op |-> "set", key |-> k, val |-> v, ret |-> s.ret]
    BY <1>6 DEF Set
  <2>2. /\ s.ret \in {0, 1}
        /\ \A j, w : Holds(entries', j, w) <=> IF s.ret = 1 /\ j = k THEN w = v ELSE Holds(entries, j, w)
    BY <2>1, SetIs DEF HtInv
  <2>3. CASE s.ret = 1
    <3>1. \A j, w : Holds(entries', j, w) <=> IF j = k THEN w = v ELSE Holds(entries, j, w)
      BY <2>2, <2>3
    <3>2. N = [M EXCEPT ![k] = v]
      BY <3>1, <1>1, MapOfHolds
    <3>3. KV!Overwrite(k, v)
      BY <2>1, <2>3, <3>2 DEF KV!Overwrite
    <3> QED BY <2>1, <3>3 DEF KV!MapNext
  <2>4. CASE s.ret = 0
    <3>1. \A j, w : Holds(entries', j, w) <=> Holds(entries, j, w)
      BY <2>2, <2>4
    <3>2. N = M
      BY <3>1, <1>1, MapOfHolds
    <3>3. KV!SetFails(k, v)
      BY <2>1, <2>4, <3>2 DEF KV!SetFails
    <3> QED BY <2>1, <3>3 DEF KV!MapNext
  <2> QED BY <2>2, <2>3, <2>4
<1> QED BY <1>2, <1>3, <1>4, <1>5, <1>6 DEF HtNext

\* While nothing has been removed the table is a map: ht_set makes the value current or
\* changes nothing, ht_get returns the current value (ht.c:107, ht.c:207).
THEOREM TableIsAMap == HtSpec => ActsAsMap
<1>1. HtInv /\ HtInv' /\ [HtNext]_htVars
        => [(Clean(entries) /\ Clean(entries')) =>
              /\ KV!MapNext
              /\ call'.op = "get" => call'.ret = MapOf(entries)[call'.key]]_<<MapOf(entries), call>>
  <2>1. CASE HtNext
    BY <2>1, StepIsOfMap
  <2>2. CASE UNCHANGED htVars
    BY <2>2 DEF htVars, MapOf, Used
  <2> QED BY <2>1, <2>2
<1> QED BY <1>1, Invariance, PTL DEF HtSpec, ActsAsMap

=============================================================================
