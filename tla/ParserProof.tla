---------------------------- MODULE ParserProof ----------------------------
(***************************************************************************)
(* Theorems about msg_parser.c and str_slice for requests of any length    *)
(* over any bytes, and about ini.c for files of any length.                *)
(*                                                                         *)
(* A slice is described by its C string: it is the part of the string of   *)
(* the buffer that lies between two positions, and ends where that string  *)
(* does.                                                                   *)
(*                                                                         *)
(* The second half is about ini.c, for files of any length and buffers of  *)
(* any size.  Reached says of the state of the parser before a piece what  *)
(* the pieces of the file before it make of it; every turn of the loop     *)
(* keeps it.                                                               *)
(***************************************************************************)
EXTENDS MCParsers, FiniteSetTheorems, WellFoundedInduction, SequenceTheorems, TLAPS

\* What a request may hold, and its padding.
Byte == Alphabet \cup {NUL}

\* A set of naturals that is not empty has a least member.
LEMMA LeastNat ==
  ASSUME NEW S \in SUBSET Nat, S # {}
  PROVE  \E m \in S : \A k \in S : m <= k
<1> DEFINE R == {ss \in Nat \X Nat : ss[1] < ss[2]}
<1>1. IsWellFoundedOn(R, Nat)
  BY NatLessThanWellFounded DEF OpToRel
<1>2. \E x \in S : \A y \in S : ~(<<y, x>> \in R)
  <2> HIDE DEF R
  <2> QED BY <1>1, WFMin
<1>3. \A x, y \in Nat : ~(<<y, x>> \in R) => x <= y
  OBVIOUS
<1> QED BY <1>2, <1>3

\* Two sequences of the same bytes are the same.
LEMMA SameBytes ==
  ASSUME NEW s \in Seq(Byte), NEW t \in Seq(Byte), Len(s) = Len(t), \A i \in 1..Len(s) : s[i] = t[i]
  PROVE  s = t
BY SeqEqual

\* A part of a sequence, from a position to one that is not before it by more than one.
LEMMA PartIs ==
  ASSUME NEW s \in Seq(Byte), NEW from \in Nat, NEW to \in Nat, from <= to, to <= Len(s)
  PROVE  /\ SubSeq(s, from + 1, to) \in Seq(Byte) /\ Len(SubSeq(s, from + 1, to)) = to - from
         /\ \A i \in 1..(to - from) : SubSeq(s, from + 1, to)[i] = s[from + i]
<1> DEFINE m == from + 1
<1>1. m \in 1..(Len(s) + 1) /\ to \in (m - 1)..Len(s)
  BY LenProperties
<1>2. /\ SubSeq(s, m, to) \in Seq(Byte) /\ Len(SubSeq(s, m, to)) = to - m + 1
      /\ \A i \in 1..(to - m + 1) : SubSeq(s, m, to)[i] = s[m + i - 1]
  <2> HIDE DEF m
  <2> QED BY <1>1, SubSeqProperties
<1>3. to - m + 1 = to - from /\ \A i \in 1..(to - from) : m + i - 1 = from + i
  OBVIOUS
<1> QED BY <1>2, <1>3

-----------------------------------------------------------------------------
\* The length of a C string: the bytes before the first NUL of its block.
LEMMA StrlenIs ==
  ASSUME NEW b \in Seq(Byte)
  PROVE  /\ strlen(b) \in 0..Len(b)
         /\ \A i \in 1..strlen(b) : b[i] # NUL
         /\ strlen(b) < Len(b) => b[strlen(b) + 1] = NUL
<1> DEFINE N == {i \in 0..(Len(b) - 1) : b[i + 1] = NUL}
           l == strlen(b)
<1>1. CASE N = {}
  <2>1. l = Len(b)
    BY <1>1 DEF strlen
  <2>2. \A i \in 1..Len(b) : b[i] # NUL
    <3> TAKE i \in 1..Len(b)
    <3>1. i - 1 \in 0..(Len(b) - 1) /\ (i - 1) + 1 = i
      OBVIOUS
    <3> QED BY <3>1, <1>1
  <2> QED BY <2>1, <2>2
<1>2. CASE N # {}
  <2>1. \E i \in N : \A j \in N : i <= j
    <3>1. N \in SUBSET Nat
      OBVIOUS
    <3> HIDE DEF N
    <3> QED BY <3>1, <1>2, LeastNat
  <2>2. l = First(N)
    BY <1>2 DEF strlen
  <2>3. l \in N /\ \A j \in N : l <= j
    <3> HIDE DEF N, l
    <3> QED BY <2>1, <2>2 DEF First
  <2> HIDE DEF l
  <2>4. l \in 0..(Len(b) - 1) /\ b[l + 1] = NUL
    BY <2>3
  <2>5. \A i \in 1..l : b[i] # NUL
    <3> SUFFICES ASSUME NEW i \in 1..l, b[i] = NUL PROVE FALSE
      OBVIOUS
    <3>1. i - 1 \in N /\ i - 1 < l
      BY <2>4
    <3> QED BY <3>1, <2>3, <2>4
  <2> QED BY <2>4, <2>5 DEF l
<1> QED BY <1>1, <1>2

\* It is the only such length.
LEMMA StrlenIsThat ==
  ASSUME NEW b \in Seq(Byte), NEW n \in 0..Len(b), \A i \in 1..n : b[i] # NUL,
         n < Len(b) => b[n + 1] = NUL
  PROVE  strlen(b) = n
<1> DEFINE l == strlen(b)
<1>1. /\ l \in 0..Len(b) /\ \A i \in 1..l : b[i] # NUL
      /\ l < Len(b) => b[l + 1] = NUL
  BY StrlenIs
<1> HIDE DEF l
<1>2. ~(l < n)
  <2> SUFFICES ASSUME l < n PROVE FALSE
    OBVIOUS
  <2>1. l + 1 \in 1..n /\ l < Len(b)
    BY <1>1
  <2> QED BY <2>1, <1>1
<1>3. ~(n < l)
  <2> SUFFICES ASSUME n < l PROVE FALSE
    OBVIOUS
  <2>1. n + 1 \in 1..l /\ n < Len(b)
    BY <1>1
  <2> QED BY <2>1, <1>1
<1> QED BY <1>1, <1>2, <1>3 DEF l

\* The string itself.
LEMMA CStrIs ==
  ASSUME NEW b \in Seq(Byte)
  PROVE  /\ CStr(b) \in Seq(Byte) /\ Len(CStr(b)) = strlen(b)
         /\ \A i \in 1..strlen(b) : CStr(b)[i] = b[i]
<1>1. strlen(b) \in Nat /\ strlen(b) <= Len(b)
  BY StrlenIs
<1>2. CStr(b) = SubSeq(b, 0 + 1, strlen(b))
  BY DEF CStr
<1> QED BY <1>1, <1>2, PartIs

\* A copy of n bytes is NUL-padded where the string ends before them.
LEMMA CopyIs ==
  ASSUME NEW b \in Seq(Byte), NEW from \in Nat, from < strlen(b), NEW n \in Nat
  PROVE  LET c == CopyOut(b, from, n)
             to == IF from + n <= strlen(b) THEN from + n ELSE strlen(b)
         IN  c \in Seq(Byte) /\ CStr(c) = SubSeq(CStr(b), from + 1, to)
<1> DEFINE c == CopyOut(b, from, n)
           to == IF from + n <= strlen(b) THEN from + n ELSE strlen(b)
           l == to - from
<1>1. c = [i \in 1..n |-> IF from + i <= strlen(b) THEN b[from + i] ELSE NUL]
  BY DEF CopyOut
<1>2. /\ strlen(b) \in 0..Len(b) /\ \A i \in 1..strlen(b) : b[i] # NUL
      /\ Len(b) \in Nat /\ \A i \in 1..Len(b) : b[i] \in Byte
  BY StrlenIs
<1>3. to \in Nat /\ from <= to /\ to <= strlen(b) /\ l \in 0..n /\ from + l = to
  BY <1>2
<1>4. c \in Seq(Byte) /\ Len(c) = n
  <2>1. \A i \in 1..n : from + i <= strlen(b) => from + i \in 1..Len(b)
    BY <1>2
  <2>2. c \in [1..n -> Byte]
    <3> HIDE DEF c
    <3> QED BY <2>1, <1>1, <1>2 DEF Byte
  <2> QED BY <2>2
<1>5. strlen(c) = l
  <2>1. \A i \in 1..l : c[i] # NUL
    <3> TAKE i \in 1..l
    <3>1. from + i <= strlen(b) /\ from + i \in 1..strlen(b) /\ i \in 1..n
      BY <1>2, <1>3
    <3> QED BY <3>1, <1>1, <1>2
  <2>2. l < n => c[l + 1] = NUL
    <3> SUFFICES ASSUME l < n PROVE c[l + 1] = NUL
      OBVIOUS
    <3>1. l + 1 \in 1..n /\ ~(from + (l + 1) <= strlen(b))
      BY <1>2, <1>3
    <3> QED BY <3>1, <1>1
  <2> HIDE DEF c, l
  <2> QED BY <2>1, <2>2, <1>3, <1>4, StrlenIsThat
<1>6. /\ CStr(c) \in Seq(Byte) /\ Len(CStr(c)) = l
      /\ \A i \in 1..l : CStr(c)[i] = c[i]
  <2> HIDE DEF c, l
  <2> QED BY <1>4, <1>5, CStrIs
<1>7. /\ CStr(b) \in Seq(Byte) /\ Len(CStr(b)) = strlen(b)
      /\ \A i \in 1..strlen(b) : CStr(b)[i] = b[i]
  BY CStrIs
<1> DEFINE p == SubSeq(CStr(b), from + 1, to)
<1>8. /\ p \in Seq(Byte) /\ Len(p) = l /\ \A i \in 1..l : p[i] = CStr(b)[from + i]
  <2> HIDE DEF to
  <2> QED BY <1>3, <1>7, PartIs
<1>9. \A i \in 1..l : CStr(c)[i] = p[i]
  <2> TAKE i \in 1..l
  <2>1. i \in 1..n /\ from + i \in 1..strlen(b) /\ from + i <= strlen(b)
    BY <1>2, <1>3
  <2>2. c[i] = b[from + i]
    BY <2>1, <1>1
  <2> HIDE DEF c, l, p
  <2> QED BY <2>1, <2>2, <1>6, <1>7, <1>8
<1>10. CStr(c) = p
  <2> HIDE DEF c, l, p
  <2> QED BY <1>6, <1>8, <1>9, SameBytes
<1> QED BY <1>4, <1>10

\* str_slice for indexes of the same sign, without the order of its tests.
LEMMA SliceIs ==
  ASSUME NEW b \in Seq(Byte), NEW from \in Int, NEW to \in Int
  PROVE  LET n == strlen(b) IN
         str_slice(b, from, to) =
           IF n = 0 \/ from >= to \/ (from < 0) # (to < 0) THEN NULL
           ELSE IF from < 0
                THEN IF n + to <= 0 THEN NULL
                     ELSE CopyOut(b, IF n + from < 0 THEN 0 ELSE n + from,
                                  IF n + from < 0 THEN n + to ELSE to - from)
                ELSE IF from >= n THEN NULL ELSE CopyOut(b, from, to - from)
<1> DEFINE n == strlen(b)
           f == IF -from > n THEN -n ELSE from
<1>1. n \in Nat
  BY StrlenIs
<1>2. str_slice(b, from, to) =
        IF n = 0 THEN NULL
        ELSE IF to < 0 /\ from < to
             THEN IF -to > n - 1 THEN NULL ELSE CopyOut(b, n + f, to - f)
        ELSE IF from >= 0 /\ to > from
             THEN IF from > n - 1 THEN NULL ELSE CopyOut(b, from, to - from)
        ELSE NULL
  BY DEF str_slice
<1>3. /\ n + f = IF n + from < 0 THEN 0 ELSE n + from
      /\ to - f = IF n + from < 0 THEN n + to ELSE to - from
  BY <1>1
<1> HIDE DEF n, f
<1>4. CASE from < 0 /\ to < 0
  <2>1. -to > n - 1 <=> n + to <= 0
    BY <1>1
  <2> QED BY <2>1, <1>1, <1>2, <1>3, <1>4 DEF n
<1>5. CASE ~(from < 0 /\ to < 0)
  <2>1. from > n - 1 <=> from >= n
    BY <1>1
  <2> QED BY <2>1, <1>1, <1>2, <1>5 DEF n
<1> QED BY <1>4, <1>5

\* A slice is a selection of the string.
LEMMA SliceSelects ==
  ASSUME NEW b \in Seq(Byte), NEW from \in Int, NEW to \in Int
  PROVE  LET block == str_slice(b, from, to)
             sel == Selection(CStr(b), from, to)
         IN  IF sel = NULL THEN block = NULL
             ELSE block # NULL /\ CStr(block) = sel
<1> DEFINE n == strlen(b)
           s == CStr(b)
           block == str_slice(b, from, to)
           sel == Selection(s, from, to)
           x == IF from >= 0 THEN from ELSE IF n + from < 0 THEN 0 ELSE n + from
           y == IF to >= 0 THEN IF to < n THEN to ELSE n ELSE n + to
<1>1. n \in Nat /\ s \in Seq(Byte) /\ Len(s) = n /\ NULL \notin Seq(Byte)
  BY StrlenIs, CStrIs, ParsersAssumption DEF Byte
<1>2. sel = IF (from < 0) # (to < 0) \/ from >= to \/ x >= n \/ y <= 0
            THEN NULL ELSE SubSeq(s, x + 1, y)
  <2> HIDE DEF s, n
  <2> QED BY <1>1 DEF Selection
<1>3. CASE (from < 0) # (to < 0) \/ from >= to \/ x >= n \/ y <= 0
  <2>1. block = NULL
    <3> HIDE DEF s
    <3> QED BY <1>1, <1>3, SliceIs
  <2> QED BY <1>2, <1>3, <2>1
<1>4. CASE ~((from < 0) # (to < 0) \/ from >= to \/ x >= n \/ y <= 0)
  <2> DEFINE l == IF from < 0 THEN IF n + from < 0 THEN n + to ELSE to - from ELSE to - from
  <2>1. x \in Nat /\ l \in Nat /\ x < n /\ n # 0 /\ (IF x + l <= n THEN x + l ELSE n) = y
        /\ x <= y /\ y \in Nat /\ y <= n
    BY <1>1, <1>4
  <2>2. block = CopyOut(b, x, l)
    BY <1>1, <1>4, <2>1, SliceIs
  <2> HIDE DEF x, l, y
  <2>3. block \in Seq(Byte) /\ CStr(block) = SubSeq(s, x + 1, y)
    BY <2>1, <2>2, CopyIs
  <2>4. SubSeq(s, x + 1, y) \in Seq(Byte)
    BY <2>1, <1>1, PartIs
  <2>5. sel = SubSeq(s, x + 1, y)
    BY <1>2, <1>4
  <2> HIDE DEF block, sel, s
  <2>6. block # NULL /\ CStr(block) = sel /\ sel # NULL
    BY <2>3, <2>4, <2>5, <1>1
  <2> QED BY <2>6 DEF block, sel, s
<1> QED BY <1>3, <1>4

-----------------------------------------------------------------------------
\* Where the scan for the key's end stops.
LEMMA EndIs ==
  ASSUME NEW b \in Seq(Byte), NEW e \in 2..(Len(b) - 1), b[e + 1] = BAR,
         \A i \in 2..(e - 1) : b[i + 1] # BAR
  PROVE  get_end_of_key(b) = e
<1>1. Len(b) \in Nat /\ Len(b) >= 3 /\ e \in Nat
  BY LenProperties
<1>2. e \in KeyBars(b) /\ \A i \in KeyBars(b) : i \in Nat /\ i >= e
  BY <1>1 DEF KeyBars
<1>3. First(KeyBars(b)) = e
  <2> DEFINE f == First(KeyBars(b))
  <2>1. f \in KeyBars(b) /\ \A i \in KeyBars(b) : f <= i
    BY <1>2 DEF First
  <2>2. f <= e /\ f >= e /\ f \in Nat
    BY <1>2, <2>1
  <2> QED BY <1>1, <2>2
<1> QED BY <1>1, <1>2, <1>3 DEF get_end_of_key, check_msg_valid

\* Without its last byte a block holds the same string, or that without its last byte.
LEMMA FrontIs ==
  ASSUME NEW b \in Seq(Byte), Len(b) > 0
  PROVE  LET n == IF strlen(b) < Len(b) THEN strlen(b) ELSE Len(b) - 1
         IN  /\ CStr(Front(b)) \in Seq(Byte) /\ Len(CStr(Front(b))) = n
             /\ \A i \in 1..n : CStr(Front(b))[i] = b[i]
<1> DEFINE f == Front(b)
           n == IF strlen(b) < Len(b) THEN strlen(b) ELSE Len(b) - 1
<1>1. /\ Len(b) \in Nat /\ strlen(b) \in 0..Len(b) /\ \A i \in 1..strlen(b) : b[i] # NUL
      /\ strlen(b) < Len(b) => b[strlen(b) + 1] = NUL
  BY StrlenIs
<1>2. f \in Seq(Byte) /\ Len(f) = Len(b) - 1 /\ \A i \in 1..(Len(b) - 1) : f[i] = b[i]
  <2> DEFINE l == Len(b) - 1
  <2>1. f = SubSeq(b, 0 + 1, l) /\ 0 <= l /\ l \in Nat /\ l <= Len(b)
    BY <1>1 DEF Front
  <2> HIDE DEF f, l
  <2>2. f \in Seq(Byte) /\ Len(f) = l /\ \A i \in 1..l : f[i] = b[i]
    BY <1>1, <2>1, PartIs
  <2> QED BY <2>2 DEF l
<1> HIDE DEF f
<1>3. strlen(f) = n
  <2>1. n \in 0..Len(f) /\ \A i \in 1..n : f[i] # NUL
    BY <1>1, <1>2
  <2>2. n < Len(f) => f[n + 1] = NUL
    BY <1>1, <1>2
  <2> HIDE DEF n
  <2> QED BY <1>2, <2>1, <2>2, StrlenIsThat
<1>4. n <= Len(b) - 1 /\ n \in Nat
  BY <1>1
<1>5. CStr(f) \in Seq(Byte) /\ Len(CStr(f)) = n /\ \A i \in 1..n : CStr(f)[i] = f[i]
  BY <1>2, <1>3, CStrIs
<1> HIDE DEF n
<1>6. \A i \in 1..n : CStr(f)[i] = b[i]
  BY <1>2, <1>4, <1>5
<1> QED BY <1>5, <1>6 DEF n, f

\* The key is what stands between the two bars, the data what follows the second.
LEMMA PartsOfRequest ==
  ASSUME NEW b \in Seq(Byte), NEW e \in 3..(Len(b) - 1), b[e + 1] = BAR,
         \A i \in 3..e : b[i] # BAR, \A i \in 1..e : b[i] # NUL
  PROVE  LET text == CStr(Front(b))
             rest == SubSeq(text, e + 2, Len(text))
             data == parse_client_msg_data(b)
         IN  /\ parse_client_msg_key(b) = SubSeq(b, 3, e)
             /\ IF rest = <<>> THEN data = NULL ELSE data # NULL /\ CStr(data) = rest
<1> DEFINE L == Len(b)
           n == strlen(b)
           text == CStr(Front(b))
           last == IF n < L THEN n ELSE L - 1
           key == parse_client_msg_key(b)
           data == parse_client_msg_data(b)
<1>1. /\ L \in Nat /\ e \in Nat /\ e >= 3 /\ e <= L - 1 /\ NULL \notin Seq(Byte) /\ n \in 0..L
      /\ n < L => b[n + 1] = NUL
  BY StrlenIs, LenProperties, ParsersAssumption DEF Byte
<1>2. get_end_of_key(b) = e
  <2>1. e \in 2..(Len(b) - 1)
    BY <1>1
  <2>2. \A i \in 2..(e - 1) : b[i + 1] # BAR
    <3> TAKE i \in 2..(e - 1)
    <3>1. i + 1 \in 3..e
      BY <1>1
    <3> QED BY <3>1
  <2> QED BY <2>1, <2>2, EndIs
\* The bar is not a NUL, so the string goes on past it.
<1>3. n >= e + 1
  <2> SUFFICES ASSUME n < e + 1 PROVE FALSE
    BY <1>1
  <2>1. n + 1 \in 1..(e + 1) /\ n < L
    BY <1>1
  <2>2. b[n + 1] = NUL /\ (n + 1 = e + 1 \/ n + 1 \in 1..e)
    BY <2>1, <1>1
  <2> QED BY <2>2 DEF NUL, BAR
<1>4. key = SubSeq(b, 3, e)
  <2>1. key = str_slice(b, 2, e)
    BY <1>1, <1>2 DEF parse_client_msg_key, check_msg_valid
  <2>2. key = CopyOut(b, 2, e - 2)
    <3>1. 2 \in Int /\ e \in Int /\ ~(2 >= e) /\ ~(2 < 0) /\ ~(e < 0) /\ n # 0 /\ ~(2 >= n)
      BY <1>1, <1>3
    <3> HIDE DEF key, n
    <3> QED BY <2>1, <3>1, SliceIs DEF n
  <2> DEFINE k == SubSeq(b, 2 + 1, e)
  <2>3. k \in Seq(Byte) /\ Len(k) = e - 2 /\ \A i \in 1..(e - 2) : k[i] = b[2 + i]
    BY <1>1, PartIs
  <2>4. key = [i \in 1..(e - 2) |-> b[2 + i]]
    BY <2>2, <1>1, <1>3 DEF CopyOut
  <2>5. key = k
    <3>1. k = [i \in 1..(e - 2) |-> k[i]]
      <4> HIDE DEF k
      <4> QED BY <2>3
    <3> HIDE DEF k, key
    <3> QED BY <2>3, <2>4, <3>1
  <2> QED BY <2>5
<1>5. text \in Seq(Byte) /\ Len(text) = last /\ \A i \in 1..last : text[i] = b[i]
  BY <1>1, FrontIs
<1> DEFINE from == e + 1
           rest == SubSeq(text, from + 1, last)
<1>6. last \in Nat /\ from \in Nat /\ last >= e /\ last <= n /\ (last >= from \/ last = e)
  BY <1>1, <1>3
<1>7. data = str_slice(b, from, L - 1)
  <2>1. ~(Len(b) - get_end_of_key(b) < 1) /\ ~(Len(b) < 3) /\ get_end_of_key(b) + 1 = from
    BY <1>1, <1>2
  <2> HIDE DEF from
  <2> QED BY <2>1 DEF data, parse_client_msg_data, check_msg_valid
<1>8. CASE last > from
  <2>1. data = CopyOut(b, from, L - 1 - from)
    <3>1. from \in Int /\ L - 1 \in Int /\ ~(from >= L - 1) /\ ~(from < 0) /\ ~(L - 1 < 0) /\ n # 0 /\ ~(from >= n)
      BY <1>1, <1>3, <1>6, <1>8
    <3> HIDE DEF data, n, from
    <3> QED BY <1>7, <3>1, SliceIs DEF n
  <2>2. from < n /\ L - 1 - from \in Nat
        /\ (IF from + (L - 1 - from) <= n THEN from + (L - 1 - from) ELSE n) = last
    <3>1. from < n /\ L - 1 - from \in Nat /\ from + (L - 1 - from) = L - 1
      BY <1>1, <1>6, <1>8
    <3>2. (IF L - 1 <= n THEN L - 1 ELSE n) = last
      <4>1. L \in Nat /\ n \in 0..L
        BY <1>1
      <4> HIDE DEF L, n
      <4> QED BY <4>1
    <3> HIDE DEF last, from, n
    <3> QED BY <3>1, <3>2
  <2>3. data \in Seq(Byte) /\ CStr(data) = SubSeq(CStr(b), from + 1, last)
    <3> HIDE DEF data, last, from
    <3> QED BY <1>6, <2>1, <2>2, CopyIs
  <2>4. /\ CStr(b) \in Seq(Byte) /\ Len(CStr(b)) = n
        /\ \A i \in 1..n : CStr(b)[i] = b[i]
    BY CStrIs
  <2> DEFINE s == SubSeq(CStr(b), from + 1, last)
  <2>5. /\ s \in Seq(Byte) /\ Len(s) = last - from /\ \A i \in 1..(last - from) : s[i] = CStr(b)[from + i]
    <3> HIDE DEF last, from
    <3> QED BY <1>6, <1>8, <2>4, PartIs
  <2>6. /\ rest \in Seq(Byte) /\ Len(rest) = last - from /\ \A i \in 1..(last - from) : rest[i] = text[from + i]
    <3> HIDE DEF last, from, text
    <3> QED BY <1>5, <1>6, <1>8, PartIs
  <2>7. \A i \in 1..(last - from) : s[i] = rest[i]
    <3> TAKE i \in 1..(last - from)
    <3>1. from + i \in 1..last /\ from + i \in 1..n
      BY <1>1, <1>6
    <3> HIDE DEF last, from, text, s, rest, n
    <3> QED BY <3>1, <2>4, <2>5, <2>6, <1>5
  <2>8. s = rest
    <3> HIDE DEF last, from, s, rest
    <3> QED BY <2>5, <2>6, <2>7, SameBytes
  <2>9. rest # <<>>
    <3>1. last - from # 0
      BY <1>6, <1>8
    <3> HIDE DEF rest, last, from
    <3> QED BY <2>6, <3>1
  <2>10. SubSeq(text, e + 2, Len(text)) = rest
    <3>1. e + 2 = from + 1 /\ Len(text) = last
      BY <1>1, <1>5
    <3> HIDE DEF last, from, text
    <3> QED BY <3>1
  <2>11. data # NULL /\ CStr(data) = rest
    BY <1>1, <2>3, <2>8
  <2> HIDE DEF key, data, rest, text
  <2> QED BY <1>4, <2>9, <2>10, <2>11 DEF key, data, text
<1>9. CASE ~(last > from)
  <2>1. data = NULL
    <3>1. from \in Int /\ L - 1 \in Int /\ (from >= L - 1 \/ from >= n) /\ ~(from < 0) /\ ~(L - 1 < 0)
      BY <1>1, <1>3, <1>6, <1>9
    <3> HIDE DEF data, n, from
    <3> QED BY <1>7, <3>1, SliceIs DEF n
  <2>2. rest = <<>>
    <3>1. from + 1 \in Int /\ last \in Int /\ last < from + 1
      BY <1>6, <1>9
    <3> HIDE DEF last, from, text
    <3> QED BY <1>5, <3>1, SubSeqEmpty
  <2> QED BY <1>4, <1>5, <2>1, <2>2
<1> QED BY <1>8, <1>9

-----------------------------------------------------------------------------
\* A request is a sequence of bytes.
RequestInv == kind = "request" => buf \in Seq(Byte)

LEMMA Invariance == Spec => []RequestInv
<1>1. Init => RequestInv
  BY DEF Init, RequestInv
<1>2. RequestInv /\ [Next]_<<kind, buf, size>> => RequestInv'
  <2> SUFFICES ASSUME RequestInv, [Next]_<<kind, buf, size>> PROVE RequestInv'
    OBVIOUS
  <2>1. CASE AddByte /\ UNCHANGED kind
    <3>1. PICK x \in Alphabet : buf' = Append(buf, x)
      BY <2>1 DEF AddByte
    <3>2. buf \in Seq(Byte) /\ x \in Byte
      BY <2>1 DEF AddByte, RequestInv, Byte
    <3>3. buf' \in Seq(Byte)
      BY <3>1, <3>2, AppendProperties
    <3> QED BY <3>3 DEF RequestInv
  <2>2. CASE AddPiece /\ UNCHANGED kind
    BY <2>2 DEF AddPiece, RequestInv
  <2>3. CASE UNCHANGED <<kind, buf, size>>
    BY <2>3 DEF RequestInv
  <2> QED BY <2>1, <2>2, <2>3 DEF Next
<1> QED BY <1>1, <1>2, PTL DEF Spec

\* str_slice selects what its comment says for indexes of either sign, and pads with NULs
\* (add_lib.c:37).
THEOREM SlicesAreSelections == Spec => []SliceIsSelection
<1>1. RequestInv => SliceIsSelection
  <2> SUFFICES ASSUME kind = "request", buf \in Seq(Byte), NEW from \in Indexes, NEW to \in Indexes
               PROVE  LET block == str_slice(buf, from, to)
                          sel == Selection(CStr(buf), from, to)
                      IN  IF sel = NULL THEN block = NULL
                          ELSE block # NULL /\ CStr(block) = sel
    BY DEF RequestInv, SliceIsSelection
  <2>1. from \in Int /\ to \in Int
    BY ParsersAssumption DEF Indexes
  <2> QED BY <2>1, SliceSelects
<1> QED BY <1>1, Invariance, PTL

\* Of a request the parser takes the key between the bars and all that follows as data,
\* for requests of any length (msg_parser.c:55, msg_parser.c:66).
THEOREM RequestsAreCutRight == Spec => []KeyAndDataAreTheRest
<1>1. RequestInv => KeyAndDataAreTheRest
  <2> SUFFICES ASSUME kind = "request", buf \in Seq(Byte), NEW e \in 3..(Len(buf) - 1),
                      buf[e + 1] = BAR, ~Contains(Bytes(2, e), BAR), ~Contains(Bytes(0, e), NUL)
               PROVE  LET text == CStr(Front(buf))
                          rest == SubSeq(text, e + 2, Len(text))
                          data == parse_client_msg_data(buf)
                      IN  /\ parse_client_msg_key(buf) = Bytes(2, e)
                          /\ IF rest = <<>> THEN data = NULL ELSE data # NULL /\ CStr(data) = rest
    BY DEF RequestInv, KeyAndDataAreTheRest
  <2>1. e \in Nat /\ e >= 3 /\ e <= Len(buf) /\ 2 \in Nat /\ 0 \in Nat
    BY LenProperties
  <2>2. \A a \in {0, 2} : /\ Bytes(a, e) \in Seq(Byte) /\ Len(Bytes(a, e)) = e - a
                          /\ \A i \in 1..(e - a) : Bytes(a, e)[i] = buf[a + i]
    <3> TAKE a \in {0, 2}
    <3>1. a \in Nat /\ a <= e
      BY <2>1
    <3> QED BY <2>1, <3>1, PartIs DEF Bytes
  <2>3. \A i \in 3..e : buf[i] # BAR
    <3> TAKE i \in 3..e
    <3> DEFINE q == i - 2
    <3>1. q \in 1..(e - 2) /\ 2 + q = i
      BY <2>1
    <3> HIDE DEF q
    <3>2. Bytes(2, e)[q] = buf[i] /\ q \in 1..Len(Bytes(2, e))
      BY <3>1, <2>2
    <3> QED BY <3>2 DEF Contains
  <2>4. \A i \in 1..e : buf[i] # NUL
    <3> TAKE i \in 1..e
    <3>1. i \in 1..(e - 0) /\ 0 + i = i
      BY <2>1
    <3> QED BY <3>1, <2>2 DEF Contains
  <2>5. Bytes(2, e) = SubSeq(buf, 3, e)
    BY DEF Bytes
  <2> QED BY <2>3, <2>4, <2>5, PartsOfRequest
<1> QED BY <1>1, Invariance, PTL

-----------------------------------------------------------------------------
\* Sets of positions.

\* Induction, as a fact about a set: the least number outside it cannot be.
LEMMA NatInd ==
  ASSUME NEW S, 0 \in S, \A n \in Nat : n \in S => n + 1 \in S
  PROVE  \A n \in Nat : n \in S
<1> DEFINE T == Nat \ S
<1> SUFFICES ASSUME T # {} PROVE FALSE
  OBVIOUS
<1>1. PICK m \in T : \A k \in T : m <= k
  BY LeastNat
<1>2. m \in Nat /\ m # 0
  OBVIOUS
<1>3. m - 1 \in Nat /\ m - 1 \notin T /\ m - 1 + 1 = m
  BY <1>1, <1>2
<1> QED BY <1>3

\* Min is the least member, and the only one that is.
LEMMA MinIs ==
  ASSUME NEW S \in SUBSET Nat
  PROVE  /\ S # {} => Min(S) \in S /\ \A k \in S : Min(S) <= k
         /\ \A m \in S : (\A k \in S : m <= k) => Min(S) = m
         /\ Ini!Min(S) = Min(S)
<1>1. S # {} => \E m \in S : \A k \in S : m <= k
  BY LeastNat
<1>2. S # {} => Min(S) \in S /\ \A k \in S : Min(S) <= k
  BY <1>1 DEF Min
<1>3. ASSUME NEW m \in S, \A k \in S : m <= k PROVE Min(S) = m
  <2>1. Min(S) <= m /\ m <= Min(S)
    BY <1>2, <1>3
  <2>2. m \in Nat /\ Min(S) \in Nat
    BY <1>2
  <2> QED BY <2>1, <2>2
<1>4. Ini!Min(S) = Min(S)
  BY DEF Ini!Min, Min
<1> QED BY <1>2, <1>3, <1>4

\* Max is the greatest member of a bounded set, and the only one that is.
LEMMA MaxIs ==
  ASSUME NEW n \in Nat, NEW S \in SUBSET (0..n)
  PROVE  /\ S # {} => Max(S) \in S /\ \A k \in S : k <= Max(S)
         /\ \A m \in S : (\A k \in S : k <= m) => Max(S) = m
         /\ Ini!Max(S) = Max(S)
<1>0. \A k \in S : k \in Int /\ k <= n
  <2>1. \A k \in 0..n : k \in Int /\ k <= n
    OBVIOUS
  <2> QED BY <2>1, Zenon
<1>1. ASSUME S # {} PROVE \E m \in S : \A k \in S : m >= k
  <2> DEFINE R == {n - k : k \in S}
  <2>1. R \in SUBSET Nat /\ R # {}
    <3>1. \A k \in S : n - k \in Nat
      BY <1>0
    <3> QED BY <1>1, <3>1
  <2>2. PICK r \in R : \A q \in R : r <= q
    BY <2>1, LeastNat
  <2>3. PICK m \in S : r = n - m
    OBVIOUS
  <2>4. ASSUME NEW k \in S PROVE m >= k
    <3>1. n - k \in R
      OBVIOUS
    <3>2. n - m <= n - k
      BY <3>1, <2>2, <2>3
    <3> QED BY <3>2, <1>0
  <2> QED BY <2>4, Zenon
<1>2. S # {} => Max(S) \in S /\ \A k \in S : Max(S) >= k
  BY <1>1 DEF Max
<1>3. ASSUME NEW m \in S, \A k \in S : k <= m PROVE Max(S) = m
  <2>1. Max(S) >= m /\ Max(S) <= m
    BY <1>2, <1>3
  <2>2. m \in Int /\ Max(S) \in Int
    BY <1>0, <1>2
  <2> QED BY <2>1, <2>2
<1>4. Ini!Max(S) = Max(S)
  BY DEF Ini!Max, Max
<1> QED BY <1>2, <1>3, <1>4

-----------------------------------------------------------------------------
\* Parts of a sequence.

\* A part of a sequence holds what the sequence holds there.
LEMMA PartHas ==
  ASSUME NEW T, NEW s \in Seq(T), NEW a \in Nat \ {0}, NEW b \in Nat, a - 1 <= b, b <= Len(s)
  PROVE  /\ SubSeq(s, a, b) \in Seq(T) /\ Len(SubSeq(s, a, b)) = b - a + 1
         /\ \A i \in 1..(b - a + 1) : SubSeq(s, a, b)[i] = s[a + i - 1]
<1>1. \A i \in a..b : s[i] \in T
  <2>1. Len(s) \in Nat /\ \A i \in a..b : i \in 1..Len(s)
    BY LenProperties
  <2> QED BY <2>1, ElementOfSeq
<1>2. a \in Int /\ b \in Int
  OBVIOUS
<1>3. /\ SubSeq(s, a, b) \in Seq(T) /\ Len(SubSeq(s, a, b)) = IF a <= b THEN b - a + 1 ELSE 0
      /\ \A i \in 1 .. b - a + 1 : SubSeq(s, a, b)[i] = s[a + i - 1]
  BY <1>1, <1>2, SubSeqProperties
<1> QED BY <1>3

\* A part of a part is a part.
LEMMA PartOfPart ==
  ASSUME NEW T, NEW s \in Seq(T), NEW a \in Nat \ {0}, NEW b \in Nat, a - 1 <= b, b <= Len(s),
         NEW c \in Nat \ {0}, NEW d \in Nat, c - 1 <= d, d <= b - a + 1
  PROVE  SubSeq(SubSeq(s, a, b), c, d) = SubSeq(s, a + c - 1, a + d - 1)
<1> DEFINE r == SubSeq(s, a, b)
           x == a + c - 1
           y == a + d - 1
<1>0. Len(s) \in Nat
  BY LenProperties
<1>1. r \in Seq(T) /\ Len(r) = b - a + 1 /\ \A i \in 1..(b - a + 1) : r[i] = s[a + i - 1]
  BY PartHas
<1>2. SubSeq(r, c, d) \in Seq(T) /\ Len(SubSeq(r, c, d)) = d - c + 1
      /\ \A i \in 1..(d - c + 1) : SubSeq(r, c, d)[i] = r[c + i - 1]
  <2> HIDE DEF r
  <2> QED BY <1>1, PartHas
<1>3. x \in Nat \ {0} /\ y \in Nat /\ x - 1 <= y /\ y <= Len(s) /\ y - x + 1 = d - c + 1
  BY <1>0
<1>4. SubSeq(s, x, y) \in Seq(T) /\ Len(SubSeq(s, x, y)) = y - x + 1
      /\ \A i \in 1..(y - x + 1) : SubSeq(s, x, y)[i] = s[x + i - 1]
  <2> HIDE DEF x, y
  <2> QED BY <1>3, PartHas
<1>5. \A i \in 1..(d - c + 1) : SubSeq(r, c, d)[i] = SubSeq(s, x, y)[i]
  <2> TAKE i \in 1..(d - c + 1)
  <2>1. c + i - 1 \in 1..(b - a + 1) /\ a + (c + i - 1) - 1 = x + i - 1
    OBVIOUS
  <2> HIDE DEF r, x, y
  <2>2. SubSeq(r, c, d)[i] = s[a + (c + i - 1) - 1]
    BY <1>1, <1>2, <2>1
  <2> QED BY <1>3, <1>4, <2>1, <2>2
<1> HIDE DEF r, x, y
<1>6. SubSeq(r, c, d) = SubSeq(s, x, y)
  BY <1>2, <1>3, <1>4, <1>5, SeqEqual
<1> QED BY <1>6 DEF r, x, y

\* A beginning is a part.
LEMMA PrefixHas ==
  ASSUME NEW T, NEW s \in Seq(T), NEW n \in Nat, n <= Len(s)
  PROVE  SubSeq(s, 1, n) \in Seq(T) /\ Len(SubSeq(s, 1, n)) = n /\ \A i \in 1..n : SubSeq(s, 1, n)[i] = s[i]
<1>1. 1 \in Nat \ {0} /\ 1 - 1 <= n
  OBVIOUS
<1>2. /\ SubSeq(s, 1, n) \in Seq(T) /\ Len(SubSeq(s, 1, n)) = n - 1 + 1
      /\ \A i \in 1..(n - 1 + 1) : SubSeq(s, 1, n)[i] = s[1 + i - 1]
  BY <1>1, PartHas
<1> QED BY <1>2

-----------------------------------------------------------------------------
\* What is left of a sequence without the spaces around it.

\* The positions from a to b that hold no space; those of a whole line.
InkIn(s, a, b) == {i \in a..b : ~Ini!isspace(s[i])}
Ink(s) == InkIn(s, 1, Len(s))

\* Where a part has characters that are no space, it has a first and a last one.
LEMMA InkIs ==
  ASSUME NEW T, NEW s \in Seq(T)
  PROVE  /\ Len(s) \in Nat /\ Ink(s) \in SUBSET Nat /\ Ink(s) \in SUBSET (0..Len(s))
         /\ Ini!lskip(s) = IF Ink(s) = {} THEN <<>> ELSE SubSeq(s, Min(Ink(s)), Len(s))
         /\ Ini!rstrip(s) = IF Ink(s) = {} THEN <<>> ELSE SubSeq(s, 1, Max(Ink(s)))
         /\ Trimmed(s) = IF Ink(s) = {} THEN <<>> ELSE SubSeq(s, Min(Ink(s)), Max(Ink(s)))
         /\ Ink(s) # {} => /\ Min(Ink(s)) \in Ink(s) /\ Max(Ink(s)) \in Ink(s)
                           /\ \A i \in Ink(s) : Min(Ink(s)) <= i /\ i <= Max(Ink(s))
                           /\ 1 <= Min(Ink(s)) /\ Min(Ink(s)) <= Max(Ink(s)) /\ Max(Ink(s)) <= Len(s)
                           /\ Min(Ink(s)) \in Nat /\ Max(Ink(s)) \in Nat
<1>1. Len(s) \in Nat
  BY LenProperties
<1>2. Ink(s) \in SUBSET Nat /\ Ink(s) \in SUBSET (0..Len(s)) /\ \A i \in Ink(s) : i \in Nat /\ 1 <= i /\ i <= Len(s)
  BY <1>1 DEF Ink, InkIn
<1>3. Ini!Min(Ink(s)) = Min(Ink(s)) /\ (Ink(s) # {} => Min(Ink(s)) \in Ink(s) /\ \A i \in Ink(s) : Min(Ink(s)) <= i)
  BY <1>2, MinIs
<1>4. Ini!Max(Ink(s)) = Max(Ink(s)) /\ (Ink(s) # {} => Max(Ink(s)) \in Ink(s) /\ \A i \in Ink(s) : i <= Max(Ink(s)))
  BY <1>1, <1>2, MaxIs
<1>5. Ini!lskip(s) = IF Ink(s) = {} THEN <<>> ELSE SubSeq(s, Min(Ink(s)), Len(s))
  <2>1. Ini!lskip(s) = IF Ink(s) = {} THEN <<>> ELSE SubSeq(s, Ini!Min(Ink(s)), Len(s))
    BY DEF Ini!lskip, Ink, InkIn
  <2> QED BY <2>1, <1>3
<1>6. Ini!rstrip(s) = IF Ink(s) = {} THEN <<>> ELSE SubSeq(s, 1, Max(Ink(s)))
  <2>1. Ini!rstrip(s) = IF Ink(s) = {} THEN <<>> ELSE SubSeq(s, 1, Ini!Max(Ink(s)))
    BY DEF Ini!rstrip, Ink, InkIn
  <2> QED BY <2>1, <1>4
<1>7. Trimmed(s) = IF Ink(s) = {} THEN <<>> ELSE SubSeq(s, Min(Ink(s)), Max(Ink(s)))
  BY DEF Trimmed, Ink, InkIn
<1> QED BY <1>1, <1>2, <1>3, <1>4, <1>5, <1>6, <1>7

\* The empty line has none.
LEMMA InkOfEmpty ==
  Ink(<<>>) = {} /\ Ini!lskip(<<>>) = <<>> /\ Ini!rstrip(<<>>) = <<>> /\ Trimmed(<<>>) = <<>>
<1>1. Ink(<<>>) = {}
  BY DEF Ink, InkIn
<1>2. <<>> \in Seq(STRING)
  OBVIOUS
<1> QED BY <1>1, <1>2, InkIs

\* The ink of a part, and its text.
LEMMA PartTrimmed ==
  ASSUME NEW T, NEW s \in Seq(T), NEW a \in Nat \ {0}, NEW b \in Nat, a - 1 <= b, b <= Len(s), NEW Q, Q = InkIn(s, a, b)
  PROVE  /\ Trimmed(SubSeq(s, a, b)) = IF Q = {} THEN <<>> ELSE SubSeq(s, Min(Q), Max(Q))
         /\ Q # {} => /\ Ink(SubSeq(s, a, b)) # {}
                      /\ Min(Ink(SubSeq(s, a, b))) = Min(Q) - a + 1 /\ Max(Ink(SubSeq(s, a, b))) = Max(Q) - a + 1
                      /\ Min(Q) \in Q /\ Max(Q) \in Q /\ Min(Q) <= Max(Q)
         /\ Q = {} => Ink(SubSeq(s, a, b)) = {}
<1>r. PICK r : r = SubSeq(s, a, b)
  OBVIOUS
<1>0. Len(s) \in Nat
  BY LenProperties
<1>1. r \in Seq(T) /\ Len(r) = b - a + 1 /\ \A i \in 1..(b - a + 1) : r[i] = s[a + i - 1]
  BY <1>r, PartHas
<1>2. Ink(r) = {i \in 1..(b - a + 1) : a + i - 1 \in Q}
  <2>1. \A i \in 1..(b - a + 1) : a + i - 1 \in a..b
    OBVIOUS
  <2> QED BY <1>1, <2>1 DEF Ink, InkIn
<1>3. Q \in SUBSET Nat /\ Q \in SUBSET (0..b) /\ \A i \in Q : i \in Nat /\ a <= i /\ i <= b
  BY DEF InkIn
<1>4. \A i \in Q : i - a + 1 \in Ink(r)
  <2> TAKE i \in Q
  <2>1. i - a + 1 \in 1..(b - a + 1) /\ a + (i - a + 1) - 1 = i
    BY <1>3
  <2> QED BY <1>2, <2>1
<1>5. \A i \in Ink(r) : i \in Nat /\ a + i - 1 \in Q /\ i <= b - a + 1
  BY <1>2
<1>6. ASSUME Q # {}
      PROVE  /\ Ink(r) # {} /\ Min(Ink(r)) = Min(Q) - a + 1 /\ Max(Ink(r)) = Max(Q) - a + 1
             /\ Min(Q) \in Q /\ Max(Q) \in Q /\ Min(Q) <= Max(Q)
             /\ Trimmed(r) = SubSeq(s, Min(Q), Max(Q))
  <2>1. Min(Q) \in Q /\ Max(Q) \in Q /\ \A i \in Q : Min(Q) <= i /\ i <= Max(Q)
    <3>1. Min(Q) \in Q /\ \A i \in Q : Min(Q) <= i
      BY <1>3, <1>6, MinIs
    <3>2. Max(Q) \in Q /\ \A i \in Q : i <= Max(Q)
      BY <1>3, <1>6, MaxIs
    <3> QED BY <3>1, <3>2
  <2>2. Ink(r) \in SUBSET Nat /\ Ink(r) \in SUBSET (0..Len(r)) /\ Len(r) \in Nat
    BY <1>1, InkIs
  <2>3. Min(Q) - a + 1 \in Ink(r) /\ Max(Q) - a + 1 \in Ink(r)
    BY <1>4, <2>1
  <2>4. \A i \in Ink(r) : Min(Q) - a + 1 <= i /\ i <= Max(Q) - a + 1
    <3> TAKE i \in Ink(r)
    <3>1. Min(Q) <= a + i - 1 /\ a + i - 1 <= Max(Q) /\ i \in Nat
      BY <1>5, <2>1
    <3>2. Min(Q) \in Nat /\ Max(Q) \in Nat
      BY <1>3, <2>1
    <3> QED BY <3>1, <3>2
  <2> DEFINE x == Min(Q) - a + 1
             y == Max(Q) - a + 1
  <2>5. Min(Ink(r)) = x /\ Max(Ink(r)) = y /\ Ink(r) # {}
    <3>1. x \in Ink(r) /\ y \in Ink(r) /\ \A i \in Ink(r) : x <= i /\ i <= y
      BY <2>3, <2>4
    <3> HIDE DEF x, y
    <3>2. Min(Ink(r)) = x
      BY <2>2, <3>1, MinIs
    <3>3. Max(Ink(r)) = y
      BY <2>2, <3>1, MaxIs
    <3> QED BY <3>1, <3>2, <3>3
  <2>6. Trimmed(r) = SubSeq(r, x, y)
    BY <1>1, <2>5, InkIs
  <2>7. /\ x \in Nat \ {0} /\ y \in Nat /\ x - 1 <= y /\ y <= b - a + 1
        /\ a + x - 1 = Min(Q) /\ a + y - 1 = Max(Q) /\ Min(Q) <= Max(Q)
    <3>1. Min(Q) \in Nat /\ Max(Q) \in Nat /\ a <= Min(Q) /\ Max(Q) <= b /\ Min(Q) <= Max(Q) /\ a <= Max(Q)
      BY <1>3, <2>1
    <3>2. ASSUME NEW u \in Nat, NEW v \in Nat, a <= u, u <= v, v <= b
          PROVE  /\ u - a + 1 \in Nat \ {0} /\ v - a + 1 \in Nat /\ u - a + 1 - 1 <= v - a + 1 /\ v - a + 1 <= b - a + 1
                 /\ a + (u - a + 1) - 1 = u /\ a + (v - a + 1) - 1 = v
      BY <3>2
    <3> DEFINE u == Min(Q)
               v == Max(Q)
    <3>3. u \in Nat /\ v \in Nat /\ a <= u /\ u <= v /\ v <= b
      BY <3>1
    <3> HIDE DEF u, v
    <3>4. /\ u - a + 1 \in Nat \ {0} /\ v - a + 1 \in Nat /\ u - a + 1 - 1 <= v - a + 1 /\ v - a + 1 <= b - a + 1
          /\ a + (u - a + 1) - 1 = u /\ a + (v - a + 1) - 1 = v
      BY <3>2, <3>3
    <3>5. x = u - a + 1 /\ y = v - a + 1 /\ Min(Q) = u /\ Max(Q) = v
      BY DEF u, v
    <3> HIDE DEF x, y
    <3> QED BY <3>3, <3>4, <3>5
  <2>8. SubSeq(r, x, y) = SubSeq(s, a + x - 1, a + y - 1)
    <3> HIDE DEF x, y
    <3> QED BY <1>r, <2>7, PartOfPart
  <2> QED BY <2>1, <2>5, <2>6, <2>7, <2>8
<1>7. ASSUME Q = {} PROVE Ink(r) = {} /\ Trimmed(r) = <<>>
  <2>1. Ink(r) = {}
    BY <1>5, <1>7
  <2> QED BY <2>1, <1>1, InkIs
<1> QED BY <1>r, <1>6, <1>7

\* The order in which the spaces are removed does not matter.
LEMMA TrimIs ==
  ASSUME NEW T, NEW s \in Seq(T)
  PROVE  /\ Ini!lskip(Ini!rstrip(s)) = Trimmed(s) /\ Ini!rstrip(Ini!lskip(s)) = Trimmed(s)
         /\ Trimmed(s) \in Seq(T)
         /\ (s = <<>> \/ ~Ini!isspace(s[1])) => Ini!rstrip(s) = Trimmed(s)
         /\ Trimmed(s) # <<>> => ~Ini!isspace(Trimmed(s)[1])
<1> DEFINE P == Ink(s)
           m == Min(P)
           n == Max(P)
           r == SubSeq(s, 1, n)
           l == SubSeq(s, m, Len(s))
<1>1. /\ Len(s) \in Nat
      /\ Ini!lskip(s) = IF P = {} THEN <<>> ELSE l
      /\ Ini!rstrip(s) = IF P = {} THEN <<>> ELSE r
      /\ Trimmed(s) = IF P = {} THEN <<>> ELSE SubSeq(s, m, n)
      /\ P # {} => /\ m \in P /\ n \in P /\ \A i \in P : m <= i /\ i <= n
                   /\ 1 <= m /\ m <= n /\ n <= Len(s) /\ m \in Nat /\ n \in Nat
  BY InkIs
<1>2. P = {i \in 1..Len(s) : ~Ini!isspace(s[i])}
  BY DEF Ink, InkIn
<1> HIDE DEF P, m, n
<1>3. CASE P = {}
  <2>1. s # <<>> => 1 \in 1..Len(s)
    BY <1>1, EmptySeq
  <2>2. Trimmed(s) = <<>> /\ Ini!rstrip(s) = <<>> /\ Ini!lskip(s) = <<>> /\ <<>> \in Seq(T)
    BY <1>1, <1>3
  <2> QED BY <2>2, InkOfEmpty
<1>4. CASE P # {}
  <2>0. /\ m \in Nat \ {0} /\ n \in Nat /\ Len(s) \in Nat /\ m - 1 <= n /\ m <= n /\ n <= Len(s) /\ 1 \in Nat \ {0}
        /\ m - 1 <= Len(s) /\ 1 - 1 <= n /\ n - 1 + 1 = n /\ Len(s) <= Len(s)
    BY <1>1, <1>4
  <2>1. r \in Seq(T) /\ l \in Seq(T) /\ SubSeq(s, m, n) \in Seq(T) /\ Len(SubSeq(s, m, n)) = n - m + 1
        /\ \A i \in 1..(n - m + 1) : SubSeq(s, m, n)[i] = s[m + i - 1]
    <3>1. r \in Seq(T)
      BY <2>0, PartHas
    <3>2. l \in Seq(T)
      BY <2>0, PartHas
    <3>3. SubSeq(s, m, n) \in Seq(T) /\ Len(SubSeq(s, m, n)) = n - m + 1
          /\ \A i \in 1..(n - m + 1) : SubSeq(s, m, n)[i] = s[m + i - 1]
      BY <2>0, PartHas
    <3> QED BY <3>1, <3>2, <3>3
  <2>2. \A i \in P : 1 <= i /\ i <= n /\ m <= i /\ i <= Len(s) /\ i \in Nat
    BY <1>1, <1>2, <1>4
  <2>3. Ini!lskip(r) = SubSeq(s, m, n)
    <3>1. InkIn(s, 1, n) = P
      BY <1>2, <2>0, <2>2 DEF InkIn
    <3>2. Ink(r) # {} /\ Min(Ink(r)) = Min(P) - 1 + 1
      BY <1>4, <2>0, <3>1, PartTrimmed
    <3>3. Min(Ink(r)) = m
      BY <3>2, <2>0 DEF m
    <3>4. Ini!lskip(r) = SubSeq(r, m, Len(r)) /\ Len(r) = n
      <4>1. Len(r) = n
        BY <2>0, PartHas
      <4>2. Ini!lskip(r) = SubSeq(r, m, Len(r))
        <5> HIDE DEF r
        <5> QED BY <2>1, <3>2, <3>3, InkIs
      <4> QED BY <4>1, <4>2
    <3>5. SubSeq(r, m, n) = SubSeq(s, 1 + m - 1, 1 + n - 1)
      BY <2>0, PartOfPart
    <3>6. 1 + m - 1 = m /\ 1 + n - 1 = n
      BY <2>0
    <3> QED BY <3>4, <3>5, <3>6
  <2>4. Ini!rstrip(l) = SubSeq(s, m, n)
    <3>1. InkIn(s, m, Len(s)) = P
      BY <1>2, <2>0, <2>2 DEF InkIn
    <3>2. Ink(l) # {} /\ Max(Ink(l)) = Max(P) - m + 1
      <4> DEFINE k == Len(s)
      <4>1. k \in Nat /\ m \in Nat \ {0} /\ m - 1 <= k /\ k <= Len(s) /\ P = InkIn(s, m, k) /\ P # {}
        BY <1>4, <2>0, <3>1
      <4> HIDE DEF k
      <4>2. Ink(SubSeq(s, m, k)) # {} /\ Max(Ink(SubSeq(s, m, k))) = Max(P) - m + 1
        BY <4>1, PartTrimmed
      <4> QED BY <4>2 DEF k
    <3>3. Max(Ink(l)) = n - m + 1
      BY <3>2 DEF n
    <3>4. Ini!rstrip(l) = SubSeq(l, 1, n - m + 1)
      BY <2>1, <3>2, <3>3, InkIs
    <3> DEFINE d == n - m + 1
    <3>5. d \in Nat /\ 1 - 1 <= d /\ d <= Len(s) - m + 1 /\ m + 1 - 1 = m /\ m + d - 1 = n
      BY <2>0
    <3>6. SubSeq(l, 1, d) = SubSeq(s, m + 1 - 1, m + d - 1)
      <4> HIDE DEF d
      <4> QED BY <2>0, <3>5, PartOfPart
    <3> QED BY <3>4, <3>5, <3>6
  <2>5. SubSeq(s, m, n)[1] = s[m] /\ ~Ini!isspace(s[m])
    <3>1. 1 \in 1..(n - m + 1) /\ m + 1 - 1 = m
      BY <1>1, <1>4
    <3> QED BY <3>1, <2>1, <1>1, <1>2, <1>4
  <2>6. ASSUME ~Ini!isspace(s[1]) PROVE m = 1
    <3>1. 1 \in P
      BY <1>1, <1>2, <1>4, <2>6
    <3> QED BY <3>1, <1>1, <1>4
  <2>7. s # <<>>
    BY <1>1, <1>4, EmptySeq
  <2> HIDE DEF r, l
  <2> QED BY <1>1, <1>4, <2>1, <2>3, <2>4, <2>5, <2>6, <2>7 DEF r
<1> QED BY <1>3, <1>4

-----------------------------------------------------------------------------
\* Where a sequence is cut: at one of the characters, or at a comment.

\* A position where find_chars_or_comment stops.
Stops(s, C, i) == s[i] \in C \/ IsComment(s, i)

\* find_chars_or_comment stops where Clear ends.
LEMMA ClearIs ==
  ASSUME NEW T, NEW s \in Seq(T), NEW C, NEW k, k = Ini!find_chars_or_comment(s, C)
  PROVE  /\ k \in Nat \ {0} /\ k <= Len(s) + 1 /\ Len(s) \in Nat
         /\ Clear(s, C) = SubSeq(s, 1, k - 1) /\ Clear(s, C) \in Seq(T) /\ Len(Clear(s, C)) = k - 1
         /\ Ini!Before(s, k) = Clear(s, C)
         /\ Ends(s, C) <=> k <= Len(s) /\ s[k] \in C
<1> DEFINE P == {n \in 0..Len(s) : \A i \in 1..n : ~Stops(s, C, i)}
           S == {i \in 1..Len(s) : Stops(s, C, i)} \cup {Len(s) + 1}
<1>1. Len(s) \in Nat
  BY LenProperties
<1>2. S \in SUBSET Nat /\ S # {} /\ \A i \in S : i \in Nat /\ 1 <= i /\ i <= Len(s) + 1
  BY <1>1
<1>3. k = Ini!Min(S)
  BY DEF Ini!find_chars_or_comment, Ini!INI_INLINE_COMMENT_PREFIXES, Stops, IsComment
<1>4. k \in S /\ \A i \in S : k <= i
  <2> HIDE DEF S
  <2> QED BY <1>2, <1>3, MinIs
<1>5. k \in Nat \ {0} /\ k <= Len(s) + 1 /\ k - 1 \in Nat /\ k - 1 <= Len(s)
  BY <1>1, <1>2, <1>4
<1>6. Clear(s, C) = SubSeq(s, 1, Max(P))
  BY DEF Clear, Stops
<1>7. k - 1 \in P
  <2>1. ASSUME NEW i \in 1..(k - 1), Stops(s, C, i) PROVE FALSE
    <3>1. i \in S /\ i < k
      BY <1>1, <1>5, <2>1
    <3> QED BY <3>1, <1>4, <1>5
  <2>2. k - 1 \in 0..Len(s)
    BY <1>1, <1>5
  <2> QED BY <2>1, <2>2
<1>8. ASSUME NEW n \in P PROVE n <= k - 1
  <2> SUFFICES ASSUME n > k - 1 PROVE FALSE
    BY <1>1, <1>5
  <2>1. k \in 1..n /\ k <= Len(s) /\ n \in Nat
    BY <1>1, <1>5
  <2>2. Stops(s, C, k)
    BY <1>1, <1>4, <2>1
  <2> QED BY <2>1, <2>2
<1>9. Max(P) = k - 1
  <2>1. P \in SUBSET (0..Len(s))
    OBVIOUS
  <2> HIDE DEF P
  <2> QED BY <1>1, <1>7, <1>8, <2>1, MaxIs
<1>10. Clear(s, C) = SubSeq(s, 1, k - 1) /\ Clear(s, C) \in Seq(T) /\ Len(Clear(s, C)) = k - 1
  <2> DEFINE n == k - 1
  <2>1. n \in Nat /\ n <= Len(s) /\ 1 - 1 <= n /\ 1 \in Nat \ {0} /\ n - 1 + 1 = k - 1
    BY <1>1, <1>5
  <2>2. Clear(s, C) = SubSeq(s, 1, n)
    BY <1>6, <1>9
  <2>3. n = k - 1
    OBVIOUS
  <2> HIDE DEF n
  <2>4. SubSeq(s, 1, n) \in Seq(T) /\ Len(SubSeq(s, 1, n)) = n
    BY <2>1, PrefixHas
  <2>5. Clear(s, C) = SubSeq(s, 1, k - 1)
    BY <2>2, <2>3
  <2>6. Len(Clear(s, C)) = k - 1
    BY <2>1, <2>2, <2>4
  <2> QED BY <2>2, <2>4, <2>5, <2>6
<1>11. Ini!Before(s, k) = Clear(s, C)
  BY <1>10 DEF Ini!Before
<1>12. Ends(s, C) <=> k <= Len(s) /\ s[k] \in C
  <2>1. Ends(s, C) <=> k - 1 < Len(s) /\ s[k - 1 + 1] \in C
    BY <1>10 DEF Ends
  <2>2. k - 1 + 1 = k /\ (k - 1 < Len(s) <=> k <= Len(s))
    BY <1>1, <1>5
  <2> QED BY <2>1, <2>2
<1> QED BY <1>1, <1>5, <1>10, <1>11, <1>12

\* strncpy0 keeps what Short keeps.
LEMMA ShortIs ==
  ASSUME NEW T, NEW s \in Seq(T)
  PROVE  Ini!strncpy0(s) = Short(s) /\ Short(s) \in Seq(T)
<1> DEFINE S == {NameLen, Len(s)}
           n == Min(S)
<1>1. Len(s) \in Nat /\ NameLen \in Nat
  BY LenProperties, ParsersAssumption
<1>2. S \in SUBSET Nat /\ S # {}
  BY <1>1
<1>3. n \in S /\ n <= Len(s) /\ Ini!Min(S) = n
  <2> HIDE DEF S
  <2>1. n \in S /\ (\A i \in S : n <= i) /\ Ini!Min(S) = n
    BY <1>2, MinIs
  <2> QED BY <2>1 DEF S
<1>4. n \in Nat /\ 1 - 1 <= n /\ 1 \in Nat \ {0}
  BY <1>1, <1>3
<1>5. Ini!strncpy0(s) = SubSeq(s, 1, n) /\ Short(s) = SubSeq(s, 1, n)
  BY <1>3 DEF Ini!strncpy0, Short
<1>6. SubSeq(s, 1, n) \in Seq(T)
  <2> HIDE DEF n
  <2> QED BY <1>3, <1>4, PartHas
<1> QED BY <1>5, <1>6

-----------------------------------------------------------------------------
\* The pieces fgets makes of the file.

\* Characters, and a file of them.
Char == STRING
File == buf \in Seq(Char)

\* A multiple of LineLen.
LEMMA IsMultiple ==
  ASSUME NEW l \in Nat, l > 0, NEW x \in Nat, x % l = 0
  PROVE  \E m \in Nat : x = m * l
BY SMTT(30)

\* Multiples are apart by at least LineLen.
LEMMA Multiple ==
  ASSUME NEW l \in Nat, l > 0, NEW m \in Nat
  PROVE  (m * l + l) % l = 0
<1>1. PICK q \in Nat : q = m + 1
  OBVIOUS
<1>2. m * l + l = q * l
  BY <1>1, SMTT(30)
<1>3. (q * l) % l = 0
  BY SMTT(30)
<1> QED BY <1>2, <1>3

\* The next multiple.
LEMMA Multiples ==
  ASSUME NEW l \in Nat, l > 0, NEW a \in Nat, a % l = 0
  PROVE  (a + l) % l = 0 /\ \A k \in 1..(l - 1) : (a + k) % l # 0
<1>3. \A x, y \in Nat : \A k \in 1..(l - 1) : x * l + k # y * l
  BY SMTT(30)
<1>4. PICK m \in Nat : a = m * l
  BY IsMultiple
<1>5. (a + l) % l = 0
  <2>1. (m * l + l) % l = 0
    BY Multiple
  <2> QED BY <1>4, <2>1
<1>6. ASSUME NEW k \in 1..(l - 1), (a + k) % l = 0 PROVE FALSE
  <2>1. a + k \in Nat
    OBVIOUS
  <2>2. PICK y \in Nat : a + k = y * l
    BY <1>6, <2>1, IsMultiple
  <2> QED BY <1>3, <1>4, <2>2
<1> QED BY <1>5, <1>6

\* Where the line of a position begins, and its piece ends.
LEMMA BeginIs ==
  ASSUME File, NEW p \in 1..Len(buf)
  PROVE  /\ BeginOfLine(p) \in 1..p /\ \A i \in BeginOfLine(p)..(p - 1) : buf[i] # "NL"
         /\ BeginOfLine(p) # 1 => buf[BeginOfLine(p) - 1] = "NL"
<1> DEFINE S == {0} \cup {i \in 1..(p - 1) : buf[i] = "NL"}
           m == Max(S)
<1>1. Len(buf) \in Nat /\ p \in Nat /\ 1 <= p
  BY LenProperties DEF File
<1>2. S \in SUBSET (0..(p - 1)) /\ S # {} /\ p - 1 \in Nat
  BY <1>1
<1>3. m \in S /\ \A i \in S : i <= m
  <2> HIDE DEF S
  <2> QED BY <1>2, MaxIs
<1>4. BeginOfLine(p) = 1 + m
  BY DEF BeginOfLine
<1> HIDE DEF m
<1>5. m \in 0..(p - 1)
  BY <1>2, <1>3
<1>6. \A i \in (1 + m)..(p - 1) : buf[i] # "NL"
  <2> TAKE i \in (1 + m)..(p - 1)
  <2>1. i \in 1..(p - 1) /\ i > m
    BY <1>1, <1>5
  <2> QED BY <2>1, <1>3, <1>5
<1>7. 1 + m # 1 => buf[1 + m - 1] = "NL"
  <2>1. 1 + m - 1 = m
    BY <1>5
  <2> QED BY <2>1, <1>3, <1>5
<1> QED BY <1>1, <1>4, <1>5, <1>6, <1>7

\* Begin(p) is the only position that can be the beginning of the line of p.
LEMMA BeginOnly ==
  ASSUME File, NEW p \in 1..Len(buf), NEW b \in 1..p, \A i \in b..(p - 1) : buf[i] # "NL", b # 1 => buf[b - 1] = "NL"
  PROVE  BeginOfLine(p) = b
<1> DEFINE c == BeginOfLine(p)
<1>1. Len(buf) \in Nat /\ p \in Nat /\ b \in Nat /\ 1 <= b /\ b <= p
  BY LenProperties DEF File
<1>2. c \in 1..p /\ (\A i \in c..(p - 1) : buf[i] # "NL") /\ (c # 1 => buf[c - 1] = "NL")
  BY BeginIs
<1> HIDE DEF c
<1>3. ~(c < b)
  <2>1. c < b => b - 1 \in c..(p - 1) /\ b # 1
    BY <1>1, <1>2
  <2> QED BY <2>1, <1>2
<1>4. ~(b < c)
  <2>1. b < c => c - 1 \in b..(p - 1) /\ c # 1
    BY <1>1, <1>2
  <2> QED BY <2>1, <1>2
<1>5. c = b
  BY <1>1, <1>2, <1>3, <1>4
<1> QED BY <1>5 DEF c

\* A piece ends where fgets stops.
LEMMA EndOfIs ==
  ASSUME File, NEW p \in 1..Len(buf)
  PROVE  /\ EndOf(p) \in Nat /\ p <= EndOf(p) /\ EndOf(p) <= Len(buf) /\ EndOf(p) <= p + LineLen - 1
         /\ \A i \in p..(EndOf(p) - 1) : buf[i] # "NL"
         /\ buf[EndOf(p)] = "NL" \/ EndOf(p) = Len(buf) \/ EndOf(p) = p + LineLen - 1
         /\ Ini!Fgets(SubSeq(buf, p, Len(buf))) = SubSeq(buf, p, EndOf(p))
<1> DEFINE S == {i \in p..Len(buf) : buf[i] = "NL"} \cup {Len(buf), p + LineLen - 1}
           e == Min(S)
           n == Len(buf)
           f == SubSeq(buf, p, n)
<1>1. n \in Nat /\ p \in Nat /\ 1 <= p /\ p <= n /\ LineLen \in Nat /\ LineLen >= 1
  BY LenProperties, ParsersAssumption DEF File
<1>2. S \in SUBSET Nat /\ S # {} /\ \A i \in S : i \in Nat /\ p <= i
  BY <1>1
<1>3. e \in S /\ \A i \in S : e <= i
  <2> HIDE DEF S
  <2> QED BY <1>2, MinIs
<1>4. EndOf(p) = e
  BY DEF EndOf
<1>5. e \in Nat /\ p <= e /\ e <= n /\ e <= p + LineLen - 1
  BY <1>1, <1>2, <1>3
<1>6. buf[e] = "NL" \/ e = n \/ e = p + LineLen - 1
  BY <1>3
<1> HIDE DEF e
<1>7. \A i \in p..(e - 1) : buf[i] # "NL"
  <2> TAKE i \in p..(e - 1)
  <2>1. i \in p..n /\ i < e
    BY <1>1, <1>5
  <2> QED BY <2>1, <1>1, <1>3, <1>5
<1>8. Ini!Fgets(f) = SubSeq(buf, p, e)
  <2> DEFINE R == {i \in 1..Len(f) : f[i] = "NL"} \cup {LineLen, Len(f)}
             d == e - p + 1
  <2>1. Len(f) = n - p + 1 /\ \A i \in 1..(n - p + 1) : f[i] = buf[p + i - 1]
    <3>1. p \in Nat \ {0} /\ p - 1 <= n /\ n <= Len(buf)
      BY <1>1
    <3> HIDE DEF n
    <3> QED BY <1>1, <3>1, PartHas DEF File
  <2>2. d \in Nat /\ 1 <= d /\ d <= n - p + 1 /\ p + d - 1 = e
    BY <1>1, <1>5
  <2> HIDE DEF f
  <2>3. R \in SUBSET Nat
    BY <1>1, <2>1
  <2>4. d \in R
    <3>1. CASE buf[e] = "NL"
      <4>1. d \in 1..Len(f)
        BY <1>1, <2>1, <2>2
      <4>2. f[d] = "NL"
        BY <2>1, <2>2, <3>1, <4>1
      <4> QED BY <4>1, <4>2
    <3>2. CASE e = n
      BY <2>1, <3>2
    <3>3. CASE e = p + LineLen - 1
      <4>1. d = LineLen
        BY <1>1, <1>5, <3>3
      <4> QED BY <4>1
    <3> QED BY <1>6, <3>1, <3>2, <3>3
  <2>5. ASSUME NEW i \in R PROVE d <= i
    <3>1. CASE i \in 1..Len(f) /\ f[i] = "NL"
      <4>1. i \in 1..(n - p + 1) /\ p + i - 1 \in p..n
        BY <1>1, <2>1, <3>1
      <4>2. p + i - 1 \in S
        BY <2>1, <3>1, <4>1
      <4>3. e <= p + i - 1
        BY <1>3, <4>2
      <4> QED BY <1>1, <1>5, <4>1, <4>3
    <3>2. CASE i = LineLen
      BY <1>1, <1>5, <3>2
    <3>3. CASE i = Len(f)
      BY <1>1, <1>5, <2>1, <3>3
    <3> QED BY <3>1, <3>2, <3>3
  <2>6. Ini!Min(R) = d
    <3> HIDE DEF R, d
    <3> QED BY <2>3, <2>4, <2>5, MinIs
  <2>7. Ini!Fgets(f) = SubSeq(f, 1, d)
    BY <2>6 DEF Ini!Fgets, Ini!NL
  <2>8. SubSeq(f, 1, d) = SubSeq(buf, p + 1 - 1, p + d - 1)
    <3>1. p \in Nat \ {0} /\ p - 1 <= n /\ n <= Len(buf) /\ 1 \in Nat \ {0} /\ 1 - 1 <= d
      BY <1>1, <2>2
    <3> HIDE DEF d, n
    <3> QED BY <1>1, <2>2, <3>1, PartOfPart DEF f, File
  <2>9. p + 1 - 1 = p
    BY <1>1
  <2> QED BY <2>2, <2>7, <2>8, <2>9
<1> QED BY <1>4, <1>5, <1>6, <1>7, <1>8 DEF f

-----------------------------------------------------------------------------
\* The next piece starts where one ends, and none starts within it.
LEMMA NextStart ==
  ASSUME File, NEW p \in Starts
  PROVE  /\ p \in 1..Len(buf) /\ EndOf(p) < Len(buf) => EndOf(p) + 1 \in Starts
         /\ \A q \in Starts : q <= p \/ EndOf(p) < q
<1> DEFINE b == BeginOfLine(p)
           e == EndOf(p)
           n == Len(buf)
<1>1. /\ n \in Nat /\ p \in 1..n /\ p \in Nat /\ 1 <= p /\ p <= n /\ LineLen \in Nat /\ LineLen > 0
      /\ (p - b) % LineLen = 0
  BY LenProperties, ParsersAssumption DEF File, Starts
<1>2. b \in 1..p /\ (\A i \in b..(p - 1) : buf[i] # "NL") /\ (b # 1 => buf[b - 1] = "NL")
  BY <1>1, BeginIs
<1>3. /\ e \in Nat /\ p <= e /\ e <= n /\ e <= p + LineLen - 1 /\ \A i \in p..(e - 1) : buf[i] # "NL"
      /\ buf[e] = "NL" \/ e = n \/ e = p + LineLen - 1
  BY <1>1, EndOfIs
<1> HIDE DEF b, e
<1>4. p - b \in Nat /\ b \in Nat /\ 1 <= b
  BY <1>1, <1>2
<1>5. (p - b + LineLen) % LineLen = 0 /\ \A k \in 1..(LineLen - 1) : (p - b + k) % LineLen # 0
  <2> DEFINE a == p - b
  <2>1. a \in Nat /\ a % LineLen = 0
    BY <1>1, <1>4
  <2>2. (a + LineLen) % LineLen = 0 /\ \A k \in 1..(LineLen - 1) : (a + k) % LineLen # 0
    <3> HIDE DEF a
    <3> QED BY <1>1, <2>1, Multiples
  <2> QED BY <2>2
<1>6. \A i \in b..(e - 1) : buf[i] # "NL"
  <2> TAKE i \in b..(e - 1)
  <2>1. i \in b..(p - 1) \/ i \in p..(e - 1)
    BY <1>1, <1>3, <1>4
  <2> QED BY <2>1, <1>2, <1>3
<1>7. ASSUME e < n PROVE e + 1 \in Starts
  <2> DEFINE q == e + 1
  <2>1. q \in 1..n /\ q - 1 = e
    BY <1>1, <1>3, <1>7
  <2>2. CASE buf[e] = "NL"
    <3>1. q \in 1..q /\ \A i \in q..(q - 1) : buf[i] # "NL"
      BY <2>1
    <3>2. buf[q - 1] = "NL"
      BY <2>1, <2>2
    <3> HIDE DEF q
    <3>3. BeginOfLine(q) = q
      BY <2>1, <3>1, <3>2, BeginOnly DEF n
    <3>4. (q - q) % LineLen = 0
      <4>1. q - q = 0
        BY <2>1
      <4>2. 0 % LineLen = 0
        BY <1>1
      <4> QED BY <4>1, <4>2
    <3>5. (q - BeginOfLine(q)) % LineLen = 0
      BY <3>3, <3>4
    <3>6. q \in Starts
      BY <2>1, <3>5 DEF Starts
    <3> QED BY <3>6 DEF q
  <2>3. CASE buf[e] # "NL" /\ e = p + LineLen - 1
    <3>1. b \in 1..q /\ \A i \in b..(q - 1) : buf[i] # "NL"
      <4>1. \A i \in b..e : i = e \/ i \in b..(e - 1)
        BY <1>3, <1>4
      <4> QED BY <1>1, <1>2, <1>3, <1>4, <1>6, <2>1, <2>3, <4>1
    <3>2. q - b = p - b + LineLen
      BY <1>1, <1>4, <2>3
    <3> HIDE DEF q
    <3>3. BeginOfLine(q) = b
      BY <1>2, <2>1, <3>1, BeginOnly DEF n
    <3>4. (q - BeginOfLine(q)) % LineLen = 0
      BY <3>2, <3>3, <1>5
    <3>5. q \in Starts
      BY <2>1, <3>4 DEF Starts
    <3> QED BY <3>5 DEF q
  <2> QED BY <1>3, <1>7, <2>2, <2>3
<1>8. ASSUME NEW q \in Starts, p < q, q <= e PROVE FALSE
  <2>1. q \in 1..n /\ (q - BeginOfLine(q)) % LineLen = 0
    BY DEF Starts
  <2>2. b \in 1..q /\ \A i \in b..(q - 1) : buf[i] # "NL"
    <3>1. \A i \in b..(q - 1) : i \in b..(e - 1)
      BY <1>3, <1>4, <1>8, <2>1
    <3> QED BY <3>1, <1>1, <1>4, <1>6, <1>8, <2>1, <1>2
  <2>3. BeginOfLine(q) = b
    BY <1>2, <2>1, <2>2, BeginOnly
  <2>4. q - p \in 1..(LineLen - 1) /\ q - b = p - b + (q - p)
    BY <1>1, <1>3, <1>4, <1>8, <2>1
  <2> QED BY <1>5, <2>1, <2>3, <2>4
<1>9. \A q \in Starts : q <= p \/ e < q
  <2> TAKE q \in Starts
  <2>1. q \in Nat
    BY <1>1 DEF Starts
  <2> QED BY <2>1, <1>1, <1>3, <1>8
<1> QED BY <1>1, <1>7, <1>9 DEF e

\* What is in the line buffer.
LEMMA PieceIs ==
  ASSUME File, NEW p \in 1..Len(buf), NEW line, line = SubSeq(buf, p, EndOf(p))
  PROVE  /\ line \in Seq(Char) /\ Len(line) = EndOf(p) - p + 1 /\ line # <<>> /\ line[1] = buf[p]
         /\ SubSeq(buf, p, Len(buf)) # <<>>
         /\ SubSeq(SubSeq(buf, p, Len(buf)), Len(line) + 1, Len(SubSeq(buf, p, Len(buf)))) = SubSeq(buf, EndOf(p) + 1, Len(buf))
<1> DEFINE e == EndOf(p)
           n == Len(buf)
           f == SubSeq(buf, p, n)
<1>0. n \in Nat /\ p \in Nat \ {0} /\ p <= n /\ buf \in Seq(Char)
  BY LenProperties DEF File
<1>1. e \in Nat /\ p <= e /\ e <= n /\ p - 1 <= e /\ p - 1 <= n /\ n <= n
  BY <1>0, EndOfIs
<1> HIDE DEF e
<1>2. line \in Seq(Char) /\ Len(line) = e - p + 1 /\ \A i \in 1..(e - p + 1) : line[i] = buf[p + i - 1]
  BY <1>0, <1>1, PartHas DEF e
<1>3. f \in Seq(Char) /\ Len(f) = n - p + 1
  BY <1>0, <1>1, PartHas
<1>4. line # <<>> /\ f # <<>>
  <2>1. Len(line) # 0 /\ Len(f) # 0
    BY <1>0, <1>1, <1>2, <1>3
  <2> HIDE DEF f
  <2> QED BY <2>1, EmptySeq
<1>5. line[1] = buf[p]
  <2>1. 1 \in 1..(e - p + 1) /\ p + 1 - 1 = p
    BY <1>0, <1>1
  <2> QED BY <2>1, <1>2
<1>6. SubSeq(f, Len(line) + 1, Len(f)) = SubSeq(buf, e + 1, n)
  <2> DEFINE c == Len(line) + 1
             d == Len(f)
  <2>1. c \in Nat \ {0} /\ d \in Nat /\ c - 1 <= d /\ d <= n - p + 1 /\ p + c - 1 = e + 1 /\ p + d - 1 = n
    BY <1>0, <1>1, <1>2, <1>3
  <2> HIDE DEF c, d
  <2>2. SubSeq(SubSeq(buf, p, n), c, d) = SubSeq(buf, p + c - 1, p + d - 1)
    <3> HIDE DEF n
    <3>1. n <= Len(buf)
      BY <1>0 DEF n
    <3> QED BY <1>0, <1>1, <2>1, <3>1, PartOfPart
  <2> QED BY <2>1, <2>2 DEF c, d
<1> QED BY <1>2, <1>4, <1>5, <1>6 DEF e

\* The text of a piece does not begin with a space.
LEMMA TextIs ==
  ASSUME File, NEW p \in 1..Len(buf), NEW line, line = SubSeq(buf, p, EndOf(p)),
         NEW text, text = IF p = 1 /\ line[1] = "BOM" THEN Tail(line) ELSE line
  PROVE  /\ Ini!lskip(Ini!rstrip(text)) = Text(p) /\ Text(p) \in Seq(Char)
         /\ Text(p) # <<>> => ~Ini!isspace(Text(p)[1])
<1> DEFINE e == EndOf(p)
<1>0. Len(buf) \in Nat /\ p \in Nat \ {0} /\ p <= Len(buf) /\ buf \in Seq(Char)
  BY LenProperties DEF File
<1>1. e \in Nat /\ p <= e /\ e <= Len(buf) /\ p - 1 <= e
  BY <1>0, EndOfIs
<1>2. line \in Seq(Char) /\ Len(line) = e - p + 1 /\ line # <<>> /\ line[1] = buf[p]
  BY PieceIs
<1>3. Inked(p) = {i \in p..e : ~Ini!isspace(buf[i]) /\ ~(i = 1 /\ buf[i] = "BOM")}
  BY DEF Inked
<1>4. Text(p) = IF Inked(p) = {} THEN <<>> ELSE SubSeq(buf, Min(Inked(p)), Max(Inked(p)))
  BY DEF Text
<1>5. line = SubSeq(buf, p, e)
  OBVIOUS
<1> HIDE DEF e
<1>6. text \in Seq(Char) /\ Trimmed(text) = Text(p)
  <2>1. CASE ~(p = 1 /\ buf[p] = "BOM")
    <3>1. text = line
      BY <1>2, <2>1
    <3>2. Inked(p) = InkIn(buf, p, e)
      BY <1>0, <1>1, <1>3, <2>1 DEF InkIn
    <3> DEFINE Q == InkIn(buf, p, e)
    <3>3. Trimmed(SubSeq(buf, p, e)) = IF Q = {} THEN <<>> ELSE SubSeq(buf, Min(Q), Max(Q))
      <4>1. Q = InkIn(buf, p, e)
        OBVIOUS
      <4> HIDE DEF Q
      <4> QED BY <1>0, <1>1, <4>1, PartTrimmed
    <3> QED BY <1>2, <1>4, <1>5, <3>1, <3>2, <3>3
  <2>2. CASE p = 1 /\ buf[p] = "BOM"
    <3>1. text = Tail(line)
      BY <1>2, <2>2
    <3>2. Tail(line) = SubSeq(line, 2, Len(line)) /\ Tail(line) \in Seq(Char)
      BY <1>2, TailIsSubSeq, HeadTailProperties
    <3>3. Len(line) = e
      BY <1>1, <1>2, <2>2
    <3>4. 2 \in Nat \ {0} /\ 2 - 1 <= e /\ 1 \in Nat \ {0} /\ 1 - 1 <= e /\ e <= e - 1 + 1 /\ 1 + 2 - 1 = 2 /\ 1 + e - 1 = e
      BY <1>1, <2>2
    <3>5. SubSeq(SubSeq(buf, 1, e), 2, e) = SubSeq(buf, 1 + 2 - 1, 1 + e - 1)
      BY <1>0, <1>1, <3>4, PartOfPart
    <3>6. text = SubSeq(buf, 2, e)
      BY <1>5, <2>2, <3>1, <3>2, <3>3, <3>4, <3>5
    <3>7. Inked(p) = InkIn(buf, 2, e)
      BY <1>1, <1>3, <2>2 DEF InkIn
    <3>8. Trimmed(SubSeq(buf, 2, e)) = IF Inked(p) = {} THEN <<>> ELSE SubSeq(buf, Min(Inked(p)), Max(Inked(p)))
      BY <1>0, <1>1, <3>4, <3>7, PartTrimmed
    <3> QED BY <1>4, <3>1, <3>2, <3>6, <3>8
  <2> QED BY <2>1, <2>2
<1>7. Ini!lskip(Ini!rstrip(text)) = Trimmed(text) /\ Trimmed(text) \in Seq(Char)
      /\ (Trimmed(text) # <<>> => ~Ini!isspace(Trimmed(text)[1]))
  BY <1>6, TrimIs
<1> QED BY <1>6, <1>7

-----------------------------------------------------------------------------
\* What a line does to the state of the parser.

\* A call of the handler, and the state of the parser.
Setter == Seq(Char) \X Seq(Char) \X Seq(Char)
State == [lineno : Nat, section : Seq(Char), prev_name : Seq(Char), error : Nat, calls : Seq(Setter)]

\* The next line number.
Counted(st) == [st EXCEPT !.lineno = @ + 1]

\* What the piece that begins at p does, in the terms of the file.
Effect(st, p) ==
  IF Blank(p) THEN Counted(st)
  ELSE IF st.prev_name # <<>> /\ Ini!isspace(buf[p]) THEN Ini!Call(Counted(st), st.prev_name, Text(p))
  ELSE IF IsHeader(p) THEN Ini!NewSection(Counted(st), Clear(Tail(Text(p)), {"]"}))
  ELSE IF IsPair(p) THEN Ini!Call([Counted(st) EXCEPT !.prev_name = Short(NameOf(p))], NameOf(p), ValueOf(p))
  ELSE Ini!Bad(Counted(st))

\* The parser finds the name of a pair.
LEMMA NameIs ==
  ASSUME File, NEW p \in 1..Len(buf), NEW end, end = Ini!find_chars_or_comment(Text(p), {"=", ":"})
  PROVE  /\ Ini!rstrip(Ini!Before(Text(p), end)) = NameOf(p) /\ NameOf(p) \in Seq(Char)
         /\ Short(NameOf(p)) \in Seq(Char) /\ Ini!strncpy0(NameOf(p)) = Short(NameOf(p))
<1> DEFINE t == Text(p)
           c == Clear(t, {"=", ":"})
<1>1. t \in Seq(Char) /\ (t # <<>> => ~Ini!isspace(t[1]))
  BY TextIs
<1> HIDE DEF t
<1>2. /\ end \in Nat \ {0} /\ end <= Len(t) + 1 /\ Len(t) \in Nat
      /\ c = SubSeq(t, 1, end - 1) /\ c \in Seq(Char) /\ Len(c) = end - 1 /\ Ini!Before(t, end) = c
  BY <1>1, ClearIs DEF t
<1>3. NameOf(p) = Trimmed(c)
  BY DEF NameOf, NameEnds, t
<1>4. c = <<>> \/ ~Ini!isspace(c[1])
  <2> SUFFICES ASSUME c # <<>> PROVE ~Ini!isspace(c[1])
    OBVIOUS
  <2> DEFINE n == end - 1
  <2>1. Len(c) \in Nat \ {0}
    <3> HIDE DEF c
    <3> QED BY <1>2, EmptySeq
  <2>2. n \in Nat /\ 1 <= n /\ n <= Len(t) /\ c = SubSeq(t, 1, n)
    <3>1. n = Len(c) /\ c = SubSeq(t, 1, n)
      BY <1>2
    <3> HIDE DEF c
    <3> QED BY <1>2, <2>1, <3>1
  <2> HIDE DEF n
  <2>3. c[1] = t[1]
    <3>1. \A i \in 1..n : SubSeq(t, 1, n)[i] = t[i]
      BY <1>1, <2>2, PrefixHas
    <3>2. 1 \in 1..n
      BY <2>2
    <3> HIDE DEF c
    <3> QED BY <2>2, <3>1, <3>2
  <2>4. t # <<>>
    BY <1>2, <2>2, EmptySeq
  <2> QED BY <1>1, <2>3, <2>4
<1> HIDE DEF c
<1>5. Ini!rstrip(c) = Trimmed(c) /\ Trimmed(c) \in Seq(Char)
  BY <1>2, <1>4, TrimIs
<1>6. NameOf(p) \in Seq(Char)
  BY <1>3, <1>5
<1> QED BY <1>2, <1>3, <1>5, <1>6, ShortIs DEF t

\* The parser finds the value of a pair.
LEMMA ValueIs ==
  ASSUME File, NEW p \in 1..Len(buf), NEW end, end = Ini!find_chars_or_comment(Text(p), {"=", ":"}), end <= Len(Text(p)),
         NEW rest, rest = Ini!After(Text(p), end)
  PROVE  /\ Ini!rstrip(Ini!lskip(Ini!Before(rest, Ini!find_chars_or_comment(rest, {})))) = ValueOf(p)
         /\ ValueOf(p) \in Seq(Char)
<1> DEFINE t == Text(p)
           c == Clear(t, {"=", ":"})
           d == Clear(rest, {})
<1>1. t \in Seq(Char)
  BY TextIs
<1> HIDE DEF t
<1>2. end \in Nat \ {0} /\ Len(t) \in Nat /\ Len(c) = end - 1
  BY <1>1, ClearIs DEF t
<1>3. rest = SubSeq(t, Len(c) + 2, Len(t)) /\ rest \in Seq(Char)
  <2> DEFINE a == end + 1
  <2>1. a \in Nat \ {0} /\ a - 1 <= Len(t) /\ Len(t) <= Len(t) /\ Len(c) + 2 = a
    BY <1>2 DEF t
  <2>2. rest = SubSeq(t, a, Len(t))
    BY DEF Ini!After, t
  <2> HIDE DEF a, c
  <2>3. SubSeq(t, a, Len(t)) \in Seq(Char)
    BY <1>1, <1>2, <2>1, PartHas
  <2> QED BY <2>1, <2>2, <2>3
<1>4. d \in Seq(Char) /\ Ini!Before(rest, Ini!find_chars_or_comment(rest, {})) = d
  BY <1>3, ClearIs
<1>5. ValueOf(p) = Trimmed(d)
  BY <1>3 DEF ValueOf, NameEnds, t
<1> HIDE DEF d
<1>6. Ini!rstrip(Ini!lskip(d)) = Trimmed(d) /\ Trimmed(d) \in Seq(Char)
  BY <1>4, TrimIs
<1> QED BY <1>4, <1>5, <1>6

\* What Ini!Line makes of a piece is Effect.
LEMMA LineIs ==
  ASSUME File, NEW p \in 1..Len(buf), NEW st \in State, st.lineno = 0 <=> p = 1
  PROVE  Ini!Line(st, SubSeq(buf, p, EndOf(p))) = Effect(st, p)
<1> DEFINE line == SubSeq(buf, p, EndOf(p))
           s == Counted(st)
           t == Text(p)
           text == IF p = 1 /\ line[1] = "BOM" THEN Tail(line) ELSE line
           c == IF s.lineno = 1 /\ line[1] = Ini!BOM THEN Tail(line) ELSE line
<1>1. s \in State /\ s.lineno = st.lineno + 1 /\ s.prev_name = st.prev_name
  <2>1. st.lineno + 1 \in Nat
    BY DEF State
  <2>2. s = [st EXCEPT !.lineno = st.lineno + 1]
    BY DEF Counted
  <2> HIDE DEF s
  <2> QED BY <2>1, <2>2 DEF State
<1>2. (s.lineno = 1) <=> (p = 1)
  <2>1. st.lineno \in Nat
    BY DEF State
  <2> QED BY <1>1, <2>1
<1>3. c = text
  BY <1>2 DEF Ini!BOM
<1>4. Ini!lskip(Ini!rstrip(text)) = t /\ t \in Seq(Char)
  BY TextIs
<1>5. line[1] = buf[p]
  BY PieceIs
<1>6. Ini!Line(st, line) =
        IF t = <<>> \/ t[1] \in {";", "#"} THEN s
        ELSE IF s.prev_name # <<>> /\ Ini!isspace(line[1]) THEN Ini!Call(s, s.prev_name, t)
        ELSE IF t[1] = "[" THEN Ini!SectionLine(s, t)
        ELSE Ini!PairLine(s, t)
  <2>1. Ini!Line(st, line) =
        LET start == Ini!lskip(Ini!rstrip(c))
        IN  IF start = <<>> \/ start[1] \in {";", "#"} THEN s
            ELSE IF s.prev_name # <<>> /\ Ini!isspace(line[1]) THEN Ini!Call(s, s.prev_name, start)
            ELSE IF start[1] = "[" THEN Ini!SectionLine(s, start)
            ELSE Ini!PairLine(s, start)
    BY DEF Ini!Line, Ini!INI_START_COMMENT_PREFIXES, Counted
  <2> HIDE DEF c, text, line, s, t
  <2> QED BY <2>1, <1>3, <1>4
<1> HIDE DEF line, s, t
<1>7. Blank(p) <=> t = <<>> \/ t[1] \in {";", "#"}
  BY DEF Blank, t
<1>8. ASSUME ~Blank(p), t[1] = "["
      PROVE  Ini!SectionLine(s, t) = IF IsHeader(p) THEN Ini!NewSection(s, Clear(Tail(t), {"]"})) ELSE Ini!Bad(s)
  <2> DEFINE u == Tail(t)
             end == Ini!find_chars_or_comment(u, {"]"})
  <2>1. u \in Seq(Char)
    BY <1>4, <1>7, <1>8, HeadTailProperties
  <2>2. Ini!SectionLine(s, t) = IF end <= Len(u) /\ u[end] = "]" THEN Ini!NewSection(s, Ini!Before(u, end)) ELSE Ini!Bad(s)
    BY DEF Ini!SectionLine
  <2>3. IsHeader(p) <=> Ends(u, {"]"})
    BY <1>8 DEF IsHeader, t
  <2> HIDE DEF u
  <2>4. Ini!Before(u, end) = Clear(u, {"]"}) /\ (Ends(u, {"]"}) <=> end <= Len(u) /\ u[end] \in {"]"})
    BY <2>1, ClearIs
  <2> HIDE DEF end
  <2>5. Ini!SectionLine(s, t) = IF IsHeader(p) THEN Ini!NewSection(s, Clear(u, {"]"})) ELSE Ini!Bad(s)
    BY <2>2, <2>3, <2>4
  <2> QED BY <2>5 DEF u
<1>9. ASSUME ~Blank(p), t[1] # "["
      PROVE  Ini!PairLine(s, t) =
               IF IsPair(p) THEN Ini!Call([s EXCEPT !.prev_name = Short(NameOf(p))], NameOf(p), ValueOf(p)) ELSE Ini!Bad(s)
  <2> DEFINE end == Ini!find_chars_or_comment(t, {"=", ":"})
             name == Ini!rstrip(Ini!Before(t, end))
             rest == Ini!After(t, end)
             value == Ini!rstrip(Ini!lskip(Ini!Before(rest, Ini!find_chars_or_comment(rest, {}))))
  <2>1. Ini!PairLine(s, t) = IF end <= Len(t) /\ t[end] \in {"=", ":"}
                             THEN Ini!Call([s EXCEPT !.prev_name = Ini!strncpy0(name)], name, value) ELSE Ini!Bad(s)
    BY DEF Ini!PairLine
  <2>2. IsPair(p) <=> Ends(t, {"=", ":"})
    BY <1>9 DEF IsPair, NameEnds, t
  <2>3. Ends(t, {"=", ":"}) <=> end <= Len(t) /\ t[end] \in {"=", ":"}
    BY <1>4, ClearIs
  <2>4. name = NameOf(p) /\ Ini!strncpy0(NameOf(p)) = Short(NameOf(p))
    BY NameIs DEF t
  <2>5. end <= Len(t) => value = ValueOf(p)
    BY ValueIs DEF t
  <2> HIDE DEF end, name, rest, value
  <2> QED BY <2>1, <2>2, <2>3, <2>4, <2>5
<1>10. /\ ~Blank(p) /\ t[1] = "[" => ~IsPair(p)
       /\ ~Blank(p) /\ t[1] # "[" => ~IsHeader(p)
  BY DEF IsPair, IsHeader, t
<1>11. Effect(st, p) =
        IF Blank(p) THEN s
        ELSE IF s.prev_name # <<>> /\ Ini!isspace(line[1]) THEN Ini!Call(s, s.prev_name, t)
        ELSE IF IsHeader(p) THEN Ini!NewSection(s, Clear(Tail(t), {"]"}))
        ELSE IF IsPair(p) THEN Ini!Call([s EXCEPT !.prev_name = Short(NameOf(p))], NameOf(p), ValueOf(p))
        ELSE Ini!Bad(s)
  BY <1>1, <1>5 DEF Effect, s, t
<1>12. Ini!Line(st, line) = Effect(st, p)
  <2>1. CASE Blank(p)
    BY <1>6, <1>7, <1>11, <2>1
  <2>2. CASE ~Blank(p) /\ t[1] = "["
    <3>1. /\ ~(t = <<>> \/ t[1] \in {";", "#"}) /\ ~IsPair(p)
          /\ Ini!SectionLine(s, t) = IF IsHeader(p) THEN Ini!NewSection(s, Clear(Tail(t), {"]"})) ELSE Ini!Bad(s)
      BY <1>7, <1>8, <1>10, <2>2
    <3> QED BY <1>6, <1>11, <2>2, <3>1, Zenon
  <2>3. CASE ~Blank(p) /\ t[1] # "["
    <3>1. /\ ~(t = <<>> \/ t[1] \in {";", "#"}) /\ ~IsHeader(p)
          /\ Ini!PairLine(s, t) = IF IsPair(p) THEN Ini!Call([s EXCEPT !.prev_name = Short(NameOf(p))], NameOf(p), ValueOf(p))
                                  ELSE Ini!Bad(s)
      BY <1>7, <1>9, <1>10, <2>3
    <3> QED BY <1>6, <1>11, <2>3, <3>1, Zenon
  <2> QED BY <2>1, <2>2, <2>3
<1> QED BY <1>12 DEF line

-----------------------------------------------------------------------------
\* The name an indented line goes on with.

\* The positions of X before p; the pieces before p.
Below(X, p) == {r \in X : r < p}
Before(p) == Below(Starts, p)

\* One step of the recursion of Owner.
OwnerOf(f, p) ==
  IF p = 1 THEN <<>>
  ELSE LET q == Max(Before(p)) IN
       IF Blank(q) \/ (Ini!isspace(buf[q]) /\ f[q] # <<>>) THEN f[q]
       ELSE IF IsHeader(q) THEN <<>>
       ELSE IF IsPair(q) THEN Short(NameOf(q)) ELSE f[q]

\* The pieces begin inside the file, the first one at its beginning.
LEMMA StartsAre ==
  ASSUME File
  PROVE  /\ Len(buf) \in Nat /\ Starts \in SUBSET (1..Len(buf)) /\ Starts \in SUBSET Nat
         /\ buf # <<>> => 1 \in Starts
         /\ \A p \in 1..Len(buf) : p # 1 => Max(Before(p)) \in Starts /\ Max(Before(p)) \in 1..(p - 1)
<1>1. Len(buf) \in Nat /\ Starts \in SUBSET (1..Len(buf)) /\ Starts \in SUBSET Nat
  BY LenProperties DEF File, Starts
<1>2. ASSUME buf # <<>> PROVE 1 \in Starts
  <2>1. 1 \in 1..Len(buf)
    BY <1>1, <1>2, EmptySeq DEF File
  <2>2. BeginOfLine(1) = 1
    <3>1. BeginOfLine(1) \in 1..1
      BY <2>1, BeginIs
    <3> QED BY <3>1
  <2>3. (1 - BeginOfLine(1)) % LineLen = 0
    <3>1. 0 % LineLen = 0
      BY ParsersAssumption
    <3>2. 1 - 1 = 0
      OBVIOUS
    <3> QED BY <2>2, <3>1, <3>2
  <2> QED BY <2>1, <2>3 DEF Starts
<1>3. ASSUME NEW p \in 1..Len(buf), p # 1 PROVE Max(Before(p)) \in Starts /\ Max(Before(p)) \in 1..(p - 1)
  <2>1. buf # <<>>
    <3>1. Len(buf) # 0
      BY <1>1
    <3> QED BY <3>1, EmptySeq
  <2>2. 1 \in Before(p)
    BY <1>1, <1>2, <1>3, <2>1 DEF Before, Below
  <2>3. Before(p) \in SUBSET (0..p) /\ p \in Nat
    <3>1. p \in Nat /\ \A r \in Before(p) : r \in 0..p
      BY <1>1 DEF Before, Below
    <3> QED BY <3>1
  <2>4. Max(Before(p)) \in Before(p)
    BY <2>2, <2>3, MaxIs
  <2>5. \A r \in Before(p) : r \in Starts /\ r \in 1..(p - 1)
    BY <1>1 DEF Before, Below
  <2> QED BY <2>4, <2>5
<1> QED BY <1>1, <1>2, <1>3

\* OwnerOf looks at earlier positions only, so that the recursion has a solution.
LEMMA OwnerLocal ==
  ASSUME File, NEW p \in 1..Len(buf), NEW f, NEW g, \A q \in 1..(p - 1) : f[q] = g[q]
  PROVE  OwnerOf(f, p) = OwnerOf(g, p)
<1>1. CASE p = 1
  BY <1>1 DEF OwnerOf
<1>2. CASE p # 1
  <2> DEFINE q == Max(Before(p))
  <2>1. f[q] = g[q]
    BY <1>2, StartsAre
  <2> HIDE DEF q
  <2>2. \A h : OwnerOf(h, p) = IF Blank(q) \/ (Ini!isspace(buf[q]) /\ h[q] # <<>>) THEN h[q]
                               ELSE IF IsHeader(q) THEN <<>>
                               ELSE IF IsPair(q) THEN Short(NameOf(q)) ELSE h[q]
    BY <1>2 DEF OwnerOf, q
  <2> QED BY <2>1, <2>2
<1> QED BY <1>1, <1>2

\* The recursive function Owner is that solution.
LEMMA OwnerIs ==
  ASSUME File
  PROVE  \A p \in 1..Len(buf) : Owner[p] = OwnerOf(Owner, p) /\ Owner[p] \in Seq(Char)
<1> DEFINE n == Len(buf)
           S == {m \in Nat : m <= n => \E f : f = [p \in 1..m |-> OwnerOf(f, p)]}
<1>0. n \in Nat
  BY StartsAre
<1>1. 0 \in S
  <2>1. <<>> = [p \in 1..0 |-> OwnerOf(<<>>, p)]
    OBVIOUS
  <2> QED BY <2>1
<1>2. ASSUME NEW m \in Nat, m \in S PROVE m + 1 \in S
  <2> SUFFICES ASSUME m + 1 <= n PROVE \E f : f = [p \in 1..(m + 1) |-> OwnerOf(f, p)]
    OBVIOUS
  <2>1. PICK f : f = [p \in 1..m |-> OwnerOf(f, p)]
    BY <1>0, <1>2
  <2> DEFINE g == [p \in 1..(m + 1) |-> IF p = m + 1 THEN OwnerOf(f, p) ELSE f[p]]
  <2>2. ASSUME NEW p \in 1..(m + 1) PROVE g[p] = OwnerOf(g, p)
    <3>1. p \in 1..n /\ \A q \in 1..(p - 1) : f[q] = g[q]
      <4>1. \A q \in 1..(p - 1) : q \in 1..(m + 1) /\ q # m + 1
        OBVIOUS
      <4> QED BY <4>1, <1>0
    <3>2. g[p] = OwnerOf(f, p)
      <4>1. g[p] = IF p = m + 1 THEN OwnerOf(f, p) ELSE f[p]
        OBVIOUS
      <4>2. p # m + 1 => p \in 1..m
        OBVIOUS
      <4> QED BY <2>1, <4>1, <4>2
    <3> HIDE DEF g
    <3> QED BY <3>1, <3>2, OwnerLocal
  <2>3. g = [p \in 1..(m + 1) |-> g[p]]
    OBVIOUS
  <2> HIDE DEF g
  <2>4. g = [p \in 1..(m + 1) |-> OwnerOf(g, p)]
    BY <2>2, <2>3
  <2> QED BY <2>4
<1>3. n \in S
  <2> HIDE DEF S
  <2> QED BY <1>0, <1>1, <1>2, NatInd
<1>4. \E f : f = [p \in 1..n |-> OwnerOf(f, p)]
  BY <1>0, <1>3
<1>5. Owner = CHOOSE f : f = [p \in 1..n |-> OwnerOf(f, p)]
  BY DEF Owner, OwnerOf, Before, Below
<1>6. Owner = [p \in 1..n |-> OwnerOf(Owner, p)]
  <2> HIDE DEF n
  <2> QED BY <1>4, <1>5
<1>7. \A p \in 1..n : Owner[p] = OwnerOf(Owner, p)
  BY <1>6
<1> DEFINE B == {p \in 1..n : Owner[p] \notin Seq(Char)}
<1>8. B = {}
  <2> SUFFICES ASSUME B # {} PROVE FALSE
    OBVIOUS
  <2>1. B \in SUBSET Nat
    BY <1>0
  <2>2. PICK p \in B : \A q \in B : p <= q
    <3> HIDE DEF B
    <3> QED BY <2>1, LeastNat
  <2>3. p \in 1..n
    OBVIOUS
  <2>4. <<>> \in Seq(Char)
    OBVIOUS
  <2>5. CASE p = 1
    BY <1>7, <2>3, <2>4, <2>5 DEF OwnerOf
  <2>6. CASE p # 1
    <3> DEFINE q == Max(Before(p))
    <3>1. q \in 1..(p - 1) /\ q \in 1..n
      BY <1>0, <2>3, <2>6, StartsAre
    <3> HIDE DEF q
    <3>2. Owner[q] \in Seq(Char)
      BY <1>0, <2>2, <2>3, <3>1
    <3>3. Short(NameOf(q)) \in Seq(Char)
      BY <3>1, NameIs
    <3>4. OwnerOf(Owner, p) \in {Owner[q], <<>>, Short(NameOf(q))}
      BY <2>6 DEF OwnerOf, q
    <3>5. Owner[p] \in Seq(Char)
      BY <1>7, <2>3, <2>4, <3>2, <3>3, <3>4
    <3> QED BY <3>5
  <2> QED BY <2>5, <2>6
<1> QED BY <1>7, <1>8

-----------------------------------------------------------------------------
\* The state of the parser before a piece, in the terms of the file.

\* The pieces that are bad lines.
BadLines == {p \in Starts : ~Blank(p) /\ ~GoesOn(p) /\ ~IsHeader(p) /\ ~IsPair(p)}

\* The positions of X up to p.
UpTo(X, p) == {q \in X : q <= p}

\* The number of the first bad line before a position.
FirstBad(p) == LET B == Below(BadLines, p) IN IF B = {} THEN 0 ELSE Cardinality(UpTo(Starts, Min(B)))

\* Which of the settings the one at p is.
Rank(p) == Cardinality(UpTo(Settings, p))

Reached(st, p) ==
  /\ p \in 1..(Len(buf) + 1) /\ (p <= Len(buf) => p \in Starts)
  /\ st \in State
  /\ st.lineno = Cardinality(Before(p))
  /\ st.section = SectionOf(p)
  /\ p <= Len(buf) => st.prev_name = Owner[p]
  /\ Len(st.calls) = Cardinality(Below(Settings, p))
  /\ \A q \in Below(Settings, p) : Rank(q) \in 1..Len(st.calls) /\ st.calls[Rank(q)] = Setting(q)
  /\ \A i \in 1..Len(st.calls) : \E q \in Below(Settings, p) : Rank(q) = i
  /\ st.error = FirstBad(p)

\* Effect, field by field.
LEMMA EffectIs ==
  ASSUME File, NEW p \in 1..Len(buf), NEW st \in State, st.section = SectionOf(p), st.prev_name = Owner[p],
         p \in Starts, NEW new, new = Effect(st, p)
  PROVE  /\ new \in State /\ new.lineno = st.lineno + 1
         /\ new.section = IF IsHeader(p) /\ ~GoesOn(p) THEN Short(Clear(Tail(Text(p)), {"]"})) ELSE st.section
         /\ new.prev_name = IF Blank(p) \/ (Ini!isspace(buf[p]) /\ Owner[p] # <<>>) THEN Owner[p]
                            ELSE IF IsHeader(p) THEN <<>>
                            ELSE IF IsPair(p) THEN Short(NameOf(p)) ELSE Owner[p]
         /\ p \in Settings => Setting(p) \in Setter
         /\ new.calls = IF p \in Settings THEN Append(st.calls, Setting(p)) ELSE st.calls
         /\ new.error = IF p \in BadLines /\ st.error = 0 THEN st.lineno + 1 ELSE st.error
<1> DEFINE s == Counted(st)
<1>1. /\ s \in State /\ s.lineno = st.lineno + 1 /\ s.section = st.section /\ s.prev_name = st.prev_name
      /\ s.calls = st.calls /\ s.error = st.error
  <2>1. st.lineno + 1 \in Nat
    BY DEF State
  <2>2. s = [st EXCEPT !.lineno = st.lineno + 1]
    BY DEF Counted
  <2> HIDE DEF s
  <2> QED BY <2>1, <2>2 DEF State
<1> HIDE DEF s
<1>2. \A x \in Setter : Append(st.calls, x) \in Seq(Setter)
  <2>1. st.calls \in Seq(Setter)
    BY DEF State
  <2> HIDE DEF Setter
  <2> QED BY <2>1, AppendProperties
<1>3. ASSUME NEW r \in State, r.section = st.section, r.calls = st.calls, NEW n \in Seq(Char), NEW v \in Seq(Char)
      PROVE  /\ Ini!Call(r, n, v) \in State /\ Ini!Call(r, n, v).lineno = r.lineno /\ Ini!Call(r, n, v).section = r.section
             /\ Ini!Call(r, n, v).prev_name = r.prev_name /\ Ini!Call(r, n, v).error = r.error
             /\ Ini!Call(r, n, v).calls = Append(st.calls, <<SectionOf(p), n, v>>) /\ <<SectionOf(p), n, v>> \in Setter
  <2>1. <<r.section, n, v>> \in Setter
    BY DEF State, Setter
  <2>2. Append(r.calls, <<r.section, n, v>>) \in Seq(Setter)
    BY <1>2, <1>3, <2>1
  <2> HIDE DEF Setter
  <2> QED BY <1>3, <2>1, <2>2 DEF Ini!Call, State
<1>4. Text(p) \in Seq(Char)
  BY TextIs
<1>5. GoesOn(p) <=> ~Blank(p) /\ st.prev_name # <<>> /\ Ini!isspace(buf[p])
  BY DEF GoesOn
<1>6. p \in Settings <=> GoesOn(p) \/ IsPair(p)
  BY DEF Settings
<1>7. p \in BadLines <=> ~Blank(p) /\ ~GoesOn(p) /\ ~IsHeader(p) /\ ~IsPair(p)
  BY DEF BadLines
<1>8. /\ IsHeader(p) => ~Blank(p) /\ ~IsPair(p)
      /\ IsPair(p) => ~Blank(p)
  BY DEF IsHeader, IsPair
<1>9. CASE Blank(p)
  <2>1. new = s
    BY <1>9 DEF Effect, s
  <2> QED BY <1>1, <1>5, <1>6, <1>7, <1>8, <1>9, <2>1
<1>10. CASE GoesOn(p)
  <2>1. new = Ini!Call(s, st.prev_name, Text(p))
    BY <1>5, <1>10 DEF Effect, s
  <2>2. st.prev_name \in Seq(Char)
    BY DEF State
  <2>3. Setting(p) = <<SectionOf(p), st.prev_name, Text(p)>>
    BY <1>10 DEF Setting
  <2> QED BY <1>1, <1>3, <1>4, <1>5, <1>6, <1>7, <1>10, <2>1, <2>2, <2>3
<1>11. CASE ~Blank(p) /\ ~GoesOn(p) /\ IsHeader(p)
  <2> DEFINE c == Clear(Tail(Text(p)), {"]"})
  <2>1. new = Ini!NewSection(s, c)
    BY <1>5, <1>11 DEF Effect, s
  <2>2. Ini!strncpy0(c) = Short(c) /\ Short(c) \in Seq(Char)
    <3>1. Tail(Text(p)) \in Seq(Char)
      BY <1>4, <1>11, HeadTailProperties DEF Blank
    <3>2. c \in Seq(Char)
      BY <3>1, ClearIs
    <3> HIDE DEF c
    <3> QED BY <3>2, ShortIs
  <2>3. /\ new \in State /\ new.lineno = s.lineno /\ new.section = Short(c) /\ new.prev_name = <<>>
        /\ new.calls = s.calls /\ new.error = s.error
    <3>1. new = [s EXCEPT !.section = Ini!strncpy0(c), !.prev_name = <<>>]
      BY <2>1 DEF Ini!NewSection
    <3>2. <<>> \in Seq(Char)
      OBVIOUS
    <3> DEFINE d == Short(c)
    <3>3. d \in Seq(Char) /\ new = [s EXCEPT !.section = d, !.prev_name = <<>>]
      BY <2>2, <3>1
    <3> HIDE DEF d
    <3>4. /\ new \in State /\ new.lineno = s.lineno /\ new.section = d /\ new.prev_name = <<>>
          /\ new.calls = s.calls /\ new.error = s.error
      BY <1>1, <3>2, <3>3 DEF State
    <3> QED BY <3>4 DEF d
  <2>4. new.prev_name = IF Blank(p) \/ (Ini!isspace(buf[p]) /\ Owner[p] # <<>>) THEN Owner[p]
                        ELSE IF IsHeader(p) THEN <<>>
                        ELSE IF IsPair(p) THEN Short(NameOf(p)) ELSE Owner[p]
    BY <1>5, <1>11, <2>3
  <2>5. p \notin Settings /\ p \notin BadLines
    BY <1>6, <1>7, <1>8, <1>11
  <2>6. new.section = IF IsHeader(p) /\ ~GoesOn(p) THEN Short(Clear(Tail(Text(p)), {"]"})) ELSE st.section
    BY <1>11, <2>3
  <2> HIDE DEF c
  <2> QED BY <1>1, <2>3, <2>4, <2>5, <2>6
<1>12. CASE ~Blank(p) /\ ~GoesOn(p) /\ IsPair(p)
  <2> DEFINE r == [s EXCEPT !.prev_name = Short(NameOf(p))]
  <2>1. new = Ini!Call(r, NameOf(p), ValueOf(p))
    BY <1>5, <1>8, <1>12 DEF Effect, s
  <2>2. NameOf(p) \in Seq(Char) /\ Short(NameOf(p)) \in Seq(Char)
    BY NameIs
  <2>3. ValueOf(p) \in Seq(Char)
    <3>1. Ends(Text(p), {"=", ":"})
      BY <1>12 DEF IsPair, NameEnds
    <3>2. Ini!find_chars_or_comment(Text(p), {"=", ":"}) <= Len(Text(p))
      BY <1>4, <3>1, ClearIs
    <3> QED BY <3>2, ValueIs
  <2>4. /\ r \in State /\ r.section = s.section /\ r.calls = s.calls /\ r.lineno = s.lineno /\ r.error = s.error
        /\ r.prev_name = Short(NameOf(p))
    BY <1>1, <2>2 DEF State
  <2>5. Setting(p) = <<SectionOf(p), NameOf(p), ValueOf(p)>>
    BY <1>12 DEF Setting
  <2> HIDE DEF r
  <2>6. /\ new \in State /\ new.lineno = s.lineno /\ new.section = st.section /\ new.prev_name = Short(NameOf(p))
        /\ new.error = s.error /\ new.calls = Append(st.calls, Setting(p)) /\ Setting(p) \in Setter
    <3> DEFINE n == NameOf(p)
               v == ValueOf(p)
               u == Ini!Call(r, n, v)
    <3>1. r \in State /\ r.section = st.section /\ r.calls = st.calls /\ n \in Seq(Char) /\ v \in Seq(Char)
      BY <1>1, <2>2, <2>3, <2>4
    <3> HIDE DEF n, v
    <3>2. /\ u \in State /\ u.lineno = r.lineno /\ u.section = r.section /\ u.prev_name = r.prev_name
          /\ u.error = r.error /\ u.calls = Append(st.calls, <<SectionOf(p), n, v>>)
          /\ <<SectionOf(p), n, v>> \in Setter
      BY <1>3, <3>1
    <3>3. new = u /\ Setting(p) = <<SectionOf(p), n, v>>
      BY <2>1, <2>5 DEF n, v
    <3> HIDE DEF u
    <3> QED BY <1>1, <2>4, <3>2, <3>3
  <2> QED BY <1>1, <1>5, <1>6, <1>7, <1>8, <1>12, <2>6
<1>13. CASE ~Blank(p) /\ ~GoesOn(p) /\ ~IsHeader(p) /\ ~IsPair(p)
  <2>1. new = Ini!Bad(s)
    BY <1>5, <1>13 DEF Effect, s
  <2>2. /\ new \in State /\ new.lineno = s.lineno /\ new.section = s.section /\ new.prev_name = s.prev_name
        /\ new.calls = s.calls /\ new.error = IF s.error = 0 THEN s.lineno ELSE s.error
    BY <1>1, <2>1 DEF Ini!Bad, State
  <2> QED BY <1>1, <1>5, <1>6, <1>7, <1>13, <2>2
<1> QED BY <1>9, <1>10, <1>11, <1>12, <1>13

-----------------------------------------------------------------------------
\* From one piece to the next.

\* A piece more is before the next position.
LEMMA BelowNext ==
  ASSUME File, NEW p \in Starts, NEW X \in SUBSET Starts
  PROVE  /\ Below(X, EndOf(p) + 1) = IF p \in X THEN Below(X, p) \cup {p} ELSE Below(X, p)
         /\ UpTo(X, p) = Below(X, EndOf(p) + 1) /\ p \notin Below(X, p)
         /\ Below(X, p) \in SUBSET Nat /\ IsFiniteSet(Below(X, p)) /\ Cardinality(Below(X, p)) \in Nat
         /\ p \in X => Cardinality(Below(X, EndOf(p) + 1)) = Cardinality(Below(X, p)) + 1
<1>1. /\ Len(buf) \in Nat /\ p \in 1..Len(buf) /\ p \in Nat /\ X \in SUBSET Nat
      /\ \A q \in X : q \in Starts /\ q \in 1..Len(buf)
  BY StartsAre
<1>2. EndOf(p) \in Nat /\ p <= EndOf(p) /\ \A q \in X : q <= p \/ EndOf(p) < q
  BY <1>1, EndOfIs, NextStart
<1>3. \A q \in X : q < EndOf(p) + 1 <=> q <= p
  <2> TAKE q \in X
  <2>1. q \in Nat
    BY <1>1
  <2> QED BY <1>1, <1>2, <2>1
<1>4. UpTo(X, p) = Below(X, EndOf(p) + 1)
  BY <1>3 DEF UpTo, Below
<1>5. Below(X, EndOf(p) + 1) = IF p \in X THEN Below(X, p) \cup {p} ELSE Below(X, p)
  <2>1. \A q \in X : q <= p <=> (q < p \/ q = p)
    BY <1>1
  <2> QED BY <1>3, <2>1 DEF Below
<1>6. p \notin Below(X, p) /\ Below(X, p) \in SUBSET Nat /\ Below(X, p) \in SUBSET (1..Len(buf))
  <2>1. \A q \in Below(X, p) : q \in X /\ q # p
    BY <1>1 DEF Below
  <2> QED BY <1>1, <2>1
<1>7. IsFiniteSet(Below(X, p)) /\ Cardinality(Below(X, p)) \in Nat
  <2>1. IsFiniteSet(1..Len(buf))
    BY <1>1, FS_Interval
  <2> QED BY <1>6, <2>1, FS_Subset, FS_CardinalityType
<1>8. p \in X => Cardinality(Below(X, EndOf(p) + 1)) = Cardinality(Below(X, p)) + 1
  BY <1>5, <1>6, <1>7, FS_AddElement
<1> QED BY <1>4, <1>5, <1>6, <1>7, <1>8

\* The pieces that are headers.
Headers == {q \in Starts : IsHeader(q) /\ ~GoesOn(q)}

\* Only a header changes the section.
LEMMA SectionNext ==
  ASSUME File, NEW p \in Starts
  PROVE  SectionOf(EndOf(p) + 1) =
           IF IsHeader(p) /\ ~GoesOn(p) THEN Short(Clear(Tail(Text(p)), {"]"})) ELSE SectionOf(p)
<1>1. \A x : SectionOf(x) = IF Below(Headers, x) = {} THEN <<>>
                            ELSE Short(Clear(Tail(Text(Max(Below(Headers, x)))), {"]"}))
  <2> TAKE x
  <2>1. {q \in Starts : q < x /\ IsHeader(q) /\ ~GoesOn(q)} = Below(Headers, x)
    BY DEF Below, Headers
  <2> QED BY <2>1 DEF SectionOf
<1>2. Headers \in SUBSET Starts /\ (p \in Headers <=> IsHeader(p) /\ ~GoesOn(p))
  BY DEF Headers
<1>3. /\ Below(Headers, EndOf(p) + 1) = IF p \in Headers THEN Below(Headers, p) \cup {p} ELSE Below(Headers, p)
      /\ Below(Headers, p) \in SUBSET Nat
  BY <1>2, BelowNext
<1>4. CASE p \notin Headers
  BY <1>1, <1>2, <1>3, <1>4
<1>5. CASE p \in Headers
  <2>1. p \in Nat
    BY StartsAre
  <2> DEFINE H == Below(Headers, p) \cup {p}
  <2>2. \A q \in Below(Headers, p) : q \in 0..p /\ q <= p
    BY <1>3, <2>1 DEF Below
  <2>3. p \in H /\ H \in SUBSET (0..p) /\ \A q \in H : q <= p
    BY <2>1, <2>2
  <2> HIDE DEF H
  <2>4. Max(H) = p
    BY <2>1, <2>3, MaxIs
  <2>5. Below(Headers, EndOf(p) + 1) = H
    BY <1>3, <1>5 DEF H
  <2> QED BY <1>1, <1>2, <1>5, <2>3, <2>4, <2>5
<1> QED BY <1>4, <1>5

\* Only the first bad line becomes the error.
LEMMA FirstBadNext ==
  ASSUME File, NEW p \in Starts
  PROVE  /\ FirstBad(p) \in Nat
         /\ FirstBad(EndOf(p) + 1) =
              IF p \in BadLines /\ FirstBad(p) = 0 THEN Cardinality(Before(p)) + 1 ELSE FirstBad(p)
<1> DEFINE B == Below(BadLines, p)
           C == Below(BadLines, EndOf(p) + 1)
<1>1. BadLines \in SUBSET Starts /\ Starts \in SUBSET Starts
  BY DEF BadLines
<1>2. /\ C = IF p \in BadLines THEN B \cup {p} ELSE B
      /\ B \in SUBSET Nat
  BY <1>1, BelowNext
<1>3. Cardinality(UpTo(Starts, p)) = Cardinality(Before(p)) + 1
  BY <1>1, BelowNext DEF Before
<1>4. p \in Nat /\ \A q \in B : q < p /\ q \in Starts
  BY <1>1, StartsAre DEF Below
<1>5. FirstBad(p) = IF B = {} THEN 0 ELSE Cardinality(UpTo(Starts, Min(B)))
  BY DEF FirstBad
<1>6. FirstBad(EndOf(p) + 1) = IF C = {} THEN 0 ELSE Cardinality(UpTo(Starts, Min(C)))
  BY DEF FirstBad
<1> HIDE DEF B, C
<1>7. ASSUME B # {} PROVE FirstBad(p) \in Nat /\ FirstBad(p) # 0 /\ FirstBad(EndOf(p) + 1) = FirstBad(p)
  <2>1. Min(B) \in B /\ \A q \in B : Min(B) <= q
    BY <1>2, <1>7, MinIs
  <2> DEFINE m == Min(B)
  <2>2. Min(C) = m /\ C # {}
    <3>0. m \in B /\ \A q \in B : m <= q
      BY <2>1
    <3> HIDE DEF m
    <3>1. m \in C /\ m \in Nat /\ m <= p
      BY <1>2, <1>4, <3>0
    <3>2. \A q \in C : q \in Nat /\ (q \in B \/ q = p)
      BY <1>2, <1>4
    <3>3. C \in SUBSET Nat /\ \A q \in C : m <= q
      BY <3>0, <3>1, <3>2
    <3> QED BY <3>1, <3>3, MinIs
  <2>3. Cardinality(UpTo(Starts, m)) \in Nat \ {0}
    <3>1. m \in Starts
      BY <1>4, <2>1
    <3> HIDE DEF m
    <3>2. Cardinality(UpTo(Starts, m)) = Cardinality(Below(Starts, m)) + 1 /\ Cardinality(Below(Starts, m)) \in Nat
      BY <1>1, <3>1, BelowNext
    <3> QED BY <3>2
  <2> QED BY <1>5, <1>6, <1>7, <2>2, <2>3
<1>8. CASE B = {} /\ p \notin BadLines
  BY <1>2, <1>5, <1>6, <1>8
<1>9. CASE B = {} /\ p \in BadLines
  <2>1. C = {p}
    BY <1>2, <1>9
  <2>2. Min(C) = p
    <3>1. C \in SUBSET Nat /\ p \in C /\ \A q \in C : p <= q
      BY <1>4, <2>1
    <3> QED BY <3>1, MinIs
  <2> QED BY <1>3, <1>5, <1>6, <1>9, <2>1, <2>2
<1> QED BY <1>7, <1>8, <1>9

\* Whom a continuation belongs to, from one piece to the next.
LEMMA OwnerNext ==
  ASSUME File, NEW p \in Starts, EndOf(p) < Len(buf)
  PROVE  Owner[EndOf(p) + 1] = IF Blank(p) \/ (Ini!isspace(buf[p]) /\ Owner[p] # <<>>) THEN Owner[p]
                               ELSE IF IsHeader(p) THEN <<>>
                               ELSE IF IsPair(p) THEN Short(NameOf(p)) ELSE Owner[p]
<1> DEFINE x == EndOf(p) + 1
<1>1. p \in 1..Len(buf) /\ p \in Nat /\ Len(buf) \in Nat /\ Starts \in SUBSET (1..Len(buf)) /\ Starts \in SUBSET Nat
  BY StartsAre
<1>2. EndOf(p) \in Nat /\ p <= EndOf(p)
  BY <1>1, EndOfIs
<1>3. x \in 1..Len(buf) /\ x # 1
  BY <1>1, <1>2
<1>4. Max(Before(x)) = p
  <2>1. Before(x) = UpTo(Starts, p)
    BY BelowNext DEF Before
  <2>2. UpTo(Starts, p) \in SUBSET (0..p) /\ p \in UpTo(Starts, p) /\ \A q \in UpTo(Starts, p) : q <= p
    <3>1. \A q \in UpTo(Starts, p) : q \in 0..p /\ q <= p
      BY <1>1 DEF UpTo
    <3>2. p \in UpTo(Starts, p)
      BY <1>1 DEF UpTo
    <3> QED BY <3>1, <3>2
  <2> HIDE DEF x
  <2> QED BY <1>1, <2>1, <2>2, MaxIs
<1> HIDE DEF x
<1>5. Owner[x] = OwnerOf(Owner, x)
  BY <1>3, OwnerIs
<1>6. Owner[x] = IF Blank(p) \/ (Ini!isspace(buf[p]) /\ Owner[p] # <<>>) THEN Owner[p]
                 ELSE IF IsHeader(p) THEN <<>>
                 ELSE IF IsPair(p) THEN Short(NameOf(p)) ELSE Owner[p]
  BY <1>3, <1>4, <1>5 DEF OwnerOf
<1> QED BY <1>6 DEF x

\* A piece takes the parser from one position to the next.
LEMMA StepIs ==
  ASSUME File, NEW p \in 1..Len(buf), NEW st, Reached(st, p)
  PROVE  Ini!Line(st, SubSeq(buf, p, EndOf(p))) \in State /\ Reached(Ini!Line(st, SubSeq(buf, p, EndOf(p))), EndOf(p) + 1)
<1> DEFINE x == EndOf(p) + 1
           new == Effect(st, p)
<1>1. Len(buf) \in Nat /\ p \in Nat /\ p <= Len(buf) /\ 1 <= p /\ EndOf(p) \in Nat /\ p <= EndOf(p) /\ EndOf(p) <= Len(buf)
  BY StartsAre, EndOfIs
<1>2. /\ p \in Starts /\ st \in State /\ st.lineno = Cardinality(Before(p)) /\ st.section = SectionOf(p)
      /\ st.prev_name = Owner[p] /\ Len(st.calls) = Cardinality(Below(Settings, p)) /\ st.error = FirstBad(p)
      /\ \A q \in Below(Settings, p) : Rank(q) \in 1..Len(st.calls) /\ st.calls[Rank(q)] = Setting(q)
      /\ \A i \in 1..Len(st.calls) : \E q \in Below(Settings, p) : Rank(q) = i
  BY <1>1 DEF Reached
<1>3. Ini!Line(st, SubSeq(buf, p, EndOf(p))) = new
  <2>1. st.lineno = 0 <=> p = 1
    <3>1. p # 1 => Before(p) # {}
      <4>1. buf # <<>>
        BY <1>1, EmptySeq
      <4>2. 1 \in Starts
        BY <4>1, StartsAre
      <4> QED BY <1>1, <4>2 DEF Before, Below
    <3>2. p = 1 => Before(p) = {}
      BY StartsAre DEF Before, Below
    <3>3. IsFiniteSet(Before(p))
      BY <1>2, BelowNext DEF Before
    <3>4. Cardinality(Before(p)) = 0 <=> Before(p) = {}
      BY <3>3, FS_EmptySet
    <3> QED BY <1>2, <3>1, <3>2, <3>4
  <2> QED BY <1>2, <2>1, LineIs
<1>4. /\ new \in State /\ new.lineno = st.lineno + 1
      /\ new.section = IF IsHeader(p) /\ ~GoesOn(p) THEN Short(Clear(Tail(Text(p)), {"]"})) ELSE st.section
      /\ new.prev_name = IF Blank(p) \/ (Ini!isspace(buf[p]) /\ Owner[p] # <<>>) THEN Owner[p]
                         ELSE IF IsHeader(p) THEN <<>>
                         ELSE IF IsPair(p) THEN Short(NameOf(p)) ELSE Owner[p]
      /\ p \in Settings => Setting(p) \in Setter
      /\ new.calls = IF p \in Settings THEN Append(st.calls, Setting(p)) ELSE st.calls
      /\ new.error = IF p \in BadLines /\ st.error = 0 THEN st.lineno + 1 ELSE st.error
  BY <1>2, EffectIs
<1> HIDE DEF x, new
<1>5. x \in 1..(Len(buf) + 1) /\ (x <= Len(buf) => x \in Starts)
  BY <1>1, <1>2, NextStart DEF x
<1>6. new.lineno = Cardinality(Before(x))
  <2>1. Starts \in SUBSET Starts
    OBVIOUS
  <2> QED BY <1>2, <1>4, <2>1, BelowNext DEF Before, x
<1>7. new.section = SectionOf(x)
  BY <1>2, <1>4, SectionNext DEF x
<1>8. x <= Len(buf) => new.prev_name = Owner[x]
  <2>1. x <= Len(buf) => EndOf(p) < Len(buf)
    BY <1>1 DEF x
  <2> QED BY <1>2, <1>4, <2>1, OwnerNext DEF x
<1>9. /\ Len(new.calls) = Cardinality(Below(Settings, x))
      /\ \A q \in Below(Settings, x) : Rank(q) \in 1..Len(new.calls) /\ new.calls[Rank(q)] = Setting(q)
      /\ \A i \in 1..Len(new.calls) : \E q \in Below(Settings, x) : Rank(q) = i
  <2>1. Settings \in SUBSET Starts
    BY DEF Settings
  <2>2. /\ Below(Settings, x) = IF p \in Settings THEN Below(Settings, p) \cup {p} ELSE Below(Settings, p)
        /\ Rank(p) = Cardinality(Below(Settings, x))
        /\ p \in Settings => Cardinality(Below(Settings, x)) = Cardinality(Below(Settings, p)) + 1
    BY <1>2, <2>1, BelowNext DEF x, Rank
  <2>3. CASE p \notin Settings
    BY <1>2, <1>4, <2>2, <2>3
  <2>4. CASE p \in Settings
    <3> DEFINE n == Len(st.calls)
    <3>1. /\ n \in Nat /\ Len(new.calls) = n + 1 /\ \A i \in 1..n : new.calls[i] = st.calls[i]
          /\ new.calls[n + 1] = Setting(p)
      <4>1. st.calls \in Seq(Setter) /\ Setting(p) \in Setter /\ new.calls = Append(st.calls, Setting(p))
        BY <1>2, <1>4, <2>4 DEF State
      <4> HIDE DEF Setter
      <4> QED BY <4>1, AppendProperties, LenProperties
    <3>2. Rank(p) = n + 1 /\ Cardinality(Below(Settings, x)) = n + 1
      BY <1>2, <2>2, <2>4
    <3> HIDE DEF n
    <3>3. \A q \in Below(Settings, x) : q \in Below(Settings, p) \/ q = p
      BY <2>2
    <3>4. /\ \A q \in Below(Settings, p) : Rank(q) \in 1..n /\ st.calls[Rank(q)] = Setting(q)
          /\ \A i \in 1..n : \E q \in Below(Settings, p) : Rank(q) = i
      BY <1>2 DEF n
    <3>5. \A q \in Below(Settings, x) : Rank(q) \in 1..(n + 1) /\ new.calls[Rank(q)] = Setting(q)
      <4>1. \A i \in 1..n : i \in 1..(n + 1)
        BY <3>1
      <4>2. n + 1 \in 1..(n + 1)
        BY <3>1
      <4> QED BY <3>1, <3>2, <3>3, <3>4, <4>1, <4>2
    <3>6. \A i \in 1..(n + 1) : \E q \in Below(Settings, x) : Rank(q) = i
      <4> TAKE i \in 1..(n + 1)
      <4>1. i \in 1..n \/ i = n + 1
        BY <3>1
      <4>2. p \in Below(Settings, x) /\ \A q \in Below(Settings, p) : q \in Below(Settings, x)
        BY <2>2, <2>4
      <4> QED BY <3>2, <3>4, <4>1, <4>2
    <3> QED BY <3>1, <3>2, <3>5, <3>6
  <2> QED BY <2>3, <2>4
<1>10. new.error = FirstBad(x)
  BY <1>2, <1>4, FirstBadNext DEF x
<1>11. Reached(new, x)
  BY <1>4, <1>5, <1>6, <1>7, <1>8, <1>9, <1>10 DEF Reached
<1> QED BY <1>3, <1>4, <1>11 DEF x

\* Before the first piece.
LEMMA StartIs ==
  ASSUME File
  PROVE  Reached(Ini!Init0, 1)
<1>1. \A X \in SUBSET Starts : Below(X, 1) = {}
  BY StartsAre DEF Below
<1>2. Settings \in SUBSET Starts /\ BadLines \in SUBSET Starts /\ Headers \in SUBSET Starts /\ Starts \in SUBSET Starts
  BY DEF Settings, BadLines, Headers
<1>3. Cardinality({}) = 0
  BY FS_EmptySet
<1>4. /\ Ini!Init0.lineno = 0 /\ Ini!Init0.section = <<>> /\ Ini!Init0.prev_name = <<>> /\ Ini!Init0.error = 0
      /\ Ini!Init0.calls = <<>> /\ Ini!Init0 \in State
  <2>1. <<>> \in Seq(Char) /\ <<>> \in Seq(Setter)
    <3> HIDE DEF Setter
    <3> QED OBVIOUS
  <2> QED BY <2>1 DEF Ini!Init0, State
<1>5. SectionOf(1) = <<>>
  <2>1. {q \in Starts : q < 1 /\ IsHeader(q) /\ ~GoesOn(q)} = {}
    BY StartsAre
  <2> QED BY <2>1 DEF SectionOf
<1>6. 1 <= Len(buf) => Owner[1] = <<>> /\ 1 \in Starts
  <2> SUFFICES ASSUME 1 <= Len(buf) PROVE Owner[1] = <<>> /\ 1 \in Starts
    OBVIOUS
  <2>1. 1 \in 1..Len(buf) /\ buf # <<>>
    BY StartsAre, EmptySeq
  <2> QED BY <2>1, OwnerIs, StartsAre DEF OwnerOf
<1>7. FirstBad(1) = 0
  BY <1>1, <1>2 DEF FirstBad
<1>8. 1 \in 1..(Len(buf) + 1)
  BY StartsAre
<1>9. Len(<<>>) = 0 /\ \A i : i \notin 1..0
  OBVIOUS
<1>10. Below(Settings, 1) = {} /\ Before(1) = {}
  BY <1>1, <1>2 DEF Before
<1> QED BY <1>3, <1>4, <1>5, <1>6, <1>7, <1>8, <1>9, <1>10 DEF Reached

-----------------------------------------------------------------------------
\* The parser's loop, and what it ends with.

\* A turn of the loop of ini_parse_stream.
Turned(t) ==
  IF t.left = <<>> THEN t
  ELSE [st |-> Ini!Line(t.st, Ini!Fgets(t.left)),
        left |-> SubSeq(t.left, Len(Ini!Fgets(t.left)) + 1, Len(t.left))]

\* The m-th turn.
TurnOf(f, m) == IF m = 0 THEN [st |-> Ini!Init0, left |-> buf] ELSE Turned(f[m - 1])

\* A turn of the loop takes one piece from what is left.
LEMMA TurnIs ==
  ASSUME NEW t
  PROVE  /\ t.left = <<>> => Turned(t) = t
         /\ t.left # <<>> =>
              /\ Turned(t).st = Ini!Line(t.st, Ini!Fgets(t.left))
              /\ Turned(t).left = SubSeq(t.left, Len(Ini!Fgets(t.left)) + 1, Len(t.left))
BY DEF Turned

\* The turns of ini_parse_stream are a function of the turn before.
LEMMA TurnsAre ==
  ASSUME File
  PROVE  \E f : /\ \A m \in 0..Len(buf) : f[m] = TurnOf(f, m)
                /\ Ini!ini_parse_stream(buf) = f[Len(buf)].st
<1> DEFINE n == Len(buf)
           S == {k \in Nat : \E f : f = [m \in 0..k |-> TurnOf(f, m)]}
           F == CHOOSE f : f = [m \in 0..n |-> TurnOf(f, m)]
<1>0. n \in Nat
  BY StartsAre
<1>1. 0 \in S
  <2> DEFINE f == [m \in 0..0 |-> [st |-> Ini!Init0, left |-> buf]]
  <2>1. f = [m \in 0..0 |-> TurnOf(f, m)]
    <3>1. \A m \in 0..0 : m = 0
      OBVIOUS
    <3>2. \A m \in 0..0 : TurnOf(f, m) = [st |-> Ini!Init0, left |-> buf]
      BY <3>1 DEF TurnOf
    <3> QED BY <3>2
  <2> QED BY <2>1
<1>2. ASSUME NEW k \in Nat, k \in S PROVE k + 1 \in S
  <2>1. PICK f : f = [m \in 0..k |-> TurnOf(f, m)]
    BY <1>2
  <2> DEFINE g == [m \in 0..(k + 1) |-> IF m = k + 1 THEN TurnOf(f, m) ELSE f[m]]
  <2>2. ASSUME NEW m \in 0..(k + 1) PROVE g[m] = TurnOf(g, m)
    <3>1. g[m] = TurnOf(f, m)
      <4>1. g[m] = IF m = k + 1 THEN TurnOf(f, m) ELSE f[m]
        OBVIOUS
      <4>2. m # k + 1 => m \in 0..k
        OBVIOUS
      <4> QED BY <2>1, <4>1, <4>2
    <3>2. m # 0 => g[m - 1] = f[m - 1]
      <4>1. m # 0 => m - 1 \in 0..(k + 1) /\ m - 1 # k + 1
        OBVIOUS
      <4> QED BY <4>1
    <3> HIDE DEF g
    <3> QED BY <3>1, <3>2 DEF TurnOf
  <2>3. g = [m \in 0..(k + 1) |-> g[m]]
    OBVIOUS
  <2> HIDE DEF g
  <2>4. g = [m \in 0..(k + 1) |-> TurnOf(g, m)]
    BY <2>2, <2>3
  <2> QED BY <2>4
<1>3. \E f : f = [m \in 0..n |-> TurnOf(f, m)]
  <2>1. n \in S
    <3> HIDE DEF S
    <3> QED BY <1>0, <1>1, <1>2, NatInd
  <2> QED BY <2>1
<1>4. F = [m \in 0..n |-> TurnOf(F, m)]
  <2> HIDE DEF n
  <2> QED BY <1>3
<1>5. Ini!ini_parse_stream(buf) = F[n].st
  BY DEF Ini!ini_parse_stream, TurnOf, Turned
<1> HIDE DEF F
<1>6. \A m \in 0..n : F[m] = TurnOf(F, m)
  BY <1>4
<1> QED BY <1>5, <1>6

\* By induction over the turns, the whole file is read and every piece was taken right.
LEMMA RunIs ==
  ASSUME File
  PROVE  Reached(Ini!ini_parse_stream(buf), Len(buf) + 1)
<1> DEFINE n == Len(buf)
<1>0. n \in Nat
  BY StartsAre
<1>1. PICK f : /\ \A m \in 0..n : f[m] = TurnOf(f, m)
               /\ Ini!ini_parse_stream(buf) = f[n].st
  BY TurnsAre
<1> DEFINE At(m, p) == /\ Reached(f[m].st, p) /\ f[m].left = SubSeq(buf, p, n)
                       /\ p \in 1..(n + 1) /\ (p >= m + 1 \/ p = n + 1)
           S == {m \in Nat : m <= n => \E p \in 1..(n + 1) : At(m, p)}
<1>2. 0 \in S
  <2>1. f[0] = [st |-> Ini!Init0, left |-> buf]
    <3>1. f[0] = TurnOf(f, 0)
      BY <1>0, <1>1
    <3> QED BY <3>1 DEF TurnOf
  <2>2. SubSeq(buf, 1, n) = buf
    BY SubSeqFull DEF File
  <2>3. 1 \in 1..(n + 1) /\ 1 >= 0 + 1
    BY <1>0
  <2>4. At(0, 1)
    BY <2>1, <2>2, <2>3, StartIs
  <2> HIDE DEF At
  <2> QED BY <2>3, <2>4
<1>3. ASSUME NEW m \in Nat, m \in S PROVE m + 1 \in S
  <2> SUFFICES ASSUME m + 1 <= n PROVE \E p \in 1..(n + 1) : At(m + 1, p)
    OBVIOUS
  <2>1. PICK p \in 1..(n + 1) : At(m, p)
    <3> HIDE DEF At
    <3> QED BY <1>0, <1>3
  <2>2. f[m + 1] = Turned(f[m])
    <3>1. f[m + 1] = TurnOf(f, m + 1) /\ m + 1 # 0 /\ m + 1 - 1 = m
      BY <1>0, <1>1
    <3> QED BY <3>1 DEF TurnOf
  <2>3. CASE p = n + 1
    <3>1. f[m].left = <<>>
      <4>1. f[m].left = SubSeq(buf, n + 1, n)
        BY <2>1, <2>3
      <4>2. n + 1 \in Int /\ n \in Int /\ n < n + 1
        BY <1>0
      <4> QED BY <4>1, <4>2, SubSeqEmpty
    <3>2. f[m + 1] = f[m]
      BY <2>2, <3>1, TurnIs
    <3>3. At(m + 1, p)
      BY <2>1, <2>3, <3>2
    <3> HIDE DEF At
    <3> QED BY <3>3
  <2>4. CASE p # n + 1
    <3> DEFINE e == EndOf(p)
               line == SubSeq(buf, p, e)
               q == e + 1
    <3>1. p \in 1..n /\ p \in Nat
      BY <1>0, <2>4
    <3>2. e \in Nat /\ p <= e /\ e <= n /\ Ini!Fgets(SubSeq(buf, p, n)) = line
      BY <3>1, EndOfIs
    <3>3. f[m].left = SubSeq(buf, p, n) /\ Reached(f[m].st, p)
      BY <2>1
    <3>4. /\ SubSeq(buf, p, n) # <<>>
          /\ SubSeq(SubSeq(buf, p, n), Len(line) + 1, Len(SubSeq(buf, p, n))) = SubSeq(buf, q, n)
      BY <3>1, PieceIs
    <3>5. f[m + 1].st = Ini!Line(f[m].st, line) /\ f[m + 1].left = SubSeq(buf, q, n)
      <4> DEFINE l == SubSeq(buf, p, n)
                 t == f[m]
      <4>1. t.left = l /\ l # <<>>
        BY <3>3, <3>4
      <4>2. /\ t.left # <<>> =>
                 /\ Turned(t).st = Ini!Line(t.st, Ini!Fgets(t.left))
                 /\ Turned(t).left = SubSeq(t.left, Len(Ini!Fgets(t.left)) + 1, Len(t.left))
        BY TurnIs
      <4>3. Ini!Fgets(l) = line /\ SubSeq(l, Len(line) + 1, Len(l)) = SubSeq(buf, q, n)
        BY <3>2, <3>4
      <4> HIDE DEF l, t, line, q, n
      <4>4. /\ Turned(t).st = Ini!Line(t.st, line)
            /\ Turned(t).left = SubSeq(buf, q, n)
        BY <4>1, <4>2, <4>3
      <4> QED BY <2>2, <4>4 DEF t
    <3>6. Reached(Ini!Line(f[m].st, line), q)
      BY <3>1, <3>3, StepIs
    <3>7. q \in 1..(n + 1) /\ (q >= m + 1 + 1 \/ q = n + 1)
      <4>1. p >= m + 1
        BY <2>1, <2>4
      <4> QED BY <1>0, <3>1, <3>2, <4>1
    <3> HIDE DEF line, q, n
    <3>9. At(m + 1, q)
      BY <3>5, <3>6, <3>7
    <3> HIDE DEF At
    <3> QED BY <3>7, <3>9
  <2> QED BY <2>3, <2>4
<1>4. n \in S
  <2> HIDE DEF S
  <2> QED BY <1>0, <1>2, <1>3, NatInd
<1>5. PICK p \in 1..(n + 1) : At(n, p)
  <2> HIDE DEF At
  <2> QED BY <1>0, <1>4
<1>6. p = n + 1
  BY <1>0, <1>5
<1>7. Reached(f[n].st, p)
  BY <1>5
<1> QED BY <1>1, <1>6, <1>7

-----------------------------------------------------------------------------
\* The ranks of settings are in the order of the settings.
LEMMA RanksAre ==
  ASSUME File
  PROVE  /\ Settings \in SUBSET (1..Len(buf)) /\ Len(buf) \in Nat
         /\ \A q, r \in Settings : q < r => Rank(q) < Rank(r) /\ Rank(q) \in Nat /\ Rank(r) \in Nat
<1>1. /\ Starts \in SUBSET (1..Len(buf)) /\ Settings \in SUBSET Starts /\ Len(buf) \in Nat
      /\ \A q \in Settings : q \in Nat
  BY StartsAre DEF Settings
<1>2. IsFiniteSet(Settings)
  <2>1. IsFiniteSet(1..Len(buf))
    BY <1>1, FS_Interval
  <2> QED BY <1>1, <2>1, FS_Subset
<1>3. ASSUME NEW q \in Settings, NEW r \in Settings, q < r PROVE Rank(q) < Rank(r) /\ Rank(q) \in Nat /\ Rank(r) \in Nat
  <2>1. UpTo(Settings, q) \in SUBSET UpTo(Settings, r)
    <3>1. \A x \in Settings : x <= q => x <= r
      BY <1>1, <1>3
    <3> QED BY <3>1 DEF UpTo
  <2>2. UpTo(Settings, q) # UpTo(Settings, r)
    <3>1. r \in UpTo(Settings, r) /\ r \notin UpTo(Settings, q)
      BY <1>1, <1>3 DEF UpTo
    <3> QED BY <3>1
  <2>3. UpTo(Settings, r) \in SUBSET Settings
    BY DEF UpTo
  <2>4. IsFiniteSet(UpTo(Settings, r)) /\ IsFiniteSet(UpTo(Settings, q))
    BY <1>2, <2>1, <2>3, FS_Subset
  <2>5. /\ Cardinality(UpTo(Settings, q)) \in Nat /\ Cardinality(UpTo(Settings, r)) \in Nat
        /\ Cardinality(UpTo(Settings, q)) <= Cardinality(UpTo(Settings, r))
        /\ Cardinality(UpTo(Settings, q)) # Cardinality(UpTo(Settings, r))
    BY <2>1, <2>2, <2>4, FS_Subset, FS_CardinalityType
  <2> QED BY <2>5 DEF Rank
<1> QED BY <1>1, <1>3

-----------------------------------------------------------------------------
\* A file is a sequence of characters.
FileInv == kind = "file" => File

LEMMA FileInvariance == Spec => []FileInv
<1>1. Init => FileInv
  BY ParsersAssumption DEF Init, FileInv, File, Char
<1>2. FileInv /\ [Next]_<<kind, buf, size>> => FileInv'
  <2> SUFFICES ASSUME FileInv, [Next]_<<kind, buf, size>> PROVE FileInv'
    OBVIOUS
  <2>1. CASE AddPiece /\ UNCHANGED kind
    <3>1. PICK x \in Pieces : buf' = buf \o x
      BY <2>1 DEF AddPiece
    <3>2. buf \in Seq(STRING) /\ x \in Seq(STRING)
      BY <2>1, ParsersAssumption DEF AddPiece, FileInv, File, Char
    <3>3. buf' \in Seq(STRING)
      BY <3>1, <3>2, ConcatProperties
    <3> QED BY <3>3 DEF FileInv, File, Char
  <2>2. CASE AddByte /\ UNCHANGED kind
    BY <2>2 DEF AddByte, FileInv
  <2>3. CASE UNCHANGED <<kind, buf, size>>
    BY <2>3 DEF FileInv, File
  <2> QED BY <2>1, <2>2, <2>3 DEF Next
<1> QED BY <1>1, <1>2, PTL DEF Spec

\* At the end, everything is before.
LEMMA AtTheEnd ==
  ASSUME File, NEW X \in SUBSET Starts
  PROVE  Below(X, Len(buf) + 1) = X
<1>1. Len(buf) \in Nat /\ \A q \in X : q \in 1..Len(buf)
  BY StartsAre
<1>2. \A q \in X : q < Len(buf) + 1
  BY <1>1
<1> QED BY <1>2 DEF Below

\* The error ini_parse_stream returns for a file of any length, with buffers of any size, is
\* the number of its first bad line (ini.c:131, ini.c:188).
THEOREM ErrorsAreFirstBadLines == Spec => []ErrorIsFirstBadLine
<1>1. FileInv => ErrorIsFirstBadLine
  <2> SUFFICES ASSUME kind = "file", File
               PROVE  Ini!ini_parse_stream(buf).error =
                        IF BadLines = {} THEN 0 ELSE Cardinality({p \in Starts : p <= Min(BadLines)})
    BY DEF FileInv, ErrorIsFirstBadLine, BadLines
  <2>1. Ini!ini_parse_stream(buf).error = FirstBad(Len(buf) + 1)
    BY RunIs DEF Reached
  <2>2. Below(BadLines, Len(buf) + 1) = BadLines
    BY AtTheEnd DEF BadLines
  <2> QED BY <2>1, <2>2 DEF FirstBad, UpTo
<1> QED BY <1>1, FileInvariance, PTL

\* What is called for a file, and what the handler keeps of it.
LEMMA CallsAre ==
  ASSUME File, NEW calls, calls = Ini!ini_parse_stream(buf).calls
  PROVE  /\ Len(calls) = Cardinality(Settings) /\ Len(calls) \in Nat
         /\ \A q \in Settings : Rank(q) \in 1..Len(calls) /\ calls[Rank(q)] = Setting(q)
         /\ \A i \in 1..Len(calls) : \E q \in Settings : Rank(q) = i
<1>1. Settings \in SUBSET Starts
  BY DEF Settings
<1>2. Below(Settings, Len(buf) + 1) = Settings
  BY <1>1, AtTheEnd
<1>3. Ini!ini_parse_stream(buf) \in State
  BY RunIs DEF Reached
<1>4. calls \in Seq(Setter)
  BY <1>3 DEF State
<1>5. Len(calls) \in Nat
  <2> HIDE DEF Setter
  <2> QED BY <1>4, LenProperties
<1> QED BY <1>2, <1>5, RunIs DEF Reached

\* The handler keeps the last setting of a name.
LEMMA LastCounts ==
  ASSUME File, NEW calls, calls = Ini!ini_parse_stream(buf).calls, NEW s, NEW n,
         NEW P, P = {p \in Settings : Setting(p)[1] = s /\ Setting(p)[2] = n}
  PROVE  Ini!handler(calls, s, n, NULL) = IF P = {} THEN NULL ELSE Setting(Max(P))[3]
<1> DEFINE C == {i \in 1..Len(calls) : calls[i][1] = s /\ calls[i][2] = n}
<1>1. /\ Len(calls) \in Nat
      /\ \A q \in Settings : Rank(q) \in 1..Len(calls) /\ calls[Rank(q)] = Setting(q)
      /\ \A i \in 1..Len(calls) : \E q \in Settings : Rank(q) = i
  BY CallsAre
<1>2. /\ Settings \in SUBSET (1..Len(buf)) /\ Len(buf) \in Nat
      /\ \A q, r \in Settings : q < r => Rank(q) < Rank(r) /\ Rank(q) \in Nat /\ Rank(r) \in Nat
  BY RanksAre
<1>3. Ini!handler(calls, s, n, NULL) = IF C = {} THEN NULL ELSE calls[Ini!Max(C)][3]
  BY DEF Ini!handler
<1>4. \A q \in P : q \in Settings /\ Rank(q) \in C
  BY <1>1
<1>5. \A i \in C : \E q \in P : Rank(q) = i
  <2> TAKE i \in C
  <2>1. PICK q \in Settings : Rank(q) = i
    BY <1>1
  <2>2. q \in P
    BY <1>1, <2>1
  <2> QED BY <2>1, <2>2
<1>6. C \in SUBSET (0..Len(calls)) /\ P \in SUBSET (0..Len(buf))
  <2>1. \A i \in C : i \in 0..Len(calls)
    BY <1>1
  <2>2. \A q \in P : q \in 0..Len(buf)
    BY <1>2
  <2> QED BY <2>1, <2>2
<1> HIDE DEF C
<1>7. CASE P = {}
  BY <1>3, <1>5, <1>7
<1>8. CASE P # {}
  <2> DEFINE m == Max(P)
  <2>1. m \in P /\ \A q \in P : q <= m
    BY <1>2, <1>6, <1>8, MaxIs
  <2> HIDE DEF m
  <2>2. m \in Settings /\ Rank(m) \in C
    BY <1>4, <2>1
  <2>3. \A i \in C : i <= Rank(m)
    <3> TAKE i \in C
    <3>1. PICK q \in P : Rank(q) = i
      BY <1>5
    <3>2. q \in Settings /\ m \in Settings /\ q \in Nat /\ m \in Nat /\ q <= m /\ Rank(m) \in Nat
      <4>1. q \in 1..Len(buf) /\ m \in 1..Len(buf) /\ Rank(m) \in 1..Len(calls)
        BY <1>1, <1>2, <1>4, <2>2
      <4> QED BY <1>1, <1>2, <1>4, <2>1, <2>2, <4>1
    <3>3. q = m \/ q < m
      BY <3>2
    <3>4. q < m => Rank(q) < Rank(m) /\ Rank(q) \in Nat
      BY <1>2, <3>2
    <3> QED BY <3>1, <3>2, <3>3, <3>4
  <2>4. Ini!Max(C) = Rank(m)
    BY <1>1, <1>6, <2>2, <2>3, MaxIs
  <2>5. calls[Rank(m)] = Setting(m)
    BY <1>1, <2>2
  <2> QED BY <1>3, <1>8, <2>2, <2>4, <2>5 DEF m
<1> QED BY <1>7, <1>8

\* The calls for a file of any length, with buffers of any size, are its settings in order,
\* and the last one of a name counts (ini.c:97, config.c:9).
THEOREM CallsAreTheSettings == Spec => []SettingsAreTheFile
<1>1. FileInv => SettingsAreTheFile
  <2> DEFINE calls == Ini!ini_parse_stream(buf).calls
             at == [p \in Settings |-> Setting(p)]
  <2> SUFFICES ASSUME kind = "file", File
               PROVE  /\ Len(calls) = Cardinality(Settings)
                      /\ \A p \in Settings : calls[Cardinality({q \in Settings : q <= p})] = at[p]
                      /\ \A s, n \in {<<"a">>, <<"b">>} :
                           LET P == {p \in Settings : at[p][1] = s /\ at[p][2] = n}
                           IN  Ini!handler(calls, s, n, NULL) = IF P = {} THEN NULL ELSE at[Max(P)][3]
    BY DEF FileInv, SettingsAreTheFile
  <2>1. calls = Ini!ini_parse_stream(buf).calls
    OBVIOUS
  <2> HIDE DEF calls
  <2>2. Len(calls) = Cardinality(Settings)
    BY <2>1, CallsAre
  <2>3. \A p \in Settings : calls[Cardinality({q \in Settings : q <= p})] = at[p]
    <3> TAKE p \in Settings
    <3>1. calls[Rank(p)] = Setting(p)
      BY <2>1, CallsAre
    <3> QED BY <3>1 DEF Rank, UpTo
  <2>4. ASSUME NEW s, NEW n
        PROVE  LET P == {p \in Settings : at[p][1] = s /\ at[p][2] = n}
               IN  Ini!handler(calls, s, n, NULL) = IF P = {} THEN NULL ELSE at[Max(P)][3]
    <3> DEFINE P == {p \in Settings : at[p][1] = s /\ at[p][2] = n}
               Q == {p \in Settings : Setting(p)[1] = s /\ Setting(p)[2] = n}
    <3>1. P = Q
      OBVIOUS
    <3>2. Ini!handler(calls, s, n, NULL) = IF Q = {} THEN NULL ELSE Setting(Max(Q))[3]
      BY <2>1, LastCounts
    <3>3. Q # {} => Max(Q) \in Settings
      <4>1. Settings \in SUBSET (1..Len(buf)) /\ Len(buf) \in Nat
        BY RanksAre
      <4>2. Q \in SUBSET (0..Len(buf)) /\ Q \in SUBSET Settings
        <5>1. \A q \in Q : q \in 0..Len(buf)
          BY <4>1
        <5> QED BY <5>1
      <4> HIDE DEF Q
      <4> QED BY <4>1, <4>2, MaxIs
    <3>4. Q # {} => at[Max(Q)] = Setting(Max(Q))
      BY <3>3
    <3> HIDE DEF P, Q, at
    <3>5. Ini!handler(calls, s, n, NULL) = IF P = {} THEN NULL ELSE at[Max(P)][3]
      BY <3>1, <3>2, <3>4
    <3> QED BY <3>5 DEF P
  <2> HIDE DEF at
  <2>5. \A s, n \in {<<"a">>, <<"b">>} :
          LET P == {p \in Settings : at[p][1] = s /\ at[p][2] = n}
          IN  Ini!handler(calls, s, n, NULL) = IF P = {} THEN NULL ELSE at[Max(P)][3]
    <3> TAKE s, n \in {<<"a">>, <<"b">>}
    <3> QED BY <2>4
  <2> QED BY <2>2, <2>3, <2>5, Zenon
<1> QED BY <1>1, FileInvariance, PTL
=============================================================================
