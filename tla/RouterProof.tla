---------------------------- MODULE RouterProof ----------------------------
(***************************************************************************)
(* Theorems about Router for any clients, bytes, buffer length, requests,  *)
(* cuts of the streams, residue in the buffer and memory next to a block.  *)
(*                                                                         *)
(* A buffer is known up to the end of what was read, and nothing is known  *)
(* of the rest, not even that it holds a NUL.  What the parser finds in it *)
(* is stated byte by byte: a read that holds a bar behind its key gives    *)
(* exactly that key, and data that begins with what was read behind the    *)
(* bar; without one the key only begins with what was read.  The rest      *)
(* follows the routes.                                                     *)
(***************************************************************************)
EXTENDS Router, WellFoundedInduction, SequenceTheorems, TLAPS

\* A set of naturals that is not empty has a least member.
LEMMA LeastNat ==
  ASSUME NEW S \in SUBSET Nat, S # {}
  PROVE  \E m \in S : \A k \in S : m <= k
<1> DEFINE R == {ss \in Nat \X Nat : ss[1] < ss[2]}
<1>1. IsWellFoundedOn(R, Nat)
  BY NatLessThanWellFounded DEF OpToRel
<1>2. \E x \in S : \A y \in S : ~(<<y, x>> \in R)
  <2> HIDE DEF R
  <2> QED BY <1>1, WFMin
<1>3. \A x, y \in Nat : ~(<<y, x>> \in R) => x <= y
  OBVIOUS
<1> QED BY <1>2, <1>3

\* The beginning of a sequence, also when it is asked for with a negative length.
LEMMA StartIs ==
  ASSUME NEW S, NEW s \in Seq(S), NEW n \in Int, n <= Len(s)
  PROVE  /\ SubSeq(s, 1, n) \in Seq(S)
         /\ \A i \in 1..n : SubSeq(s, 1, n)[i] = s[i]
         /\ n >= 0 => Len(SubSeq(s, 1, n)) = n
<1>1. CASE n >= 0
  <2>1. 1 \in 1..(Len(s) + 1) /\ n \in (1 - 1)..Len(s)
    BY <1>1
  <2> QED BY <2>1, <1>1, SubSeqProperties
<1>2. CASE n < 0
  <2>1. SubSeq(s, 1, n) = <<>>
    BY <1>2
  <2> QED BY <2>1, <1>2
<1> QED BY <1>1, <1>2

\* Two sequences with the same bytes.
LEMMA SameBytes ==
  ASSUME NEW S, NEW s \in Seq(S), NEW T, NEW t \in Seq(T), Len(s) = Len(t), \A i \in 1..Len(s) : s[i] = t[i]
  PROVE  s = t
BY SeqEqual

\* One sequence begins with another.
LEMMA StartsWith ==
  ASSUME NEW S, NEW s \in Seq(S), NEW T, NEW t \in Seq(T), Len(s) <= Len(t), \A i \in 1..Len(s) : t[i] = s[i]
  PROVE  IsStart(s, t)
<1>1. /\ SubSeq(t, 1, Len(s)) \in Seq(T) /\ Len(SubSeq(t, 1, Len(s))) = Len(s)
      /\ \A i \in 1..Len(s) : SubSeq(t, 1, Len(s))[i] = s[i]
  BY StartIs
<1>2. SubSeq(t, 1, Len(s)) = s
  BY <1>1, SameBytes
<1> QED BY <1>2 DEF IsStart

\* A part of a sequence, which is empty when it ends before it begins.
LEMMA PartIs ==
  ASSUME NEW S, NEW s \in Seq(S), NEW from \in Nat \ {0}, NEW to \in Int, to <= Len(s)
  PROVE  /\ SubSeq(s, from, to) \in Seq(S)
         /\ Len(SubSeq(s, from, to)) = IF to >= from THEN to - from + 1 ELSE 0
         /\ \A i \in 1..Len(SubSeq(s, from, to)) : SubSeq(s, from, to)[i] = s[from + i - 1]
<1>1. CASE to >= from
  <2>1. from \in 1..(Len(s) + 1) /\ to \in (from - 1)..Len(s)
    BY <1>1
  <2> QED BY <2>1, <1>1, SubSeqProperties
<1>2. CASE to < from
  <2>1. SubSeq(s, from, to) = <<>>
    BY <1>2
  <2> QED BY <2>1, <1>2
<1> QED BY <1>1, <1>2

\* What it means to begin with a sequence.
LEMMA StartHas ==
  ASSUME NEW S, NEW s \in Seq(S), NEW T, NEW t \in Seq(T), IsStart(s, t)
  PROVE  Len(s) <= Len(t) /\ \A i \in 1..Len(s) : t[i] = s[i]
<1>1. Len(s) \in Nat /\ Len(s) <= Len(t) /\ SubSeq(t, 1, Len(s)) = s
  BY LenProperties DEF IsStart
<1>2. \A i \in 1..Len(s) : SubSeq(t, 1, Len(s))[i] = t[i]
  BY <1>1, StartIs
<1> QED BY <1>1, <1>2

-----------------------------------------------------------------------------
\* The length of a C string: the bytes before the first NUL of its block.
LEMMA StrlenIs ==
  ASSUME NEW b \in Seq(Bytes)
  PROVE  /\ strlen(b) \in 0..Len(b)
         /\ \A i \in 1..strlen(b) : b[i] # NUL
         /\ \A n \in 0..Len(b) : (\A i \in 1..n : b[i] # NUL) => strlen(b) >= n
<1> DEFINE N == {i \in 0..(Len(b) - 1) : b[i + 1] = NUL}
<1>1. CASE N = {}
  <2>1. strlen(b) = Len(b)
    BY <1>1 DEF strlen
  <2>2. \A i \in 1..Len(b) : b[i] # NUL
    <3> TAKE i \in 1..Len(b)
    <3>1. i - 1 \in 0..(Len(b) - 1) /\ (i - 1) + 1 = i
      OBVIOUS
    <3> QED BY <3>1, <1>1
  <2> QED BY <2>1, <2>2
<1>2. CASE N # {}
  <2>1. \E i \in N : \A j \in N : i <= j
    <3>1. N \in SUBSET Nat
      OBVIOUS
    <3> HIDE DEF N
    <3> QED BY <3>1, <1>2, LeastNat
  <2>2. strlen(b) = First(N)
    BY <1>2 DEF strlen
  <2>3. strlen(b) \in N /\ \A j \in N : strlen(b) <= j
    <3> HIDE DEF N
    <3> QED BY <2>1, <2>2 DEF First
  <2> DEFINE l == strlen(b)
  <2>4. l \in 0..(Len(b) - 1) /\ b[l + 1] = NUL
    BY <2>3
  <2>5. \A i \in 1..l : b[i] # NUL
    <3> SUFFICES ASSUME NEW i \in 1..l, b[i] = NUL PROVE FALSE
      OBVIOUS
    <3>1. i - 1 \in N /\ i - 1 < l
      BY <2>4
    <3> QED BY <3>1, <2>3, <2>4
  <2> HIDE DEF l
  <2>6. \A n \in 0..Len(b) : (\A i \in 1..n : b[i] # NUL) => l >= n
    BY <2>4
  <2> QED BY <2>4, <2>5, <2>6 DEF l
<1> QED BY <1>1, <1>2

\* The string itself.
LEMMA CStrIs ==
  ASSUME NEW b \in Seq(Bytes)
  PROVE  /\ CStr(b) \in Seq(Bytes) /\ Len(CStr(b)) = strlen(b)
         /\ \A i \in 1..strlen(b) : CStr(b)[i] = b[i]
BY StrlenIs, StartIs DEF CStr

\* A copy of n bytes.
LEMMA CopyIs ==
  ASSUME NEW b \in Seq(Bytes), NEW from \in Nat, NEW n \in Nat
  PROVE  /\ CopyOut(b, from, n) \in Seq(Bytes) /\ Len(CopyOut(b, from, n)) = n
         /\ \A i \in 1..n : from + i <= strlen(b) => CopyOut(b, from, n)[i] = b[from + i]
<1> DEFINE c == CopyOut(b, from, n)
<1>1. c = [i \in 1..n |-> IF from + i <= strlen(b) THEN b[from + i] ELSE NUL]
  BY DEF CopyOut
<1>2. strlen(b) \in 0..Len(b) /\ NUL \in Bytes
  BY StrlenIs, RouterAssumption
<1> HIDE DEF c
<1>3. \A i \in 1..n : c[i] \in Bytes
  BY <1>1, <1>2
<1>4. c \in [1..n -> Bytes]
  BY <1>1, <1>3
<1>5. c \in Seq(Bytes) /\ Len(c) = n
  BY <1>4
<1>6. \A i \in 1..n : from + i <= strlen(b) => c[i] = b[from + i]
  BY <1>1
<1> QED BY <1>5, <1>6 DEF c

\* A slice that counts from the start: NULL, or a block with at least one byte.
LEMMA SliceIs ==
  ASSUME NEW b \in Seq(Bytes), NEW from \in Nat, NEW to \in Nat
  PROVE  str_slice(b, from, to) =
           IF to > from /\ from < strlen(b) THEN CopyOut(b, from, to - from) ELSE NULL
<1>1. strlen(b) \in Nat
  BY StrlenIs
<1> QED BY <1>1 DEF str_slice

-----------------------------------------------------------------------------
\* What is read, byte by byte.

\* A request has no NUL.
LEMMA EncodeIs ==
  ASSUME NEW r \in Requests
  PROVE  Encode(r) \in Reads
<1> DEFINE S == Bytes \ {NUL}
           set == <<"1", BAR>> \o r.key \o <<BAR>> \o r.val \o r.end
           get == <<"2", BAR>> \o r.key \o r.end
           delete == <<"3", BAR>> \o r.key \o r.end
<1>1. /\ r \in [cmd : {CMD_SET, CMD_GET, CMD_DELETE}, key : Seq(Bytes \ {NUL, BAR}),
                val : Seq(Bytes \ {NUL}), end : {<<>>, <<BAR>>}]
  BY RouterAssumption
<1>2. {BAR, "1", "2", "3"} \subseteq S
  BY RouterAssumption DEF NUL, BAR
<1>3. r.key \in Seq(S) /\ r.val \in Seq(S)
  BY <1>1
<1>4. r.end \in Seq(S)
  <2>1. <<>> \in Seq(S) /\ <<BAR>> \in Seq(S)
    BY <1>2
  <2> QED BY <2>1, <1>1
<1>5. /\ <<BAR>> \in Seq(S) /\ <<"1", BAR>> \in Seq(S)
      /\ <<"2", BAR>> \in Seq(S) /\ <<"3", BAR>> \in Seq(S)
  BY <1>2
<1>6. set \in Seq(S) /\ get \in Seq(S) /\ delete \in Seq(S)
  <2> DEFINE k == r.key  v == r.val  e == r.end
  <2> HIDE DEF S
  <2>1. <<"1", BAR>> \o k \in Seq(S) /\ <<"2", BAR>> \o k \in Seq(S) /\ <<"3", BAR>> \o k \in Seq(S)
    BY <1>3, <1>5, ConcatProperties
  <2>2. <<"1", BAR>> \o k \o <<BAR>> \in Seq(S)
    BY <2>1, <1>5, ConcatProperties
  <2>3. <<"1", BAR>> \o k \o <<BAR>> \o v \in Seq(S)
    BY <2>2, <1>3, ConcatProperties
  <2> QED BY <2>1, <2>3, <1>4, ConcatProperties
<1>7. Encode(r) = CASE r.cmd = CMD_SET -> set [] r.cmd = CMD_GET -> get [] r.cmd = CMD_DELETE -> delete
  BY Zenon DEF Encode
<1> HIDE DEF set, get, delete
<1>8. Encode(r) \in {set, get, delete}
  BY <1>1, <1>7 DEF CMD_SET, CMD_GET, CMD_DELETE
<1> QED BY <1>6, <1>8 DEF Reads

\* Its bytes are bytes of the buffer, none of them a NUL.
LEMMA ReadHas ==
  ASSUME NEW m \in Reads
  PROVE  m \in Seq(Bytes) /\ \A i \in 1..Len(m) : m[i] # NUL
<1>1. m \in Seq(Bytes \ {NUL})
  BY DEF Reads
<1>2. \A i \in 1..Len(m) : m[i] \in Bytes \ {NUL}
  BY <1>1
<1> QED BY <1>1, <1>2

\* The first bar behind the second byte.
LEMMA BarIs ==
  ASSUME NEW m \in Reads, Closed(m)
  PROVE  LET p == First(ClosingBars(m)) IN
         /\ p \in 3..Len(m) /\ m[p] = BAR
         /\ \A i \in 3..(p - 1) : m[i] # BAR
<1> DEFINE B == ClosingBars(m)
           p == First(B)
<1>1. B \in SUBSET Nat /\ B # {} /\ B \subseteq 3..Len(m)
  BY DEF ClosingBars, Closed
<1>2. p \in B /\ \A i \in B : p <= i
  <2> HIDE DEF B
  <2>1. \E i \in B : \A j \in B : i <= j
    BY <1>1, LeastNat
  <2> QED BY <2>1 DEF First
<1>3. p \in 3..Len(m) /\ m[p] = BAR
  BY <1>1, <1>2 DEF ClosingBars
<1>4. \A i \in 3..(p - 1) : m[i] # BAR
  <2> SUFFICES ASSUME NEW i \in 3..(p - 1), m[i] = BAR PROVE FALSE
    OBVIOUS
  <2> HIDE DEF p
  <2>1. i \in B /\ i < p
    BY <1>3, LenProperties DEF ClosingBars, Reads
  <2> QED BY <2>1, <1>2, <1>3
<1> QED BY <1>3, <1>4

\* The key that was read, from the third byte to the bar or to the end of the read.
LEMMA KeyReadIs ==
  ASSUME NEW m \in Reads
  PROVE  /\ KeyRead(m) \in Reads
         /\ \A i \in 1..Len(KeyRead(m)) : KeyRead(m)[i] = m[i + 2]
         /\ Closed(m) => Len(KeyRead(m)) = First(ClosingBars(m)) - 3
         /\ ~Closed(m) => Len(KeyRead(m)) = IF Len(m) >= 3 THEN Len(m) - 2 ELSE 0
<1>1. m \in Seq(Bytes \ {NUL}) /\ Len(m) \in Nat
  BY LenProperties DEF Reads
<1>2. ASSUME NEW to \in Int, to <= Len(m)
      PROVE  /\ SubSeq(m, 3, to) \in Reads
             /\ \A i \in 1..Len(SubSeq(m, 3, to)) : SubSeq(m, 3, to)[i] = m[i + 2]
             /\ Len(SubSeq(m, 3, to)) = IF to >= 3 THEN to - 2 ELSE 0
  <2>1. /\ SubSeq(m, 3, to) \in Seq(Bytes \ {NUL})
        /\ Len(SubSeq(m, 3, to)) = IF to >= 3 THEN to - 3 + 1 ELSE 0
        /\ \A i \in 1..Len(SubSeq(m, 3, to)) : SubSeq(m, 3, to)[i] = m[3 + i - 1]
    BY <1>1, <1>2, PartIs
  <2> DEFINE q == SubSeq(m, 3, to)
  <2> HIDE DEF q
  <2>2. Len(q) \in Nat /\ \A i \in 1..Len(q) : 3 + i - 1 = i + 2
    BY <2>1, LenProperties DEF q
  <2>3. \A i \in 1..Len(q) : q[i] = m[i + 2]
    BY <2>1, <2>2 DEF q
  <2> QED BY <2>1, <2>3 DEF q, Reads
<1>3. CASE Closed(m)
  <2> DEFINE p == First(ClosingBars(m))
  <2>1. p \in 3..Len(m)
    BY <1>3, BarIs
  <2>2. KeyRead(m) = SubSeq(m, 3, p - 1)
    BY <1>3 DEF KeyRead
  <2> HIDE DEF p
  <2>3. p - 1 \in Int /\ p - 1 <= Len(m) /\ (IF p - 1 >= 3 THEN (p - 1) - 2 ELSE 0) = p - 3
    BY <2>1, <1>1
  <2> QED BY <2>2, <2>3, <1>2, <1>3 DEF p
<1>4. CASE ~Closed(m)
  BY <1>1, <1>2, <1>4 DEF KeyRead
<1> QED BY <1>3, <1>4

\* What was read behind the bar, less the last byte of a full buffer.
LEMMA RestReadIs ==
  ASSUME NEW m \in Reads, Len(m) <= BufLen, Closed(m)
  PROVE  LET p == First(ClosingBars(m)) IN
         /\ RestRead(m) \in Reads
         /\ \A i \in 1..Len(RestRead(m)) : RestRead(m)[i] = m[p + i]
         /\ Len(RestRead(m)) > 0 => p + Len(RestRead(m)) <= BufLen - 1
         /\ p + Len(RestRead(m)) <= Len(m)
<1> DEFINE p == First(ClosingBars(m))
           to == IF Len(m) < BufLen THEN Len(m) ELSE BufLen - 1
           q == RestRead(m)
<1>1. m \in Seq(Bytes \ {NUL}) /\ Len(m) \in Nat /\ BufLen \in Nat \ {0} /\ p \in 3..Len(m)
  BY LenProperties, BarIs, RouterAssumption DEF Reads
<1>2. q = SubSeq(m, p + 1, to)
  BY DEF RestRead
<1> HIDE DEF p, q
<1>3. to \in Int /\ to <= Len(m) /\ to <= BufLen - 1 /\ p + 1 \in Nat \ {0}
  BY <1>1
<1> HIDE DEF to
<1>4. /\ q \in Seq(Bytes \ {NUL})
      /\ Len(q) = IF to >= p + 1 THEN to - (p + 1) + 1 ELSE 0
      /\ \A i \in 1..Len(q) : q[i] = m[(p + 1) + i - 1]
  BY <1>1, <1>2, <1>3, PartIs
<1>5. \A i \in 1..Len(q) : (p + 1) + i - 1 = p + i
  BY <1>1, <1>4, LenProperties
<1>6. \A i \in 1..Len(q) : q[i] = m[p + i]
  BY <1>4, <1>5
<1>7. /\ Len(q) > 0 => p + Len(q) <= BufLen - 1
      /\ p + Len(q) <= Len(m)
  BY <1>1, <1>3, <1>4
<1> QED BY <1>4, <1>6, <1>7 DEF p, q, Reads

-----------------------------------------------------------------------------
\* A read buffer: what was read, then anything.
LEMMA BufferIs ==
  ASSUME block \in Seq(Bytes), Len(block) = BufLen,
         NEW m \in Seq(Bytes), Len(m) <= BufLen, NEW b \in Buffers(m)
  PROVE  /\ b \in Seq(Bytes) /\ Len(b) = BufLen
         /\ \A i \in 1..Len(m) : b[i] = m[i]
<1> DEFINE n == BufLen - Len(m)
<1>1. BufLen \in Nat \ {0} /\ NUL \in Bytes /\ n \in Nat /\ Len(m) \in Nat
  BY RouterAssumption
<1>2. PICK t \in {Zeros(n), Rest(block, Len(m))}
                 \cup {j \o Zeros(n - Len(j)) : j \in {x \in Junk : Len(x) <= n}} :
        b = m \o t
  BY DEF Buffers
<1>3. \A l \in Nat : Zeros(l) \in Seq(Bytes) /\ Len(Zeros(l)) = l
  <2> TAKE l \in Nat
  <2>1. Zeros(l) \in [1..l -> Bytes]
    BY <1>1 DEF Zeros
  <2> QED BY <2>1
<1>4. t \in Seq(Bytes) /\ Len(t) = n
  <2>1. CASE t = Zeros(n)
    BY <2>1, <1>1, <1>3
  <2>2. CASE t = Rest(block, Len(m))
    <3> DEFINE from == Len(m) + 1
    <3>1. from \in Nat \ {0} /\ BufLen \in Int /\ BufLen <= Len(block)
      BY <1>1
    <3>2. t = SubSeq(block, from, BufLen)
      BY <2>2 DEF Rest
    <3>3. t \in Seq(Bytes) /\ Len(t) = IF BufLen >= from THEN BufLen - from + 1 ELSE 0
      <4> HIDE DEF from
      <4> QED BY <3>1, <3>2, PartIs
    <3> QED BY <3>3, <1>1
  <2>3. CASE \E j \in Junk : Len(j) <= n /\ t = j \o Zeros(n - Len(j))
    <3>1. PICK j \in Junk : Len(j) <= n /\ t = j \o Zeros(n - Len(j))
      BY <2>3
    <3> DEFINE l == n - Len(j)
    <3>2. j \in Seq(Bytes) /\ Len(j) \in Nat
      BY RouterAssumption, LenProperties
    <3>3. l \in Nat /\ Len(j) + l = n
      BY <1>1, <3>1, <3>2
    <3>4. Zeros(l) \in Seq(Bytes) /\ Len(Zeros(l)) = l
      BY <1>3, <3>3
    <3>5. t = j \o Zeros(l)
      BY <3>1
    <3> DEFINE z == Zeros(l)
    <3> HIDE DEF z
    <3>6. z \in Seq(Bytes) /\ Len(z) = l
      BY <3>4 DEF z
    <3>7. j \o z \in Seq(Bytes) /\ Len(j \o z) = Len(j) + Len(z)
      <4> HIDE DEF l
      <4> QED BY ONLY <3>2, <3>6, ConcatProperties
    <3>8. t = j \o z
      BY <3>5 DEF z
    <3> QED BY <3>3, <3>6, <3>7, <3>8
  <2> QED BY <1>2, <2>1, <2>2, <2>3
<1>5. b \in Seq(Bytes) /\ Len(b) = Len(m) + n /\ \A i \in 1..Len(m) : b[i] = m[i]
  BY <1>1, <1>2, <1>4
<1> QED BY <1>1, <1>5

\* Where the scan for the key's end stops.
LEMMA EndIs ==
  ASSUME NEW b \in Seq(Bytes), Len(b) >= 3
  PROVE  /\ get_end_of_key(b) \in 2..Len(b)
         /\ \A e \in 2..(Len(b) - 1) :
              (b[e + 1] = BAR /\ \A i \in 2..(e - 1) : b[i + 1] # BAR) => get_end_of_key(b) = e
         /\ \A e \in 2..Len(b) :
              (\A i \in 2..(e - 1) : b[i + 1] # BAR) => get_end_of_key(b) >= e
<1>1. get_end_of_key(b) = IF KeyBars(b) = {} THEN Len(b) ELSE First(KeyBars(b))
  BY DEF get_end_of_key, check_msg_valid
<1>2. KeyBars(b) \in SUBSET Nat /\ KeyBars(b) \subseteq 2..(Len(b) - 1)
  BY DEF KeyBars
<1>3. KeyBars(b) # {} => First(KeyBars(b)) \in KeyBars(b) /\ \A i \in KeyBars(b) : First(KeyBars(b)) <= i
  <2>1. KeyBars(b) # {} => \E i \in KeyBars(b) : \A j \in KeyBars(b) : i <= j
    BY <1>2, LeastNat
  <2> QED BY <2>1 DEF First
<1>4. get_end_of_key(b) \in 2..Len(b)
  BY <1>1, <1>2, <1>3
<1>5. ASSUME NEW e \in 2..(Len(b) - 1), b[e + 1] = BAR, \A i \in 2..(e - 1) : b[i + 1] # BAR
      PROVE  get_end_of_key(b) = e
  <2>1. e \in KeyBars(b) /\ \A i \in KeyBars(b) : i >= e
    BY <1>5 DEF KeyBars
  <2> DEFINE f == First(KeyBars(b))
  <2>2. f \in KeyBars(b) /\ f <= e /\ f >= e /\ f \in Nat /\ get_end_of_key(b) = f
    BY <2>1, <1>1, <1>2, <1>3
  <2> QED BY <2>2
<1>6. ASSUME NEW e \in 2..Len(b), \A i \in 2..(e - 1) : b[i + 1] # BAR
      PROVE  get_end_of_key(b) >= e
  <2>1. \A i \in KeyBars(b) : i >= e
    BY <1>6, <1>2 DEF KeyBars
  <2> DEFINE f == First(KeyBars(b))
  <2>2. KeyBars(b) # {} => f \in Nat /\ f >= e
    BY <2>1, <1>2, <1>3
  <2> QED BY <2>2, <1>1
<1> QED BY <1>4, <1>5, <1>6

\* Whatever the buffer holds, the parts of it are NULL or blocks.
LEMMA PartsAre ==
  ASSUME NEW b \in Seq(Bytes), Len(b) >= 3
  PROVE  /\ parse_client_msg_key(b) \in Seq(Bytes) \cup {NULL}
         /\ parse_client_msg_data(b) \in Seq(Bytes) \cup {NULL}
<1> DEFINE e == get_end_of_key(b)
<1>1. e \in 2..Len(b) /\ Len(b) \in Nat
  BY EndIs
<1> HIDE DEF e
<1>2. \A from, to \in Nat : str_slice(b, from, to) \in Seq(Bytes) \cup {NULL}
  <2> TAKE from, to \in Nat
  <2>1. CASE to > from
    <3>1. CopyOut(b, from, to - from) \in Seq(Bytes)
      <4>1. to - from \in Nat
        BY <2>1
      <4> QED BY <4>1, CopyIs
    <3> QED BY <3>1, SliceIs
  <2>2. CASE ~(to > from)
    BY <2>2, SliceIs
  <2> QED BY <2>1, <2>2
<1>3. parse_client_msg_key(b) = str_slice(b, 2, e)
  BY DEF parse_client_msg_key, check_msg_valid, e
<1>4. parse_client_msg_data(b) \in {NULL, str_slice(b, e + 1, Len(b) - 1)}
  BY DEF parse_client_msg_data, e
<1>5. 2 \in Nat /\ e \in Nat /\ e + 1 \in Nat /\ Len(b) - 1 \in Nat
  BY <1>1
<1> QED BY <1>2, <1>3, <1>4, <1>5

\* The task made of a read: its command, a key that begins with the one that was read
\* and is that key where a bar ends it, and data that begins with what is behind the bar.
LEMMA TaskIs ==
  ASSUME NEW m \in Reads, m # <<>>, Len(m) <= BufLen, NEW b \in Seq(Bytes), Len(b) = BufLen,
         \A i \in 1..Len(m) : b[i] = m[i]
  PROVE  LET task == parse_client_msg(b) IN
         /\ task.cmd = (CASE m[1] = "1" -> CMD_SET [] m[1] = "2" -> CMD_GET
                          [] m[1] = "3" -> CMD_DELETE [] OTHER -> 0)
         /\ task.key \in Seq(Bytes) \cup {NULL} /\ task.data \in Seq(Bytes) \cup {NULL}
         /\ task.key # NULL => IsStart(KeyRead(m), task.key)
         /\ Closed(m) /\ task.key # NULL => task.key = KeyRead(m)
         /\ Closed(m) /\ task.data # NULL => IsStart(RestRead(m), task.data)
         /\ Closed(m) /\ RestRead(m) # <<>> => task.data # NULL
<1> DEFINE key == parse_client_msg_key(b)
           data == parse_client_msg_data(b)
           e == get_end_of_key(b)
           k == KeyRead(m)
           p == First(ClosingBars(m))
<1>1. /\ m \in Seq(Bytes) /\ \A i \in 1..Len(m) : m[i] # NUL
      /\ BufLen \in Nat \ {0} /\ NULL \notin Seq(Bytes)
  BY ReadHas, RouterAssumption
<1>2. Len(m) \in Nat \ {0}
  BY <1>1, EmptySeq
<1>3. strlen(b) \in 0..BufLen /\ strlen(b) >= Len(m)
  <2>1. Len(m) \in 0..Len(b) /\ \A i \in 1..Len(m) : b[i] # NUL
    BY <1>1, <1>2
  <2> QED BY <2>1, StrlenIs
<1>4. parse_client_msg_cmd(b) = (CASE m[1] = "1" -> CMD_SET [] m[1] = "2" -> CMD_GET
                                   [] m[1] = "3" -> CMD_DELETE [] OTHER -> 0)
  <2>1. b[1] = m[1] /\ Len(b) # 0
    BY <1>1, <1>2
  <2> QED BY <2>1 DEF parse_client_msg_cmd
<1>5. key \in Seq(Bytes) \cup {NULL} /\ data \in Seq(Bytes) \cup {NULL}
  <2>1. CASE Len(b) >= 3
    BY <2>1, PartsAre
  <2>2. CASE ~(Len(b) >= 3)
    BY <2>2 DEF parse_client_msg_key, parse_client_msg_data, check_msg_valid
  <2> QED BY <2>1, <2>2
<1>6. /\ k \in Reads /\ k \in Seq(Bytes) /\ Len(k) \in Nat /\ \A i \in 1..Len(k) : k[i] = m[i + 2]
      /\ Closed(m) => Len(k) = p - 3 /\ p \in 3..Len(m)
      /\ ~Closed(m) => Len(k) = IF Len(m) >= 3 THEN Len(m) - 2 ELSE 0
  BY KeyReadIs, ReadHas, BarIs, LenProperties
<1> HIDE DEF key, data, e, k, p
<1>7. ASSUME key # NULL
      PROVE  /\ Len(b) >= 3 /\ e \in 3..Len(b) /\ key \in Seq(Bytes) /\ Len(key) = e - 2
             /\ \A i \in 1..Len(key) : i + 2 <= strlen(b) => key[i] = b[i + 2]
  <2>1. Len(b) >= 3 /\ key = str_slice(b, 2, e)
    BY <1>7 DEF key, e, parse_client_msg_key, check_msg_valid
  <2>2. e \in 2..Len(b) /\ Len(b) \in Nat
    BY <2>1, EndIs DEF e
  <2>3. key = IF e > 2 /\ 2 < strlen(b) THEN CopyOut(b, 2, e - 2) ELSE NULL
    BY <2>1, <2>2, SliceIs
  <2>4. e > 2 /\ key = CopyOut(b, 2, e - 2) /\ e - 2 \in Nat /\ 2 \in Nat
    BY <2>2, <2>3, <1>7
  <2>5. /\ key \in Seq(Bytes) /\ Len(key) = e - 2
        /\ \A i \in 1..(e - 2) : 2 + i <= strlen(b) => key[i] = b[2 + i]
    BY <2>4, CopyIs
  <2>6. \A i \in 1..(e - 2) : 2 + i = i + 2
    OBVIOUS
  <2> QED BY <2>1, <2>2, <2>4, <2>5, <2>6
<1>8. ASSUME Closed(m) PROVE e = p - 1 /\ Len(b) >= 3
  <2>1. p \in 3..Len(m) /\ m[p] = BAR /\ \A i \in 3..(p - 1) : m[i] # BAR
    BY <1>8, BarIs DEF p
  <2>2. Len(b) >= 3 /\ p - 1 \in 2..(Len(b) - 1) /\ (p - 1) + 1 = p
    BY <2>1, <1>2
  <2>3. b[p] = BAR
    BY <2>1, <1>2
  <2>4. \A i \in 2..((p - 1) - 1) : b[i + 1] # BAR
    <3> TAKE i \in 2..((p - 1) - 1)
    <3>1. i + 1 \in 3..(p - 1) /\ i + 1 \in 1..Len(m)
      BY <2>1, <1>2
    <3> QED BY <3>1, <2>1
  <2> QED BY <2>2, <2>3, <2>4, EndIs DEF e
<1>9. ASSUME ~Closed(m), Len(m) >= 3, Len(b) >= 3 PROVE e >= Len(m)
  <2>1. \A i \in 2..(Len(m) - 1) : b[i + 1] # BAR
    <3> TAKE i \in 2..(Len(m) - 1)
    <3>1. i + 1 \in 3..Len(m) /\ i + 1 \in 1..Len(m)
      BY <1>2
    <3> QED BY <3>1, <1>9 DEF Closed, ClosingBars
  <2>2. Len(m) \in 2..Len(b)
    BY <1>2, <1>9
  <2> QED BY <2>1, <2>2, <1>9, EndIs DEF e
<1>10. ASSUME key # NULL PROVE IsStart(k, key) /\ (Closed(m) => key = k)
  <2>1. Len(k) <= Len(key) /\ (Closed(m) => Len(k) = Len(key))
    <3>1. Len(b) >= 3 /\ e \in 3..Len(b) /\ Len(key) = e - 2
      BY <1>7, <1>10
    <3>2. CASE Closed(m)
      <4>1. e = p - 1 /\ Len(k) = p - 3 /\ p \in Nat
        BY <1>6, <1>8, <3>2
      <4> QED BY <3>1, <4>1
    <3>3. CASE ~Closed(m)
      <4>1. Len(k) = IF Len(m) >= 3 THEN Len(m) - 2 ELSE 0
        BY <1>6, <3>3
      <4>2. Len(m) >= 3 => e >= Len(m)
        BY <1>9, <3>1, <3>3
      <4> QED BY <3>1, <3>3, <4>1, <4>2, <1>2
    <3> QED BY <3>2, <3>3
  <2>2. \A i \in 1..Len(k) : key[i] = k[i]
    <3> TAKE i \in 1..Len(k)
    <3>1. i \in 1..Len(key) /\ i + 2 <= Len(m)
      <4>1. Len(k) \in Nat /\ Len(key) \in Nat /\ i \in Nat /\ 1 <= i /\ i <= Len(k)
        BY <1>6, <1>7, <1>10, LenProperties
      <4>2. Len(k) + 2 <= Len(m)
        <5>1. CASE Closed(m)
          BY <5>1, <1>2, <1>6
        <5>2. CASE ~Closed(m)
          <6>1. Len(k) = IF Len(m) >= 3 THEN Len(m) - 2 ELSE 0
            BY <5>2, <1>6
          <6> QED BY <4>1, <6>1, <1>2
        <5> QED BY <5>1, <5>2
      <4> QED BY <4>1, <4>2, <2>1, <1>2
    <3>2. i + 2 \in 1..Len(m) /\ i + 2 <= strlen(b)
      BY <3>1, <1>2, <1>3
    <3>3. key[i] = b[i + 2] /\ b[i + 2] = m[i + 2] /\ k[i] = m[i + 2]
      BY <3>1, <3>2, <1>6, <1>7, <1>10
    <3> QED BY <3>3
  <2>3. IsStart(k, key)
    BY <2>1, <2>2, <1>6, <1>7, <1>10, StartsWith
  <2>4. Closed(m) => key = k
    BY <2>1, <2>2, <1>6, <1>7, <1>10, SameBytes
  <2> QED BY <2>3, <2>4
<1>11. ASSUME Closed(m)
       PROVE  /\ data # NULL => IsStart(RestRead(m), data)
              /\ RestRead(m) # <<>> => data # NULL
  <2> DEFINE q == RestRead(m)
             to == BufLen - 1
             n == to - p
  <2>1. /\ q \in Reads /\ q \in Seq(Bytes) /\ Len(q) \in Nat
        /\ \A i \in 1..Len(q) : q[i] = m[p + i]
        /\ Len(q) > 0 => p + Len(q) <= BufLen - 1
        /\ p + Len(q) <= Len(m)
    BY <1>11, RestReadIs, ReadHas, LenProperties DEF p
  <2>2. p \in 3..Len(m) /\ e = p - 1 /\ Len(b) >= 3
    BY <1>6, <1>8, <1>11
  <2> HIDE DEF q
  <2>3. data = str_slice(b, p, to)
    <3>1. Len(b) - e >= 1 /\ e + 1 = p /\ Len(b) - 1 = to
      BY <2>2, <1>1, <1>2
    <3> HIDE DEF to
    <3> QED BY <2>2, <3>1 DEF data, e, parse_client_msg_data, check_msg_valid
  <2>4. data = IF to > p /\ p < strlen(b) THEN CopyOut(b, p, n) ELSE NULL
    <3>1. p \in Nat /\ to \in Nat
      BY <2>2, <1>1
    <3> HIDE DEF to
    <3> QED BY <2>3, <3>1, SliceIs
  <2>5. ASSUME q # <<>> PROVE data # NULL
    <3>1. Len(q) > 0
      BY <2>1, <2>5, EmptySeq
    <3>2. to > p /\ p < strlen(b) /\ n \in Nat /\ p \in Nat
      BY <3>1, <2>1, <2>2, <1>1, <1>2, <1>3
    <3>3. CopyOut(b, p, n) \in Seq(Bytes)
      <4> HIDE DEF n
      <4> QED BY <3>2, CopyIs
    <3> QED BY <2>4, <3>2, <3>3, <1>1
  <2>6. ASSUME data # NULL PROVE IsStart(q, data)
    <3>1. to > p /\ n \in Nat /\ p \in Nat /\ data = CopyOut(b, p, n)
      BY <2>2, <2>4, <2>6, <1>1, <1>2
    <3>2. /\ data \in Seq(Bytes) /\ Len(data) = n
          /\ \A i \in 1..n : p + i <= strlen(b) => data[i] = b[p + i]
      <4> HIDE DEF n
      <4> QED BY <3>1, CopyIs
    <3>3. Len(q) <= n
      BY <3>1, <2>1, <1>1
    <3>4. \A i \in 1..Len(q) : data[i] = q[i]
      <4> TAKE i \in 1..Len(q)
      <4>1. i \in 1..n /\ p + i <= strlen(b) /\ p + i \in 1..Len(m)
        BY <3>1, <3>3, <2>1, <2>2, <1>2, <1>3
      <4> QED BY <4>1, <3>2, <2>1
    <3> QED BY <3>2, <3>3, <3>4, <2>1, StartsWith
  <2> QED BY <2>5, <2>6 DEF q
<1>12. /\ parse_client_msg(b).cmd = parse_client_msg_cmd(b)
       /\ parse_client_msg(b).key = key /\ parse_client_msg(b).data = data
  BY DEF parse_client_msg, key, data
<1> QED BY <1>4, <1>5, <1>10, <1>11, <1>12 DEF k


-----------------------------------------------------------------------------
\* What the routes do to the table.

\* Rows are made by route_set: a text and a blob.
Row(s, v) == [idx |-> Text(s), data |-> Blob(v)]
IsRow(x) == \E s, v \in Seq(Bytes) : x = Row(s, v)

\* The string read from a slice's block begins with what is known of the slice, and is
\* the slice when it has no NUL and its block has room for the terminator.
LEMMA SliceStringIs ==
  ASSUME NEW k \in Seq(Bytes), NEW s \in SliceStrings(k)
  PROVE  /\ s \in Seq(Bytes)
         /\ \A q \in Reads : IsStart(q, k) => IsStart(q, s)
         /\ ((\A i \in 1..Len(k) : k[i] # NUL) /\ Terminated(k)) => s = k
<1>1. CStr(k) \in Seq(Bytes) /\ Len(CStr(k)) = strlen(k) /\ strlen(k) \in 0..Len(k) /\ Len(k) \in Nat
  BY CStrIs, StrlenIs, LenProperties
<1>2. \A j \in Junk : j \in Seq(Bytes)
  BY RouterAssumption
<1>3. s = CStr(k) \/ \E j \in Junk : ~Terminated(k) /\ s = k \o j
  BY DEF SliceStrings, Terminated
<1>4. ASSUME NEW j \in Junk, s = k \o j
      PROVE  s \in Seq(Bytes) /\ Len(k) <= Len(s) /\ \A i \in 1..Len(k) : s[i] = k[i]
  BY <1>2, <1>4, ConcatProperties, LenProperties
<1>5. s \in Seq(Bytes)
  BY <1>1, <1>3, <1>4
<1>6. ASSUME NEW q \in Reads, IsStart(q, k) PROVE IsStart(q, s)
  <2>1. /\ q \in Seq(Bytes) /\ \A i \in 1..Len(q) : q[i] # NUL
        /\ Len(q) \in Nat /\ Len(q) <= Len(k) /\ \A i \in 1..Len(q) : k[i] = q[i]
    BY <1>6, ReadHas, StartHas, LenProperties
  <2>2. CASE s = CStr(k)
    <3>1. Len(q) \in 0..Len(k) /\ \A i \in 1..Len(q) : k[i] # NUL
      BY <1>1, <2>1
    <3>2. strlen(k) >= Len(q)
      BY <3>1, StrlenIs
    <3>3. \A i \in 1..strlen(k) : CStr(k)[i] = k[i]
      BY CStrIs
    <3>4. Len(q) <= Len(s) /\ \A i \in 1..Len(q) : s[i] = q[i]
      BY <1>1, <2>1, <2>2, <3>2, <3>3
    <3> QED BY <1>5, <2>1, <3>4, StartsWith
  <2>3. CASE \E j \in Junk : ~Terminated(k) /\ s = k \o j
    <3>1. Len(k) <= Len(s) /\ \A i \in 1..Len(k) : s[i] = k[i]
      BY <1>4, <2>3
    <3>2. Len(q) <= Len(s) /\ \A i \in 1..Len(q) : s[i] = q[i]
      BY <1>1, <1>5, <2>1, <3>1, LenProperties
    <3> QED BY <1>5, <2>1, <3>2, StartsWith
  <2> QED BY <1>3, <2>2, <2>3
<1>7. ASSUME \A i \in 1..Len(k) : k[i] # NUL, Terminated(k) PROVE s = k
  <2>1. strlen(k) = Len(k)
    <3>1. Len(k) \in 0..Len(k)
      BY <1>1
    <3> QED BY <1>1, <1>7, <3>1, StrlenIs
  <2>2. CStr(k) = k
    BY <1>1, <2>1, CStrIs, SameBytes
  <2> QED BY <1>3, <1>7, <2>2
<1> QED BY <1>5, <1>6, <1>7

\* A reply made by snprintf is a string, and the whole text when it fits.
LEMMA SnprintfIs ==
  ASSUME NEW t \in Seq(Bytes), NEW n \in Int, NEW s \in Snprintf(n, t)
  PROVE  s \in Seq(Bytes) /\ (n > Len(t) => s = t)
<1>1. Len(t) \in Nat /\ \A j \in Junk : j \in Seq(Bytes)
  BY LenProperties, RouterAssumption
<1>2. <<>> \in Seq(Bytes)
  OBVIOUS
<1>3. CASE n = 0
  <2>1. s \in {<<>>} \cup Junk
    BY <1>3 DEF Snprintf
  <2>2. s \in Seq(Bytes)
    BY <2>1, <1>1, <1>2
  <2>3. ~(n > Len(t))
    BY <1>1, <1>3
  <2> QED BY <2>2, <2>3
<1>4. CASE n # 0
  <2> DEFINE l == IF n - 1 < Len(t) THEN n - 1 ELSE Len(t)
  <2>1. s = SubSeq(t, 1, l)
    BY <1>4 DEF Snprintf
  <2>2. l \in Int /\ l <= Len(t) /\ (n > Len(t) => l = Len(t))
    BY <1>1
  <2> HIDE DEF l
  <2>3. s \in Seq(Bytes)
    BY <2>1, <2>2, StartIs
  <2>4. n > Len(t) => s = t
    BY <2>1, <2>2, SubSeqFull
  <2> QED BY <2>3, <2>4
<1> QED BY <1>3, <1>4

\* The update that a set of a present key makes changes no row: it looks for a blob where
\* the keys are.
LEMMA SetAddsAtMost ==
  ASSUME is_ok = 1, \A x \in rows : IsRow(x), NEW key, NEW val, Set(key, val)
  PROVE  /\ rows' = rows \/ rows' = rows \cup {Row(key, val)}
         /\ proc' = proc /\ is_ok' = is_ok
<1>1. SqlUpdate(Text(key), Blob(val)) = rows
  <2>1. \A x \in rows : x.idx # Blob(val)
    BY DEF IsRow, Row, Text, Blob
  <2>2. \A x \in rows : [x EXCEPT !.data = IF x.idx = Blob(val) THEN Text(key) ELSE @] = x
    BY <2>1 DEF IsRow, Row
  <2> QED BY <2>2 DEF SqlUpdate
<1>2. PICK o \in store_set(key, val) : rows' = o.rows
  BY DEF Set
<1>3. o \in store_insert(key, val) \/ o \in store_update(key, val)
  BY DEF store_set
<1>4. o.rows = rows \/ o.rows = rows \cup {Row(key, val)}
  <2>1. CASE o \in store_insert(key, val)
    <3>1. o \in {Result(rows \cup {[idx |-> Text(key), data |-> Blob(val)]}, 1), Result(rows, 0)}
      BY <2>1 DEF store_insert, Stmt
    <3> QED BY <3>1 DEF Result, Row
  <2>2. CASE o \in store_update(key, val)
    <3>1. o \in {Result(SqlUpdate(Text(key), Blob(val)), 1), Result(rows, 0)}
      BY <2>2 DEF store_update, Stmt
    <3> QED BY <3>1, <1>1 DEF Result
  <2> QED BY <1>3, <2>1, <2>2
<1> QED BY <1>2, <1>4 DEF Set

LEMMA RemoveTakesItsKey ==
  ASSUME NEW key, Remove(key)
  PROVE  /\ rows' = rows \/ rows' = {x \in rows : x.idx # Text(key)}
         /\ proc' = proc /\ is_ok' = is_ok
<1>1. PICK o \in store_remove(key) : rows' = o.rows
  BY DEF Remove
<1>2. o \in {Result({x \in rows : x.idx # Text(key)}, 1), Result(rows, 0)}
  BY DEF store_remove, Stmt
<1> QED BY <1>1, <1>2 DEF Remove, Result

LEMMA GetReturnsData ==
  ASSUME \A x \in rows : IsRow(x), NEW key, Get(key)
  PROVE  /\ call'.ret \in Seq(Bytes) \cup {NULL}
         /\ rows' = rows /\ proc' = proc /\ is_ok' = is_ok
<1>1. PICK o \in store_get(key) : call' = [op |-> "get", key |-> key, ret |-> o]
  BY DEF Get
<1>2. o \in Select(key) \cup {NULL}
  BY DEF store_get, Stmt
<1>3. \A x \in rows : x.data.bytes \in Seq(Bytes)
  BY DEF IsRow, Row, Blob
<1>4. Select(key) \subseteq Seq(Bytes)
  BY <1>3 DEF Select
<1> QED BY <1>1, <1>2, <1>4 DEF Get

LEMMA CrashLeaves ==
  ASSUME Crash
  PROVE  rows' \subseteq rows /\ proc' = "off" /\ is_ok' = 1
BY DEF Crash, EndOfConnection

-----------------------------------------------------------------------------
\* The inductive invariant.  is_ok stays 1 since router never closes the store.
RouterInv ==
  /\ up \in [Clients -> Reads] /\ sent \in 0..MaxSends
  /\ block \in Seq(Bytes) /\ Len(block) = BufLen
  /\ req # NULL => req \in Reads \ {<<>>}
  /\ reply # NULL => reply \in Seq(Bytes)
  /\ reply = NULL => (req = NULL \/ proc = "off")
  /\ is_ok = 1
  /\ \A x \in rows : IsRow(x)
  /\ ReplyNamesKey

\* The key a route works with.
Found(m, s) == IsStart(KeyRead(m), s) /\ (NamesKey(m) => s = KeyRead(m))

\* What a read does to the table: nothing, or the process ends; or it is like a delete,
\* and takes one key; or like a set, and adds a row.
RowsAfter(m) ==
  \/ rows' \subseteq rows /\ (proc' = "on" => rows' = rows)
  \/ /\ m[1] = "3"
     /\ \E s \in Seq(Bytes) : rows' = {x \in rows : x.idx # Text(s)} /\ Found(m, s)
  \/ /\ m[1] = "1"
     /\ \E s, v \in Seq(Bytes) : /\ rows' = rows \cup {Row(s, v)} /\ Found(m, s)
                                 /\ Closed(m) => IsStart(RestRead(m), v)

\* The reply that a set or a delete is confirmed with.
Confirmation(d, k) == <<d, BAR>> \o k \o <<BAR>>

\* A text with a digit before the key and a bar after it.
LEMMA TextIs ==
  ASSUME NEW k \in Seq(Bytes), NEW d \in {"1", "2", "3"}
  PROVE  Confirmation(d, k) \in Seq(Bytes) /\ Len(Confirmation(d, k)) = Len(k) + 3
<1>1. d \in Bytes /\ BAR \in Bytes
  BY RouterAssumption
<1>2. <<d, BAR>> \in Seq(Bytes) /\ <<BAR>> \in Seq(Bytes) /\ Len(<<d, BAR>>) = 2 /\ Len(<<BAR>>) = 1
  BY <1>1
<1> QED BY <1>2, ConcatProperties, LenProperties DEF Confirmation

\* It fits in the room that route_set and route_delete ask for.
LEMMA ConfirmationFits ==
  ASSUME NEW k \in Seq(Bytes), NEW d \in {"1", "2", "3"}, NEW s \in Snprintf(Len(k) + 4, Confirmation(d, k))
  PROVE  s \in Seq(Bytes) /\ s = Confirmation(d, k)
<1> DEFINE t == Confirmation(d, k)
<1>1. t \in Seq(Bytes) /\ Len(k) + 4 \in Int /\ Len(k) + 4 > Len(t)
  <2>1. t \in Seq(Bytes) /\ Len(t) = Len(k) + 3 /\ Len(k) \in Nat
    BY TextIs, LenProperties
  <2> HIDE DEF t
  <2> QED BY <2>1
<1> HIDE DEF t
<1>2. s \in Snprintf(Len(k) + 4, t)
  BY DEF t
<1>3. s \in Seq(Bytes) /\ s = t
  BY <1>1, <1>2, SnprintfIs
<1> QED BY <1>3 DEF t

\* A read and its reply.
LEMMA ReadDoes ==
  ASSUME RouterInv, NEW m \in Reads, m # <<>>, Len(m) <= BufLen, router(m)
  PROVE  /\ block' \in Seq(Bytes) /\ Len(block') = BufLen
         /\ is_ok' = 1 /\ proc = "on"
         /\ \/ proc' = "off" /\ reply' = NULL
            \/ proc' = "on" /\ reply' \in Seq(Bytes)
         /\ RowsAfter(m)
         /\ (NamesKey(m) /\ reply' # NULL)
              => /\ m[1] = "3" => reply' = Confirmation("3", KeyRead(m))
                 /\ m[1] = "1" /\ RestRead(m) # <<>> => reply' = Confirmation("1", KeyRead(m))
<1>1. PICK b \in Buffers(m) :
        LET task == parse_client_msg(b)
        IN  \/ /\ \/ NoRoute(task)
                  \/ /\ task.key # NULL
                     /\ \E key \in SliceStrings(task.key) :
                          route_set(task, key) \/ route_get(task, key) \/ route_delete(task, key)
               /\ block' = b
            \/ NullKey(task) /\ block' = Zeros(BufLen)
  BY DEF router
<1>2. m \in Seq(Bytes) /\ block \in Seq(Bytes) /\ Len(block) = BufLen
  BY ReadHas DEF RouterInv
<1>3. b \in Seq(Bytes) /\ Len(b) = BufLen /\ \A i \in 1..Len(m) : b[i] = m[i]
  BY <1>2, BufferIs
<1> DEFINE task == parse_client_msg(b)
<1>4. /\ task.cmd = (CASE m[1] = "1" -> CMD_SET [] m[1] = "2" -> CMD_GET
                       [] m[1] = "3" -> CMD_DELETE [] OTHER -> 0)
      /\ task.key \in Seq(Bytes) \cup {NULL} /\ task.data \in Seq(Bytes) \cup {NULL}
      /\ task.key # NULL => IsStart(KeyRead(m), task.key)
      /\ Closed(m) /\ task.key # NULL => task.key = KeyRead(m)
      /\ Closed(m) /\ task.data # NULL => IsStart(RestRead(m), task.data)
      /\ Closed(m) /\ RestRead(m) # <<>> => task.data # NULL
  BY <1>3, TaskIs
<1>5. /\ m[1] = "1" <=> task.cmd = CMD_SET
      /\ m[1] = "2" <=> task.cmd = CMD_GET
      /\ m[1] = "3" <=> task.cmd = CMD_DELETE
  BY <1>4 DEF CMD_SET, CMD_GET, CMD_DELETE
<1>6. proc = "on" /\ is_ok = 1 /\ \A x \in rows : IsRow(x)
  BY DEF router, RouterInv
<1>7. NULL \notin Seq(Bytes) /\ NUL \in Bytes /\ BufLen \in Nat \ {0}
  BY RouterAssumption
<1>8. CMD_SET = 1 /\ CMD_GET = 2 /\ CMD_DELETE = 3
  BY DEF CMD_SET, CMD_GET, CMD_DELETE
<1>9. KeyRead(m) \in Reads /\ \A i \in 1..Len(KeyRead(m)) : KeyRead(m)[i] # NUL
  BY KeyReadIs, ReadHas
<1> HIDE DEF task
<1>10. \/ NullKey(task) /\ block' = Zeros(BufLen)
       \/ NoRoute(task) /\ block' = b
       \/ /\ block' = b /\ task.key # NULL
          /\ \E key \in SliceStrings(task.key) :
               route_set(task, key) \/ route_get(task, key) \/ route_delete(task, key)
  BY <1>1 DEF task
<1>11. CASE NullKey(task) /\ block' = Zeros(BufLen)
  <2>1. block' \in [1..BufLen -> Bytes]
    BY <1>7, <1>11 DEF Zeros
  <2>2. block' \in Seq(Bytes) /\ Len(block') = BufLen
    BY <2>1, <1>7
  <2>3. rows' \subseteq rows /\ proc' = "off" /\ is_ok' = 1 /\ reply' = NULL
    BY <1>11, CrashLeaves DEF NullKey
  <2> QED BY <2>2, <2>3, <1>6 DEF RowsAfter
<1>12. CASE NoRoute(task) /\ block' = b
  <2>1. /\ reply' = <<"0">> /\ rows' = rows /\ proc' = proc /\ is_ok' = is_ok
        /\ task.cmd = 0 \/ (task.cmd = CMD_SET /\ task.data = NULL)
    BY <1>12 DEF NoRoute, storeVars
  <2>2. reply' \in Seq(Bytes)
    <3>1. "0" \in Bytes
      BY RouterAssumption
    <3>2. <<"0">> \in Seq(Bytes)
      BY <3>1
    <3> QED BY <2>1, <3>2
  <2>3. m[1] # "3" /\ (m[1] = "1" => task.data = NULL)
    BY <2>1, <1>5, <1>8
  <2>4. ~(NamesKey(m) /\ m[1] = "1" /\ RestRead(m) # <<>>)
    BY <2>3, <1>4 DEF NamesKey
  <2> QED BY <2>1, <2>2, <2>3, <2>4, <1>3, <1>6, <1>12 DEF RowsAfter
<1>13. ASSUME block' = b, task.key # NULL, NEW key \in SliceStrings(task.key),
              route_set(task, key) \/ route_get(task, key) \/ route_delete(task, key)
       PROVE  /\ proc' = "on" /\ is_ok' = 1 /\ reply' \in Seq(Bytes)
              /\ RowsAfter(m)
              /\ NamesKey(m)
                   => /\ m[1] = "3" => reply' = Confirmation("3", KeyRead(m))
                      /\ m[1] = "1" => reply' = Confirmation("1", KeyRead(m))
  <2>1. key \in Seq(Bytes) /\ Len(key) \in Nat
    BY <1>4, <1>13, SliceStringIs, LenProperties
  <2>2. Found(m, key)
    <3>1. task.key \in Seq(Bytes) /\ IsStart(KeyRead(m), task.key)
      BY <1>4, <1>13
    <3>2. IsStart(KeyRead(m), key)
      BY <3>1, <1>9, <1>13, SliceStringIs
    <3>3. ASSUME NamesKey(m) PROVE key = KeyRead(m)
      <4>1. task.key = KeyRead(m) /\ Terminated(KeyRead(m))
        BY <1>4, <1>13, <3>3 DEF NamesKey
      <4> QED BY <4>1, <3>1, <1>9, <1>13, SliceStringIs
    <3> QED BY <3>2, <3>3 DEF Found
  <2>3. CASE route_set(task, key)
    <3>1. PICK data \in SliceStrings(task.data) : Set(key, data)
      BY <2>3 DEF route_set
    <3>2. m[1] = "1" /\ task.data # NULL /\ reply' \in Snprintf(Len(key) + 4, Confirmation("1", key))
      BY <2>3, <1>5 DEF route_set, Confirmation
    <3>3. /\ rows' = rows \/ rows' = rows \cup {Row(key, data)}
          /\ proc' = proc /\ is_ok' = is_ok
      BY <3>1, <1>6, SetAddsAtMost
    <3>4. data \in Seq(Bytes) /\ (Closed(m) => IsStart(RestRead(m), data))
      <4>1. task.data \in Seq(Bytes)
        BY <3>2, <1>4
      <4>2. Closed(m) => RestRead(m) \in Reads /\ IsStart(RestRead(m), task.data)
        BY <3>2, <1>4, RestReadIs
      <4> QED BY <3>1, <4>1, <4>2, SliceStringIs
    <3>5. reply' \in Seq(Bytes) /\ reply' = Confirmation("1", key)
      BY <3>2, <2>1, ConfirmationFits
    <3>6. RowsAfter(m)
      BY <3>2, <3>3, <3>4, <2>1, <2>2, <1>6 DEF RowsAfter
    <3> QED BY <3>2, <3>3, <3>5, <3>6, <2>2, <1>6 DEF Found
  <2>4. CASE route_delete(task, key)
    <3>1. m[1] = "3" /\ Remove(key) /\ reply' \in Snprintf(Len(key) + 4, Confirmation("3", key))
      BY <2>4, <1>5 DEF route_delete, Confirmation
    <3>2. /\ rows' = rows \/ rows' = {x \in rows : x.idx # Text(key)}
          /\ proc' = proc /\ is_ok' = is_ok
      BY <3>1, RemoveTakesItsKey
    <3>3. reply' \in Seq(Bytes) /\ reply' = Confirmation("3", key)
      BY <3>1, <2>1, ConfirmationFits
    <3>4. RowsAfter(m)
      BY <3>1, <3>2, <2>1, <2>2 DEF RowsAfter
    <3> QED BY <3>1, <3>2, <3>3, <3>4, <2>2, <1>6 DEF Found
  <2>5. CASE route_get(task, key)
    <3>1. m[1] = "2" /\ Get(key)
      BY <2>5, <1>5 DEF route_get
    <3>2. /\ call'.ret \in Seq(Bytes) \cup {NULL}
          /\ rows' = rows /\ proc' = proc /\ is_ok' = is_ok
      BY <3>1, <1>6, GetReturnsData
    <3> DEFINE t == Confirmation("2", key)
    <3>3. t \in Seq(Bytes)
      BY <2>1, TextIs
    <3>4. \/ reply' \in Snprintf(Len(key) - 1, t)
          \/ /\ call'.ret # NULL
             /\ \E p \in DataStrings(call'.ret) : reply' \in Snprintf(Len(key) + Len(p) - 2, t \o p)
      BY <2>5 DEF route_get, Confirmation
    <3> HIDE DEF t
    <3>5. CASE reply' \in Snprintf(Len(key) - 1, t)
      <4>1. Len(key) - 1 \in Int
        BY <2>1
      <4>2. reply' \in Seq(Bytes)
        BY <3>3, <3>5, <4>1, SnprintfIs
      <4> QED BY <4>2, <3>1, <3>2, <1>6 DEF RowsAfter
    <3>6. ASSUME call'.ret # NULL, NEW p \in DataStrings(call'.ret),
                 reply' \in Snprintf(Len(key) + Len(p) - 2, t \o p)
          PROVE  reply' \in Seq(Bytes)
      <4>1. call'.ret \in Seq(Bytes) /\ \A j \in Junk : j \in Seq(Bytes)
        BY <3>2, <3>6, RouterAssumption
      <4>2. p = call'.ret \/ \E j \in Junk : p = call'.ret \o j
        BY <3>6 DEF DataStrings
      <4>3. p \in Seq(Bytes)
        BY <4>1, <4>2, ConcatProperties
      <4>4. t \o p \in Seq(Bytes) /\ Len(key) + Len(p) - 2 \in Int
        BY <2>1, <3>3, <4>3, ConcatProperties, LenProperties
      <4> HIDE DEF t
      <4> QED BY <3>6, <4>4, SnprintfIs
    <3> QED BY <3>1, <3>2, <3>4, <3>5, <3>6, <1>6 DEF RowsAfter
  <2> QED BY <1>13, <2>3, <2>4, <2>5
<1> QED BY <1>3, <1>6, <1>10, <1>11, <1>12, <1>13

LEMMA InvInit == RouterInit => RouterInv
<1> SUFFICES ASSUME RouterInit PROVE RouterInv
  OBVIOUS
<1>1. /\ block = Zeros(BufLen) /\ req = NULL /\ reply = NULL /\ rows = {} /\ is_ok = 1
      /\ up = NoBytes /\ sent = 0
  BY DEF RouterInit, StoreInit
<1>2. BufLen \in Nat \ {0} /\ NUL \in Bytes /\ MaxSends \in Nat
  BY RouterAssumption
<1>3. block \in [1..BufLen -> Bytes]
  BY <1>1, <1>2 DEF Zeros
<1>4. block \in Seq(Bytes) /\ Len(block) = BufLen
  BY <1>2, <1>3
<1>5. up \in [Clients -> Reads] /\ sent \in 0..MaxSends
  BY <1>1, <1>2 DEF NoBytes, Reads
<1> QED BY <1>1, <1>4, <1>5 DEF RouterInv, ReplyNamesKey

LEMMA RowsKeep ==
  ASSUME \A x \in rows : IsRow(x), NEW m, RowsAfter(m)
  PROVE  \A x \in rows' : IsRow(x)
<1>1. CASE rows' \subseteq rows /\ (proc' = "on" => rows' = rows)
  BY <1>1
<1>2. CASE /\ m[1] = "3"
           /\ \E s \in Seq(Bytes) : rows' = {x \in rows : x.idx # Text(s)} /\ Found(m, s)
  <2>1. PICK s \in Seq(Bytes) : rows' = {x \in rows : x.idx # Text(s)}
    BY <1>2
  <2> QED BY <2>1
<1>3. CASE /\ m[1] = "1"
           /\ \E s, v \in Seq(Bytes) : /\ rows' = rows \cup {Row(s, v)} /\ Found(m, s)
                                       /\ Closed(m) => IsStart(RestRead(m), v)
  <2>1. PICK s, v \in Seq(Bytes) : rows' = rows \cup {Row(s, v)}
    BY <1>3
  <2> QED BY <2>1 DEF IsRow
<1> QED BY <1>1, <1>2, <1>3 DEF RowsAfter

\* What on_read_cb is given.
LEMMA ReadIs ==
  ASSUME RouterInv, NEW c \in Clients, Read(c)
  PROVE  /\ req' \in Reads /\ req' # <<>> /\ Len(req') <= BufLen /\ router(req')
         /\ up' \in [Clients -> Reads] /\ sent' = sent
<1>1. PICK n \in 1..Len(up[c]) :
        /\ n <= BufLen
        /\ router(Beginning(up[c], n))
        /\ req' = Beginning(up[c], n)
        /\ up' = IF proc' = "on" THEN [up EXCEPT ![c] = Rest(@, n)] ELSE NoBytes
        /\ sent' = sent
  BY DEF Read
<1> DEFINE s == up[c]
<1>2. up \in [Clients -> Reads] /\ s \in Seq(Bytes \ {NUL}) /\ Len(s) \in Nat
  BY LenProperties DEF RouterInv, Reads
<1> HIDE DEF s
<1>3. Beginning(s, n) \in Reads /\ Len(Beginning(s, n)) = n
  <2>1. n \in Int /\ n <= Len(s) /\ n >= 0
    BY <1>1, <1>2 DEF s
  <2> QED BY <2>1, <1>2, StartIs DEF Beginning, Reads
<1>4. Rest(s, n) \in Reads
  <2> DEFINE from == n + 1
             to == Len(s)
  <2>1. from \in Nat \ {0} /\ to \in Int /\ to <= Len(s)
    BY <1>1, <1>2 DEF s
  <2> HIDE DEF from
  <2>2. SubSeq(s, from, to) \in Seq(Bytes \ {NUL})
    BY <2>1, <1>2, PartIs
  <2> QED BY <2>2 DEF from, Rest, Reads
<1>5. up' \in [Clients -> Reads]
  <2>1. NoBytes \in [Clients -> Reads]
    BY DEF NoBytes, Reads
  <2>2. [up EXCEPT ![c] = Rest(@, n)] \in [Clients -> Reads]
    BY <1>2, <1>4 DEF s
  <2> QED BY <1>1, <2>1, <2>2
<1>6. Beginning(s, n) # <<>>
  <2>1. n # 0
    BY <1>1
  <2> QED BY <1>3, <2>1
<1> QED BY <1>1, <1>3, <1>5, <1>6 DEF s

\* One step for each action.
LEMMA StepKeeps == RouterInv /\ [RouterNext]_routerVars => RouterInv'
<1> SUFFICES ASSUME RouterInv, [RouterNext]_routerVars PROVE RouterInv'
  OBVIOUS
<1>1. CASE Start
  <2>1. /\ req' = NULL /\ reply' = NULL /\ block' = block /\ rows' = rows
        /\ up' = up /\ sent' = sent
    BY <1>1 DEF Start, Open
  <2>2. is_ok' = 1
    <3>1. PICK o \in store_init : is_ok' = o.is_ok
      BY <1>1 DEF Start, Open
    <3>2. is_ok = 1
      BY DEF RouterInv
    <3> QED BY <3>1, <3>2 DEF store_init
  <2> QED BY <2>1, <2>2 DEF RouterInv, ReplyNamesKey
<1>2. ASSUME NEW c \in Clients, NEW r \in Requests, Send(c, r) PROVE RouterInv'
  <2>1. /\ up' = [up EXCEPT ![c] = @ \o Encode(r)] /\ sent' = sent + 1 /\ sent < MaxSends
        /\ UNCHANGED <<storeVars, block, req, reply>>
    BY <1>2 DEF Send
  <2>2. up' \in [Clients -> Reads]
    <3>1. up[c] \in Seq(Bytes \ {NUL}) /\ Encode(r) \in Seq(Bytes \ {NUL})
      BY EncodeIs DEF RouterInv, Reads
    <3>2. up[c] \o Encode(r) \in Reads
      BY <3>1, ConcatProperties DEF Reads
    <3> QED BY <2>1, <3>2 DEF RouterInv
  <2>3. sent' \in 0..MaxSends
    <3>1. MaxSends \in Nat /\ sent \in 0..MaxSends
      BY RouterAssumption DEF RouterInv
    <3> QED BY <2>1, <3>1
  <2> QED BY <2>1, <2>2, <2>3 DEF RouterInv, ReplyNamesKey, storeVars
<1>3. ASSUME NEW c \in Clients, Read(c) PROVE RouterInv'
  <2>1. /\ req' \in Reads /\ req' # <<>> /\ Len(req') <= BufLen /\ router(req')
        /\ up' \in [Clients -> Reads] /\ sent' = sent
    BY <1>3, ReadIs
  <2> DEFINE m == req'
  <2> HIDE DEF m
  <2>2. m \in Reads /\ m # <<>> /\ Len(m) <= BufLen /\ router(m)
    BY <2>1 DEF m
  <2>3. /\ block' \in Seq(Bytes) /\ Len(block') = BufLen
        /\ is_ok' = 1
        /\ \/ proc' = "off" /\ reply' = NULL
           \/ proc' = "on" /\ reply' \in Seq(Bytes)
        /\ RowsAfter(m)
        /\ (NamesKey(m) /\ reply' # NULL)
             => /\ m[1] = "3" => reply' = Confirmation("3", KeyRead(m))
                /\ m[1] = "1" /\ RestRead(m) # <<>> => reply' = Confirmation("1", KeyRead(m))
    BY <2>2, ReadDoes
  <2>4. \A x \in rows' : IsRow(x)
    BY <2>3, RowsKeep DEF RouterInv
  <2>5. ReplyNamesKey'
    BY <2>3 DEF ReplyNamesKey, Confirmation, m
  <2>6. NULL \notin Seq(Bytes)
    BY RouterAssumption
  <2>7. sent' \in 0..MaxSends
    BY <2>1 DEF RouterInv
  <2>8. reply' = NULL => proc' = "off"
    BY <2>3, <2>6
  <2>9. /\ reply' # NULL => reply' \in Seq(Bytes)
        /\ is_ok' = 1 /\ block' \in Seq(Bytes) /\ Len(block') = BufLen
    BY <2>3
  <2> QED BY <2>1, <2>4, <2>5, <2>7, <2>8, <2>9 DEF RouterInv
<1>4. ASSUME NEW c \in Clients, Leave(c) PROVE RouterInv'
  <2>1. up' = [up EXCEPT ![c] = <<>>] /\ UNCHANGED <<storeVars, sent, block, req, reply>>
    BY <1>4 DEF Leave
  <2>2. up' \in [Clients -> Reads]
    BY <2>1 DEF RouterInv, Reads
  <2> QED BY <2>1, <2>2 DEF RouterInv, ReplyNamesKey, storeVars
<1>5. CASE Stop
  <2>1. block' = Zeros(BufLen) /\ req' = NULL /\ reply' = NULL /\ Crash /\ up' = NoBytes /\ sent' = sent
    BY <1>5 DEF Stop
  <2>2. BufLen \in Nat \ {0} /\ NUL \in Bytes
    BY RouterAssumption
  <2>3. block' \in [1..BufLen -> Bytes]
    BY <2>1, <2>2 DEF Zeros
  <2>4. block' \in Seq(Bytes) /\ Len(block') = BufLen
    BY <2>2, <2>3
  <2>5. rows' \subseteq rows /\ is_ok' = 1
    BY <2>1, CrashLeaves
  <2>6. up' \in [Clients -> Reads]
    BY <2>1 DEF NoBytes, Reads
  <2> QED BY <2>1, <2>4, <2>5, <2>6 DEF RouterInv, ReplyNamesKey
<1>6. CASE UNCHANGED routerVars
  BY <1>6 DEF routerVars, storeVars, RouterInv, ReplyNamesKey
<1> QED BY <1>1, <1>2, <1>3, <1>4, <1>5, <1>6 DEF RouterNext

LEMMA Invariance == RouterSpec => []RouterInv
BY InvInit, StepKeeps, PTL DEF RouterSpec

-----------------------------------------------------------------------------
\* Every read is answered or ends the process, and the store stays usable as far as its
\* flag can tell (server.c:54, router.c:91).
THEOREM EveryReadIsAnswered == RouterSpec => []RouterTypeOK
<1>1. RouterInv => RouterTypeOK
  <2> SUFFICES ASSUME RouterInv PROVE RouterTypeOK
    OBVIOUS
  <2>1. block \in [1..BufLen -> Bytes]
    BY DEF RouterInv
  <2> QED BY <2>1 DEF RouterInv, RouterTypeOK
<1> QED BY <1>1, Invariance, PTL

\* The confirmation of a set or a delete whose key was read with its bar names that key,
\* whatever is cut off behind it or joined to it (router.c:23, router.c:43).
THEOREM RepliesNameTheKey == RouterSpec => []ReplyNamesKey
<1>1. RouterInv => ReplyNamesKey
  BY DEF RouterInv
<1> QED BY <1>1, Invariance, PTL

\* The rows that a step adds or takes, over any cut of the streams, have the key that
\* was read (router.c:22, router.c:37).
LEMMA StepRows ==
  ASSUME RouterInv, RouterNext, proc' = "on", rows' # rows
  PROVE  req' \in Reads /\ req' # NULL /\ req' # <<>> /\ Len(req') <= BufLen /\ RowsAfter(req')
<1>1. CASE \E c \in Clients : Read(c)
  <2>1. req' \in Reads /\ req' # <<>> /\ Len(req') <= BufLen /\ router(req')
    BY <1>1, ReadIs
  <2>2. req' # NULL
    BY <2>1, ReadHas, RouterAssumption
  <2> DEFINE m == req'
  <2> HIDE DEF m
  <2>3. m \in Reads /\ m # <<>> /\ Len(m) <= BufLen /\ router(m)
    BY <2>1 DEF m
  <2>4. RowsAfter(m)
    BY <2>3, ReadDoes
  <2> QED BY <2>1, <2>2, <2>4 DEF m
<1>2. CASE Stop \/ Start
  BY <1>2, CrashLeaves DEF Stop, Start, Open
<1>3. CASE \E c \in Clients : Leave(c) \/ \E r \in Requests : Send(c, r)
  BY <1>3 DEF Leave, Send, storeVars
<1> QED BY <1>1, <1>2, <1>3 DEF RouterNext

\* A read with a key and its bar changes no row but that of its key
\* (router.c:22, router.c:37).
THEOREM NoOtherKeyIsTouched == RouterSpec => OnlyItsKey
<1>1. RouterInv /\ [RouterNext]_routerVars
        => [(req' # NULL /\ proc = "on" /\ proc' = "on" /\ NamesKey(req'))
              => \A x \in rows \cup rows' :
                   x.idx # Text(KeyRead(req')) => x \in rows /\ x \in rows']_routerVars
  <2> SUFFICES ASSUME RouterInv, RouterNext, proc' = "on", NamesKey(req'),
                      NEW x \in rows \cup rows', x.idx # Text(KeyRead(req')), rows' # rows
               PROVE  x \in rows /\ x \in rows'
    OBVIOUS
  <2> DEFINE m == req'
  <2>1. RowsAfter(m)
    BY StepRows
  <2> HIDE DEF m
  <2>2. NamesKey(m) /\ x.idx # Text(KeyRead(m))
    BY DEF m
  <2>3. ASSUME NEW s \in Seq(Bytes), rows' = {y \in rows : y.idx # Text(s)}, Found(m, s)
        PROVE  x \in rows /\ x \in rows'
    BY <2>2, <2>3 DEF Found
  <2>4. ASSUME NEW s \in Seq(Bytes), NEW v \in Seq(Bytes), rows' = rows \cup {Row(s, v)}, Found(m, s)
        PROVE  x \in rows /\ x \in rows'
    BY <2>2, <2>4 DEF Found, Row
  <2>5. CASE /\ m[1] = "3"
             /\ \E s \in Seq(Bytes) : rows' = {y \in rows : y.idx # Text(s)} /\ Found(m, s)
    BY <2>3, <2>5
  <2>6. CASE /\ m[1] = "1"
             /\ \E s, v \in Seq(Bytes) : /\ rows' = rows \cup {Row(s, v)} /\ Found(m, s)
                                         /\ Closed(m) => IsStart(RestRead(m), v)
    <3>1. PICK s, v \in Seq(Bytes) : rows' = rows \cup {Row(s, v)} /\ Found(m, s)
      BY <2>6
    <3> QED BY <2>4, <3>1
  <2> QED BY <2>1, <2>5, <2>6 DEF RowsAfter
<1> QED BY <1>1, Invariance, PTL DEF RouterSpec, OnlyItsKey

\* Rows come from reads that begin like a set and go with reads that begin like a delete,
\* with a key that begins with the one that was read (router.c:22, router.c:37).
THEOREM RowsAreFollowed == RouterSpec => RowsFollowReads
<1>1. RouterInv /\ [RouterNext]_routerVars
        => [/\ \A x \in rows' \ rows :
                 /\ req' # NULL /\ req'[1] = "1"
                 /\ x.idx.type = "text" /\ IsStart(KeyRead(req'), x.idx.bytes)
                 /\ NamesKey(req') => x.idx = Text(KeyRead(req'))
                 /\ x.data.type = "blob"
                 /\ Closed(req') => IsStart(RestRead(req'), x.data.bytes)
            /\ \A x \in rows \ rows' :
                 proc' = "on" => /\ req' # NULL /\ req'[1] = "3"
                                 /\ IsStart(KeyRead(req'), x.idx.bytes)]_routerVars
  <2> SUFFICES ASSUME RouterInv, RouterNext, rows' # rows
               PROVE  /\ \A x \in rows' \ rows :
                           /\ req' # NULL /\ req'[1] = "1"
                           /\ x.idx.type = "text" /\ IsStart(KeyRead(req'), x.idx.bytes)
                           /\ NamesKey(req') => x.idx = Text(KeyRead(req'))
                           /\ x.data.type = "blob"
                           /\ Closed(req') => IsStart(RestRead(req'), x.data.bytes)
                      /\ \A x \in rows \ rows' :
                           proc' = "on" => /\ req' # NULL /\ req'[1] = "3"
                                           /\ IsStart(KeyRead(req'), x.idx.bytes)
    BY DEF routerVars, storeVars
  <2>1. CASE proc' # "on"
    <3>1. rows' \subseteq rows
      <4>1. CASE Stop
        BY <4>1, CrashLeaves DEF Stop
      <4>2. CASE Start
        BY <4>2 DEF Start, Open
      <4>3. CASE \E c \in Clients : Leave(c) \/ \E r \in Requests : Send(c, r)
        BY <4>3 DEF Leave, Send, storeVars
      <4>4. ASSUME NEW c \in Clients, Read(c) PROVE rows' \subseteq rows
        <5>1. req' \in Reads /\ router(req')
          BY <4>4, ReadIs
        <5>2. Crash
          BY <5>1, <2>1 DEF router, NullKey, NoRoute, route_set, route_get, route_delete,
             Set, Get, Remove, storeVars
        <5> QED BY <5>2, CrashLeaves
      <4> QED BY <4>1, <4>2, <4>3, <4>4 DEF RouterNext
    <3> QED BY <2>1, <3>1
  <2>2. CASE proc' = "on"
    <3> DEFINE m == req'
    <3>1. m # NULL /\ RowsAfter(m)
      BY <2>2, StepRows
    <3> HIDE DEF m
    <3>2. ASSUME NEW s \in Seq(Bytes), m[1] = "3", rows' = {y \in rows : y.idx # Text(s)}, Found(m, s)
          PROVE  /\ rows' \subseteq rows
                 /\ \A x \in rows \ rows' : IsStart(KeyRead(m), x.idx.bytes)
      BY <3>2 DEF Found, Text
    <3>3. ASSUME NEW s \in Seq(Bytes), NEW v \in Seq(Bytes), rows' = rows \cup {Row(s, v)}, Found(m, s),
                 Closed(m) => IsStart(RestRead(m), v)
          PROVE  /\ rows \subseteq rows'
                 /\ \A x \in rows' \ rows :
                      /\ x.idx.type = "text" /\ IsStart(KeyRead(m), x.idx.bytes)
                      /\ NamesKey(m) => x.idx = Text(KeyRead(m))
                      /\ x.data.type = "blob"
                      /\ Closed(m) => IsStart(RestRead(m), x.data.bytes)
      <4>1. /\ Row(s, v).idx = Text(s) /\ Row(s, v).idx.type = "text" /\ Row(s, v).idx.bytes = s
            /\ Row(s, v).data.type = "blob" /\ Row(s, v).data.bytes = v
        BY DEF Row, Text, Blob
      <4>2. \A x \in rows' \ rows : x = Row(s, v)
        BY <3>3
      <4> QED BY <4>1, <4>2, <3>3 DEF Found
    <3>4. CASE m[1] = "3" /\ \E s \in Seq(Bytes) : rows' = {y \in rows : y.idx # Text(s)} /\ Found(m, s)
      <4>1. /\ m # NULL /\ m[1] = "3" /\ rows' \subseteq rows
            /\ \A x \in rows \ rows' : IsStart(KeyRead(m), x.idx.bytes)
        BY <3>1, <3>2, <3>4
      <4> QED BY <4>1 DEF m
    <3>5. CASE m[1] = "1" /\ \E s, v \in Seq(Bytes) : /\ rows' = rows \cup {Row(s, v)} /\ Found(m, s)
                                                      /\ Closed(m) => IsStart(RestRead(m), v)
      <4>1. PICK s, v \in Seq(Bytes) : /\ rows' = rows \cup {Row(s, v)} /\ Found(m, s)
                                       /\ Closed(m) => IsStart(RestRead(m), v)
        BY <3>5
      <4>2. /\ m # NULL /\ m[1] = "1" /\ rows \subseteq rows'
            /\ \A x \in rows' \ rows :
                 /\ x.idx.type = "text" /\ IsStart(KeyRead(m), x.idx.bytes)
                 /\ NamesKey(m) => x.idx = Text(KeyRead(m))
                 /\ x.data.type = "blob"
                 /\ Closed(m) => IsStart(RestRead(m), x.data.bytes)
        BY <3>1, <3>3, <3>5, <4>1
      <4> QED BY <4>2 DEF m
    <3>6. CASE rows' = rows
      BY <3>6
    <3> QED BY <2>2, <3>1, <3>4, <3>5, <3>6 DEF RowsAfter
  <2> QED BY <2>1, <2>2
<1> QED BY <1>1, Invariance, PTL DEF RouterSpec, RowsFollowReads

=============================================================================
