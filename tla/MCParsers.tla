----------------------------- MODULE MCParsers -----------------------------
(***************************************************************************)
(* The two parsers over every small input: msg_parser.c over buffers of at *)
(* most MaxBuf bytes, ini.c over files of at most MaxPieces pieces after   *)
(* one of a few beginnings.  The input is extended piece by piece, so that *)
(* every sequence is reached; the invariants compare the parsers with      *)
(* reference definitions.                                                  *)
(***************************************************************************)
EXTENDS MsgParser, SequencesExt, FiniteSetsExt

CONSTANTS MaxBuf,     \* bound on the request buffer
          Alphabet,   \* its bytes: a command digit, the bar, letters, NUL
          Beginnings, \* what a file begins with
          Pieces,     \* the pieces of a file: short sequences of characters
          MaxPieces,  \* bound on the pieces of a file
          LineLen, NameLen

\* NULL is no string.  fgets reads something.
ASSUME ParsersAssumption ==
  /\ MaxBuf \in Nat
  /\ NULL \notin Seq(Alphabet \cup {NUL})
  /\ Beginnings \cup Pieces \subseteq Seq(STRING)
  /\ LineLen \in Nat \ {0} /\ NameLen \in Nat

Ini == INSTANCE Ini

VARIABLES kind,  \* "request" or "file"
          buf,   \* the input
          size   \* the bytes or pieces in it

Init == \/ kind = "request" /\ buf = <<>> /\ size = 0
        \/ kind = "file" /\ buf \in Beginnings /\ size = 0

AddByte == /\ kind = "request" /\ size < MaxBuf
           /\ \E b \in Alphabet : buf' = Append(buf, b)

AddPiece == /\ kind = "file" /\ size < MaxPieces
            /\ \E p \in Pieces : buf' = buf \o p

Next == (AddByte \/ AddPiece) /\ size' = size + 1 /\ UNCHANGED kind

Spec == Init /\ [][Next]_<<kind, buf, size>>

-----------------------------------------------------------------------------
\* Requests.

Indexes == (-MaxBuf - 1)..(MaxBuf + 1)

\* What "a selection of string" means in add_lib.c: the bytes of the C string
\* from one position to another, a negative position counting from its end and
\* a start before the string moved to its start.  An empty selection is NULL.
Selection(s, from, to) ==
  LET n == Len(s)
      a == IF from >= 0 THEN from ELSE IF n + from < 0 THEN 0 ELSE n + from
      b == IF to >= 0 THEN IF to < n THEN to ELSE n ELSE n + to
  IN  IF (from < 0) # (to < 0) \/ from >= to \/ a >= n \/ b <= 0
      THEN NULL ELSE SubSeq(s, a + 1, b)

\* str_slice returns that selection for every pair of indexes of either sign,
\* in a block of the size asked for, NUL-padded where the string is shorter.
SliceIsSelection ==
  kind = "request" => \A from, to \in Indexes :
    LET block == str_slice(buf, from, to)
        sel == Selection(CStr(buf), from, to)
    IN  IF sel = NULL THEN block = NULL
        ELSE block # NULL /\ CStr(block) = sel

\* The bytes of the buffer from C index a up to but not including b.
Bytes(a, b) == SubSeq(buf, a + 1, b)

\* Of a request "c|key|..." in the buffer the parser takes exactly key,
\* whatever follows: parse_client_msg_key reads nothing past the key's bar.
\* The data is everything after that bar up to the first NUL (or the buffer's last
\* byte), so a later bar and all that follows it are part of the value; without such
\* a byte there is no data.  Key and data are disjoint and lose only the bar.
KeyAndDataAreTheRest ==
  kind = "request" => \A e \in 3..(Len(buf) - 1) :
    (buf[e + 1] = BAR /\ ~Contains(Bytes(2, e), BAR) /\ ~Contains(Bytes(0, e), NUL))
      => LET text == CStr(Front(buf))
             rest == SubSeq(text, e + 2, Len(text))
             data == parse_client_msg_data(buf)
         IN  /\ parse_client_msg_key(buf) = Bytes(2, e)
             /\ IF rest = <<>> THEN data = NULL ELSE data # NULL /\ CStr(data) = rest

-----------------------------------------------------------------------------
\* Files.  MCBeginnings: nothing, the byte order mark, a value, a section with a
\* value, and a line that just fills the buffer.
MCBeginnings ==
  {<<>>, <<"BOM">>, <<"a", "=", "a", "NL">>, <<"[", "a", "]", "NL", "b", "=", "NL">>,
   <<"[", "a", "a", "a", "SP", "a">>}

MCPieces ==
  {<<"NL">>, <<"SP">>, <<"[">>, <<"]">>, <<":">>, <<";">>, <<"a">>, <<"b", "=">>, <<"[", "a", "]", "NL">>}

\* fgets gives a line, or LineLen characters of it: where such pieces start.
BeginOfLine(p) == 1 + Max({0} \cup {i \in 1..(p - 1) : buf[i] = "NL"})
Starts == {p \in 1..Len(buf) : (p - BeginOfLine(p)) % LineLen = 0}
EndOf(p) == Min({i \in p..Len(buf) : buf[i] = "NL"} \cup {Len(buf), p + LineLen - 1})

\* The text of a piece, without the space around it and the byte order mark.
Inked(p) == {i \in p..EndOf(p) : ~Ini!isspace(buf[i]) /\ ~(i = 1 /\ buf[i] = "BOM")}
Text(p) == IF Inked(p) = {} THEN <<>> ELSE SubSeq(buf, Min(Inked(p)), Max(Inked(p)))

\* A semicolon after a space.
IsComment(s, i) == s[i] = ";" /\ i > 1 /\ Ini!isspace(s[i - 1])

\* The longest beginning of s without a comment and without one of the characters.
Clear(s, C) ==
  LET P == {n \in 0..Len(s) : \A i \in 1..n : s[i] \notin C /\ ~IsComment(s, i)}
  IN  SubSeq(s, 1, Max(P))

\* The beginning is ended by one of the characters.
Ends(s, C) == LET n == Len(Clear(s, C)) IN n < Len(s) /\ s[n + 1] \in C

Trimmed(s) ==
  LET P == {i \in 1..Len(s) : ~Ini!isspace(s[i])} IN IF P = {} THEN <<>> ELSE SubSeq(s, Min(P), Max(P))

Short(s) == SubSeq(s, 1, Min({NameLen, Len(s)}))

\* What ends a name.
NameEnds == {"=", ":"}

Blank(p) == Text(p) = <<>> \/ Text(p)[1] \in {";", "#"}
IsHeader(p) == ~Blank(p) /\ Text(p)[1] = "[" /\ Ends(Tail(Text(p)), {"]"})
IsPair(p) == ~Blank(p) /\ Text(p)[1] # "[" /\ Ends(Text(p), NameEnds)
NameOf(p) == Trimmed(Clear(Text(p), NameEnds))
ValueOf(p) ==
  LET t == Text(p)
      rest == SubSeq(t, Len(Clear(t, NameEnds)) + 2, Len(t))
  IN  Trimmed(Clear(rest, {}))

\* The name whose value an indented piece goes on with: that of the pair before it
\* in the same section.
Owner[p \in 1..Len(buf)] ==
  LET q == Max({r \in Starts : r < p})
      o == Owner[q]
  IN  IF p = 1 THEN <<>>
      ELSE IF Blank(q) \/ (Ini!isspace(buf[q]) /\ o # <<>>) THEN o
      ELSE IF IsHeader(q) THEN <<>>
      ELSE IF IsPair(q) THEN Short(NameOf(q)) ELSE o

GoesOn(p) == ~Blank(p) /\ Ini!isspace(buf[p]) /\ Owner[p] # <<>>

SectionOf(p) ==
  LET H == {q \in Starts : q < p /\ IsHeader(q) /\ ~GoesOn(q)}
  IN  IF H = {} THEN <<>> ELSE Short(Clear(Tail(Text(Max(H))), {"]"}))

Settings == {p \in Starts : GoesOn(p) \/ IsPair(p)}

Setting(p) ==
  <<SectionOf(p), IF GoesOn(p) THEN Owner[p] ELSE NameOf(p), IF GoesOn(p) THEN Text(p) ELSE ValueOf(p)>>

\* The handler is called for the settings of the file, in order, each with the
\* section it stands under; blank lines and comments never part a value from its
\* continuation, a section does, and a line longer than the buffer counts as
\* several lines, whose later ones are settings, sections or errors of their own.
\* What config.c's handler keeps of a setting is the text of its last line, so that a
\* continuation replaces the value it continues.
SettingsAreTheFile ==
  kind = "file" =>
    LET calls == Ini!ini_parse_stream(buf).calls
        at == [p \in Settings |-> Setting(p)]
    IN  /\ Len(calls) = Cardinality(Settings)
        /\ \A p \in Settings : calls[Cardinality({q \in Settings : q <= p})] = at[p]
        /\ \A s, n \in {<<"a">>, <<"b">>} :
             LET P == {p \in Settings : at[p][1] = s /\ at[p][2] = n}
             IN  Ini!handler(calls, s, n, NULL) = IF P = {} THEN NULL ELSE at[Max(P)][3]

\* ini.h: "returns 0 on success, line number of first error on parse error", where
\* a long line counts as several; init_config accepts such a file.
ErrorIsFirstBadLine ==
  kind = "file" =>
    LET bad == {p \in Starts : ~Blank(p) /\ ~GoesOn(p) /\ ~IsHeader(p) /\ ~IsPair(p)}
    IN  Ini!ini_parse_stream(buf).error =
          IF bad = {} THEN 0 ELSE Cardinality({p \in Starts : p <= Min(bad)})

=============================================================================
