-------------------------------- MODULE Ini --------------------------------
(***************************************************************************)
(* ini.c as this repository compiles it, and config.c: how the             *)
(* configuration file becomes settings.                                    *)
(*                                                                         *)
(* A file is a sequence of characters.  fgets cuts it into pieces of at    *)
(* most LineLen characters, each of which is parsed as a line; what is     *)
(* carried from one to the next is the state below.                        *)
(***************************************************************************)
EXTENDS Integers, Sequences, SequencesExt, FiniteSetsExt

CONSTANTS LineLen,   \* INI_MAX_LINE - 1
          NameLen    \* MAX_SECTION - 1, MAX_NAME - 1

NL == "NL"
BOM == "BOM"         \* its three bytes

isspace(c) == c \in {"SP", NL}
INI_START_COMMENT_PREFIXES == {";", "#"}
INI_INLINE_COMMENT_PREFIXES == {";"}

lskip(s) ==
  LET P == {i \in 1..Len(s) : ~isspace(s[i])} IN IF P = {} THEN <<>> ELSE SubSeq(s, Min(P), Len(s))

rstrip(s) ==
  LET P == {i \in 1..Len(s) : ~isspace(s[i])} IN IF P = {} THEN <<>> ELSE SubSeq(s, 1, Max(P))

strncpy0(s) == SubSeq(s, 1, Min({NameLen, Len(s)}))

\* Mutant: a comment needs no space before it.
find_chars_or_comment_NoSpace(s, chars) ==
  Min({i \in 1..Len(s) : s[i] \in chars \cup INI_INLINE_COMMENT_PREFIXES} \cup {Len(s) + 1})

\* The position of the first of the characters or of an inline comment, which
\* follows a space, or the one after the end.
find_chars_or_comment(s, chars) ==
  Min({i \in 1..Len(s) : \/ s[i] \in chars
                         \/ s[i] \in INI_INLINE_COMMENT_PREFIXES /\ i > 1 /\ isspace(s[i - 1])}
      \cup {Len(s) + 1})

\* The string before and after a position.
Before(s, i) == SubSeq(s, 1, i - 1)
After(s, i) == SubSeq(s, i + 1, Len(s))

Init0 == [lineno |-> 0, section |-> <<>>, prev_name |-> <<>>, error |-> 0, calls |-> <<>>]

Call(st, name, value) == [st EXCEPT !.calls = Append(@, <<st.section, name, value>>)]

\* Mutant: the number of the last bad line.
Bad_Last(st) == [st EXCEPT !.error = st.lineno]

Bad(st) == [st EXCEPT !.error = IF @ = 0 THEN st.lineno ELSE @]

\* Mutant: a new section does not end the value before it.
NewSection_KeepsName(st, s) == [st EXCEPT !.section = strncpy0(s)]

NewSection(st, s) == [st EXCEPT !.section = strncpy0(s), !.prev_name = <<>>]

\* "[section]"
SectionLine(st, start) ==
  LET s == Tail(start)
      end == find_chars_or_comment(s, {"]"})
  IN  IF end <= Len(s) /\ s[end] = "]" THEN NewSection(st, Before(s, end)) ELSE Bad(st)

\* "name = value ; comment"
PairLine(st, start) ==
  LET end == find_chars_or_comment(start, {"=", ":"})
      name == rstrip(Before(start, end))
      rest == After(start, end)
      value == rstrip(lskip(Before(rest, find_chars_or_comment(rest, {}))))
  IN  IF end <= Len(start) /\ start[end] \in {"=", ":"}
      THEN Call([st EXCEPT !.prev_name = strncpy0(name)], name, value)
      ELSE Bad(st)

\* One turn of the loop of ini_parse_stream.
Line(st0, line) ==
  LET st == [st0 EXCEPT !.lineno = @ + 1]
      text == IF st.lineno = 1 /\ line[1] = BOM THEN Tail(line) ELSE line
      start == lskip(rstrip(text))
  IN  IF start = <<>> \/ start[1] \in INI_START_COMMENT_PREFIXES THEN st
      ELSE IF st.prev_name # <<>> /\ isspace(line[1]) THEN Call(st, st.prev_name, start)
      ELSE IF start[1] = "[" THEN SectionLine(st, start)
      ELSE PairLine(st, start)

\* fgets: up to a newline, the size of the buffer, or the end of the file.
Fgets(file) == SubSeq(file, 1, Min({i \in 1..Len(file) : file[i] = NL} \cup {LineLen, Len(file)}))

\* ini_parse_stream with fgets: lines[n] is the state after n pieces and what is left.
ini_parse_stream(file) ==
  LET turn[n \in 0..Len(file)] ==
        IF n = 0 THEN [st |-> Init0, left |-> file]
        ELSE LET t == turn[n - 1] IN
             IF t.left = <<>> THEN t
             ELSE LET line == Fgets(t.left)
                  IN  [st |-> Line(t.st, line), left |-> SubSeq(t.left, Len(line) + 1, Len(t.left))]
  IN  turn[Len(file)].st

\* Mutant: the first value stays.
handler_First(calls, section, name, default) ==
  LET P == {i \in 1..Len(calls) : calls[i][1] = section /\ calls[i][2] = name}
  IN  IF P = {} THEN default ELSE calls[Min(P)][3]

\* handler: the value of the last call for a section and a name, or the default.
handler(calls, section, name, default) ==
  LET P == {i \in 1..Len(calls) : calls[i][1] = section /\ calls[i][2] = name}
  IN  IF P = {} THEN default ELSE calls[Max(P)][3]
=============================================================================
