----------------------------- MODULE MsgParser -----------------------------
(***************************************************************************)
(* msg_parser.c and str_slice of add_lib.c: how a request is cut out of    *)
(* the read buffer.                                                        *)
(*                                                                         *)
(* A block of memory is a sequence of bytes; byte i of the C code is       *)
(* element i + 1.  A byte is an arbitrary value; the parser tells apart    *)
(* the command digits, the bar and the terminating NUL.  The buffer is the *)
(* whole block alloc_buffer returned, since that is what buf->len says:    *)
(* the bytes read from the socket, then whatever the block held before.    *)
(***************************************************************************)
EXTENDS Integers, Sequences

CONSTANT NULL       \* the NULL pointer

NUL == "NUL"
BAR == "|"

CMD_SET == 1
CMD_GET == 2
CMD_DELETE == 3

\* The least element of a non-empty set of naturals.
First(S) == CHOOSE i \in S : \A j \in S : i <= j

\* strlen of the block; a block without a NUL is taken to end where it ends.
strlen(block) ==
  LET nuls == {i \in 0..(Len(block) - 1) : block[i + 1] = NUL}
  IN  IF nuls = {} THEN Len(block) ELSE First(nuls)

\* The C string a block holds.
CStr(block) == SubSeq(block, 1, strlen(block))

\* calloc(n) and strncpy(buffer, str + from, n): the bytes up to the end of
\* the string, then NULs, and no terminator when all n bytes are taken.
CopyOut(str, from, n) ==
  [i \in 1..n |-> IF from + i <= strlen(str) THEN str[from + i] ELSE NUL]

\* Mutant: the slice stops one byte early.
str_slice_Short(str, slice_from, slice_to) ==
  IF slice_from >= 0 /\ slice_to > slice_from /\ slice_from <= strlen(str) - 1
  THEN CopyOut(str, slice_from, slice_to - slice_from - 1) ELSE NULL

\* str_slice: positive indexes count from the start, negative from the end.
str_slice(str, slice_from, slice_to) ==
  LET str_len == strlen(str)
      from == IF -slice_from > str_len THEN -str_len ELSE slice_from
  IN  IF str_len = 0 THEN NULL
      ELSE IF slice_to < 0 /\ slice_from < slice_to
           THEN IF -slice_to > str_len - 1 THEN NULL
                ELSE CopyOut(str, str_len + from, slice_to - from)
      ELSE IF slice_from >= 0 /\ slice_to > slice_from
           THEN IF slice_from > str_len - 1 THEN NULL
                ELSE CopyOut(str, slice_from, slice_to - slice_from)
      ELSE NULL

parse_client_msg_cmd(buf) ==
  IF Len(buf) = 0 THEN 0
  ELSE CASE buf[1] = "1" -> CMD_SET
         [] buf[1] = "2" -> CMD_GET
         [] buf[1] = "3" -> CMD_DELETE
         [] OTHER -> 0

check_msg_valid(buf) == Len(buf) >= 3

\* Where the bars after the command's own are, as C indexes.
KeyBars(buf) == {i \in 2..(Len(buf) - 1) : buf[i + 1] = BAR}

\* Mutant: the scan starts at the bar after the command.
get_end_of_key_FromOne(buf) == First({i \in 1..(Len(buf) - 1) : buf[i + 1] = BAR} \cup {Len(buf)})

\* The first bar from index 2 on, or the length of the whole buffer.
get_end_of_key(buf) ==
  IF ~check_msg_valid(buf) THEN 0
  ELSE IF KeyBars(buf) = {} THEN Len(buf) ELSE First(KeyBars(buf))

parse_client_msg_key(buf) ==
  IF ~check_msg_valid(buf) THEN NULL
  ELSE str_slice(buf, 2, get_end_of_key(buf))

\* Mutant: the bar before the data is taken into it.
parse_client_msg_data_WithBar(buf) ==
  IF ~check_msg_valid(buf) \/ Len(buf) - get_end_of_key(buf) < 1 THEN NULL
  ELSE str_slice(buf, get_end_of_key(buf), Len(buf) - 1)

\* All that follows the bar, up to the end of the string in the buffer.
parse_client_msg_data(buf) ==
  IF ~check_msg_valid(buf) \/ Len(buf) - get_end_of_key(buf) < 1 THEN NULL
  ELSE str_slice(buf, get_end_of_key(buf) + 1, Len(buf) - 1)

parse_client_msg(buf) ==
  [cmd  |-> parse_client_msg_cmd(buf),
   key  |-> parse_client_msg_key(buf),
   data |-> parse_client_msg_data(buf)]

=============================================================================
