------------------------------- MODULE PathText -------------------------------
(* The text of a BIP32 path (hex_len, format_bip32, format_bip32_with_line_breaks *)
(* of ui_common.c): for each of three lines the path is gone through again and    *)
(* the elements that fall on the line are printed behind each other into the      *)
(* screen's buffer; the end of a line becomes a line break when there is another. *)
EXTENDS ScreenBuffer, FiniteSets

CONSTANTS
  Paths,             \* paths of five elements, without their hardened bits
  LineLength         \* BIP32_LINE_LENGTH

\* The largest element without its hardened bit.
MaxElement == 2^30 - 1 + 2^30

\* Any two elements fit on a line, which is why three lines are enough for five, and
\* three lines fit in the buffer.
ASSUME PathAssumption ==
  /\ Paths \subseteq [1..5 -> 0..MaxElement]
  /\ LineLength \in Nat /\ LineLength >= 20
  /\ Room >= 3 * (LineLength + 1)

VARIABLES
  b32,               \* the path
  linenr, i,         \* the line being printed and the element gone to
  lines, curlen,     \* the line of that element and what is on it before
  ofs, out_max_len,  \* within the line: characters printed, room left
  start, room,       \* where the line starts, room from there on
  last_zero,         \* end of the line before, 0 for none
  out,               \* the buffer
  done

lineVars == <<i, lines, curlen, ofs, out_max_len>>
pathVars == <<b32, linenr, lineVars, start, room, last_zero, out, done>>

\* The characters are the hexadecimal digits and these.
Apostrophe == 16
Slash      == 17
Newline    == 18
Zero       == 19

\* hex_len: the number of digits without the leading zeros, at least one.
HexLen(v) == IF v = 0 THEN 1 ELSE 8 - Cardinality({ k \in 1..7 : v \div Power(16)[k] = 0 })

\* %x
Hex(v) == Unpadded(v, 16, 8)

\* What snprintf is given for element e, and the length counted for it.
Element(e) == Hex(b32[e]) \o (IF e # 5 THEN <<Apostrophe, Slash>> ELSE <<Apostrophe>>)

\* Mutant of ElementLen: the last element has a slash, too.
ElementLenSlash(e) == HexLen(b32[e]) + 2

ElementLen(e) == HexLen(b32[e]) + (IF e # 5 THEN 2 ELSE 1)

\* snprintf(&mem[at], n, ...) of s.
Printed(mem, at, n, s) ==
  LET written == IF Len(s) < n THEN Len(s) ELSE n - 1
  IN  [p \in DOMAIN mem |->
         CASE p \in at..(at + written - 1) -> s[p - at + 1]
           [] p = at + written             -> Zero
           [] OTHER                        -> mem[p]]

PathInit ==
  /\ b32 \in Paths
  /\ linenr = 0 /\ start = 0 /\ room = Room /\ last_zero = 0
  /\ i = 1 /\ lines = 0 /\ curlen = 0 /\ ofs = 0 /\ out_max_len = Room
  /\ out = [p \in 0..(Room - 1) |-> Zero]
  /\ done = FALSE

\* Mutant of Breaks: a line is full when it is longer than it may be.
BreaksLate(e) == curlen > LineLength

Breaks(e) == curlen + ElementLen(e) > LineLength

\* One turn of the loop of format_bip32.
GoToElement ==
  LET line == IF Breaks(i) THEN lines + 1 ELSE lines
  IN  /\ ~done /\ i <= 5
      /\ lines' = line
      /\ curlen' = (IF Breaks(i) THEN 0 ELSE curlen) + ElementLen(i)
      /\ IF line = linenr
         THEN /\ out' = Printed(out, start + ofs, out_max_len, Element(i))
              /\ ofs' = ofs + ElementLen(i)
              /\ out_max_len' = out_max_len - ElementLen(i)
         ELSE UNCHANGED <<out, ofs, out_max_len>>
      /\ i' = i + 1
      /\ UNCHANGED <<b32, linenr, start, room, last_zero, done>>

\* Mutant of Joined: the line before keeps its end.
JoinedNot(mem) == mem

\* A line behind another turns the end of that one into a line break.
Joined(mem) == IF last_zero # 0 THEN [mem EXCEPT ![last_zero] = Newline] ELSE mem

\* format_bip32 has printed a line: go on behind it, unless it was the third.
EndLine ==
  /\ ~done /\ i > 5 /\ ofs # 0
  /\ start' = start + ofs + 1
  /\ room' = room - ofs - 1
  /\ last_zero' = start + ofs
  /\ out' = [Joined(out) EXCEPT ![start'] = Zero]
  /\ linenr' = linenr + 1
  /\ i' = 1 /\ lines' = 0 /\ curlen' = 0 /\ ofs' = 0 /\ out_max_len' = room'
  /\ done' = (linenr' = 3)
  /\ UNCHANGED b32

\* It has printed nothing: there are no more lines.
NoMoreLines ==
  /\ ~done /\ i > 5 /\ ofs = 0
  /\ out' = [out EXCEPT ![start] = Zero]
  /\ done' = TRUE
  /\ UNCHANGED <<b32, linenr, lineVars, start, room, last_zero>>

PathNext == GoToElement \/ EndLine \/ NoMoreLines

-----------------------------------------------------------------------------

\* What the page displays: the buffer up to its first terminator.
TextLength == CHOOSE n \in 0..(Room - 1) : out[n] = Zero /\ \A p \in 0..(n - 1) : out[p] # Zero
Text       == [p \in 1..TextLength |-> out[p - 1]]

\* The five elements in order, with these between them.
Elements(br) ==
  Element(1) \o br[1] \o Element(2) \o br[2] \o Element(3) \o br[3]
    \o Element(4) \o br[4] \o Element(5)

\* Whoever reads the page reads the path: all five elements in order, none of them
\* broken, and nothing but line breaks between them.
PathReadsBack ==
  done => \E br \in [1..4 -> {<<>>, <<Newline>>}] : Text = Elements(br)

\* No line is longer than the screen shows, the three lines are enough, and no line
\* is empty.
LinesFit ==
  done =>
    LET ends == { 0, TextLength + 1 } \cup { p \in 1..TextLength : Text[p] = Newline }
    IN  /\ Cardinality(ends) <= 4
        /\ \A p, q \in ends :
             p < q /\ (\A r \in ends : r <= p \/ q <= r) => q - p - 1 \in 1..LineLength

\* The lengths that are counted are those that are printed, and the room handed to
\* snprintf is exactly what is left of the buffer and never nothing: the unsigned
\* count does not wrap around.
RoomIsCounted ==
  /\ start + room = Room
  /\ ~done => /\ out_max_len = Room - (start + ofs) /\ out_max_len > 0
              /\ \A p \in start..(start + ofs - 1) : out[p] # Zero
              /\ out[start + ofs] = Zero
================================================================================
