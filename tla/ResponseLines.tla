---------------------------- MODULE ResponseLines ---------------------------
(***************************************************************************)
(* How DefaultCecHandler reads a value from a line of nyx: after a colon,  *)
(* between quotation marks, or after a word of known length.  None of the  *)
(* three conversions tests the shape of the line first, and substr throws  *)
(* std::out_of_range beyond its end; nobody catches that on the dispatch   *)
(* thread.  A line is any sequence of characters: nyx writes one character *)
(* after the other, and what holds, holds of each line on the way.         *)
(*                                                                         *)
(* Positions are those of C++, from 0, and unsigned: npos is -1.           *)
(***************************************************************************)
EXTENDS Integers, Sequences, SequencesExt

CONSTANTS
  Chars,     \* characters of a line
  Word,      \* "CEC version", or "logical address"
  SizeMod,   \* number of values of size_t
  MaxLen     \* bound: characters in a line

ASSUME LinesAssumption ==
  /\ {":", " ", "'"} \subseteq Chars
  /\ Word \in Seq(Chars \ {":", "'"}) /\ Word # <<>>
  /\ MaxLen \in Nat /\ SizeMod \in Nat /\ MaxLen + 1 < SizeMod

VARIABLE line

-----------------------------------------------------------------------------
(* std::string.                                                            *)

npos == SizeMod - 1
Unsigned(n) == n % SizeMod

\* The positions of s, from a position on, whose character satisfies a test.
From(s, pos, Test(_)) == {i \in 0..(Len(s) - 1) : i >= pos /\ Test(s[i + 1])}

FirstOf(positions) ==
  IF positions = {} THEN npos ELSE CHOOSE i \in positions : \A j \in positions : i <= j
LastOf(positions) ==
  IF positions = {} THEN npos ELSE CHOOSE i \in positions : \A j \in positions : j <= i

find_first_of(s, c) == FirstOf(From(s, 0, LAMBDA x : x = c))
find_last_of(s, c) == LastOf(From(s, 0, LAMBDA x : x = c))
find_first_not_of(s, c, pos) == FirstOf(From(s, pos, LAMBDA x : x # c))

Throws(s, pos) == pos > Len(s)
substr(s, pos, n) ==
  SubSeq(s, pos + 1, IF n > Len(s) - pos THEN Len(s) ELSE pos + n)

-----------------------------------------------------------------------------
(* The conversions.                                                        *)

GetValueAfterLast(str) ==
  LET pos == find_last_of(str, ":")
      actualPos == find_first_not_of(str, " ", pos + 1)
  IN IF pos = npos \/ actualPos = npos THEN <<>> ELSE substr(str, actualPos, npos)

GetValue(str) ==
  LET pos == find_first_of(str, ":")
      actualPos == find_first_not_of(str, " ", pos + 1)
  IN IF pos = npos \/ actualPos = npos THEN <<>> ELSE substr(str, actualPos, npos)

\* The value of "name" and "language": what is quoted, or would be.
StartPos(str) ==
  IF find_first_of(str, "'") = npos THEN 0 ELSE find_first_of(str, "'") + 1

EndPosRelative(str) ==
  LET rest == substr(str, StartPos(str), npos)
  IN IF find_last_of(rest, "'") = npos THEN Unsigned(Len(str) - 1)
     ELSE find_last_of(rest, "'")

EndPos(str) ==
  LET rest == substr(str, StartPos(str), npos)
  IN IF find_last_of(rest, "'") = npos THEN Unsigned(Len(str) - 1)
     ELSE find_last_of(str, "'")

Quoted(str) == substr(str, StartPos(str), Unsigned(EndPos(str) - StartPos(str)))

\* The value of "version" and "logicalAddress": the word and one character
\* more are cut off, wherever in the line the word was found.
AfterPosTooFar == Len(Word) + 2
AfterPos == Len(Word) + 1
AfterWord(str) == substr(str, AfterPos, npos)

\* find(Word) # npos
HasWord(str) ==
  \E i \in 0..(Len(str) - Len(Word)) : SubSeq(str, i + 1, i + Len(Word)) = Word

-----------------------------------------------------------------------------
Init == line = <<>>

\* nyx writes a line.
Write == \E c \in Chars : Len(line) < MaxLen /\ line' = Append(line, c)

Spec == Init /\ [][Write]_line

-----------------------------------------------------------------------------
(* Properties.                                                             *)

Free(s, c) == \A i \in DOMAIN s : s[i] # c
Before(s, i) == SubSeq(s, 1, i)
After(s, i) == SubSeq(s, i + 1, Len(s))

\* A value is what follows the first colon, all of it, without the spaces
\* before it: putting them back gives the line.  A colon in the value, as in a
\* name, does not cut it (src/handlers/DefaultCecHandler.cpp lines 78-86).
ValueIsTheRest ==
  LET v == GetValue(line)
      head == Before(line, Len(line) - Len(v))
  IN /\ v # <<>> => /\ IsSuffix(v, line)
                    /\ v[1] # " "
                    /\ \E i \in DOMAIN head : /\ head[i] = ":"
                                              /\ Free(Before(head, i - 1), ":")
                                              /\ \A j \in DOMAIN head : j > i => head[j] = " "
     /\ v = <<>> => \A i \in DOMAIN line :
                      line[i] = ":" => \A j \in DOMAIN line : j > i => line[j] = " "

\* What is quoted is read whole: from the first mark to the last one, marks
\* inside included, and from the first mark on if there is one only, less a
\* last character; the unsigned subtractions of lines 112 to 129 may wrap, and
\* still no character before the first mark or after the last one gets in.
QuotedIsBetweenMarks ==
  LET marks == {i \in DOMAIN line : line[i] = "'"}
      a == FirstOf(marks)
      z == LastOf(marks)
  IN /\ a < z /\ marks # {} => line = Before(line, a) \o Quoted(line) \o After(line, z - 1)
     /\ marks = {a} => IsPrefix(Quoted(line), After(line, a))
     /\ marks = {} => Quoted(line) = Before(line, Len(line) - 1)

\* The only line on which a conversion throws, and ends the process, is the
\* bare word (lines 105 and 560): a line that has the word and one character
\* more, before or after it, is safe.
ThrowsOnBareWord ==
  /\ HasWord(line) => (Throws(line, AfterPos) <=> line = Word)
  /\ ~Throws(line, StartPos(line))
=============================================================================
