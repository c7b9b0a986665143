------------------------ MODULE ResponseLinesProofs -------------------------
(***************************************************************************)
(* Proofs about ResponseLines, for any characters, word and length of a    *)
(* line that fits size_t: what is read from a line, and which lines throw. *)
(***************************************************************************)
EXTENDS ResponseLines, SequenceTheorems, WellFoundedInduction, TLAPS

\* A line is a sequence of characters that fits.
LinesInv == line \in Seq(Chars) /\ Len(line) <= MaxLen

LEMMA LinesInvariant == Spec => []LinesInv
<1>1. Init => LinesInv
  <2> SUFFICES ASSUME line = <<>> PROVE LinesInv
    BY DEF Init
  <2>1. line \in Seq(Chars) /\ Len(line) = 0
    OBVIOUS
  <2>2. MaxLen \in Nat
    BY LinesAssumption DEF LinesAssumption
  <2> QED
    BY <2>1, <2>2 DEF LinesInv
<1>2. LinesInv /\ [Write]_line => LinesInv'
  <2> SUFFICES ASSUME LinesInv, NEW c \in Chars, Len(line) < MaxLen, line' = Append(line, c)
               PROVE  LinesInv'
    <3>1. CASE UNCHANGED line
      BY <3>1 DEF LinesInv
    <3>2. CASE Write
      BY <3>2 DEF Write
    <3> QED
      BY <3>1, <3>2
  <2>1. line' \in Seq(Chars) /\ Len(line') = Len(line) + 1
    BY AppendProperties DEF LinesInv
  <2>2. Len(line) \in Nat
    BY LenProperties DEF LinesInv
  <2>3. MaxLen \in Nat
    BY LinesAssumption DEF LinesAssumption
  <2> QED
    BY <2>1, <2>2, <2>3 DEF LinesInv
<1> QED
  BY <1>1, <1>2, PTL DEF Spec

\* A set of numbers that is not empty has a first one.
LEMMA LeastExists ==
  ASSUME NEW P \in SUBSET Nat, P # {}
  PROVE  \E i \in P : \A j \in P : i <= j
<1>1. PICK i \in P : \A j \in P : <<j, i>> \notin OpToRel(<, Nat)
  BY NatLessThanWellFounded, WFMin
<1>2. \A j \in P : ~(j < i)
  BY <1>1 DEF OpToRel
<1> QED
  BY <1>2

\* FirstOf gives an element of the set.
LEMMA FirstOfElement ==
  ASSUME NEW P \in SUBSET Nat, P # {}
  PROVE  FirstOf(P) \in P
BY LeastExists DEF FirstOf

\* A bare word is too short for what substr is asked, and no line that has the
\* word is shorter.
LEMMA BareWord ==
  ASSUME LinesInv, HasWord(line)
  PROVE  Throws(line, AfterPos) <=> line = Word
<1>1. Len(line) \in Nat /\ Len(Word) \in Nat
  BY LinesAssumption, LenProperties DEF LinesAssumption, LinesInv
<1>2. PICK i \in 0..(Len(line) - Len(Word)) : SubSeq(line, i + 1, i + Len(Word)) = Word
  BY DEF HasWord
<1>3. Len(Word) <= Len(line)
  BY <1>1, <1>2
<1>4. ASSUME Throws(line, AfterPos) PROVE line = Word
  <2>1. Len(line) = Len(Word)
    BY <1>1, <1>3, <1>4 DEF Throws, AfterPos
  <2>2. i = 0
    BY <1>1, <1>2, <2>1
  <2>3. SubSeq(line, 1, Len(line)) = Word
    BY <1>1, <1>2, <2>1, <2>2
  <2>4. SubSeq(line, 1, Len(line)) = line
    BY SubSeqFull DEF LinesInv
  <2> QED
    BY <2>3, <2>4
<1>5. ASSUME line = Word PROVE Throws(line, AfterPos)
  BY <1>1, <1>5 DEF Throws, AfterPos
<1> QED
  BY <1>4, <1>5

\* What follows the first quotation mark begins within the line, or at its end.
LEMMA StartWithin ==
  ASSUME LinesInv
  PROVE  ~Throws(line, StartPos(line))
<1> DEFINE marks == From(line, 0, LAMBDA x : x = "'")
<1>1. Len(line) \in Nat
  BY LenProperties DEF LinesInv
<1>2. marks \in SUBSET Nat /\ \A i \in marks : i + 1 <= Len(line)
  BY <1>1 DEF From
<1>3. find_first_of(line, "'") = FirstOf(marks)
  BY DEF find_first_of
<1> HIDE DEF marks
<1>4. CASE marks = {}
  <2>1. FirstOf(marks) = npos
    BY <1>4 DEF FirstOf
  <2>2. StartPos(line) = 0
    BY <1>3, <2>1 DEF StartPos
  <2> QED
    BY <1>1, <2>2 DEF Throws
<1>5. CASE marks # {}
  <2>1. FirstOf(marks) \in marks
    BY <1>2, <1>5, FirstOfElement
  <2>2. FirstOf(marks) \in Nat /\ FirstOf(marks) + 1 <= Len(line)
    BY <1>2, <2>1
  <2>3. StartPos(line) = 0 \/ StartPos(line) = FirstOf(marks) + 1
    BY <1>3, Zenon DEF StartPos
  <2>4. ~(StartPos(line) > Len(line))
    BY <1>1, <2>2, <2>3
  <2> QED
    BY <2>4 DEF Throws
<1> QED
  BY <1>4, <1>5

-----------------------------------------------------------------------------
\* On a line of any length, the only conversion that throws is the one that
\* cuts off a word and a character more, and only on the bare word
\* (src/handlers/DefaultCecHandler.cpp lines 103-133 and 558-561).
THEOREM OnlyBareWordThrows == Spec => []ThrowsOnBareWord
<1>1. LinesInv => ThrowsOnBareWord
  BY BareWord, StartWithin DEF ThrowsOnBareWord
<1> QED
  BY <1>1, LinesInvariant, PTL

-----------------------------------------------------------------------------
(* Positions.                                                              *)

LEMMA Sizes ==
  /\ MaxLen \in Nat /\ SizeMod \in Nat /\ npos \in Nat /\ MaxLen < npos
  /\ LinesInv => Len(line) \in Nat /\ Len(line) < npos /\ DOMAIN line = 1..Len(line)
<1>1. MaxLen \in Nat /\ SizeMod \in Nat /\ MaxLen + 1 < SizeMod
  BY LinesAssumption DEF LinesAssumption
<1>2. npos \in Nat /\ MaxLen < npos
  BY <1>1 DEF npos
<1>3. LinesInv => Len(line) \in Nat /\ Len(line) < npos /\ DOMAIN line = 1..Len(line)
  BY <1>1, <1>2, LenProperties DEF LinesInv
<1> QED
  BY <1>1, <1>2, <1>3

\* Unsigned arithmetic is the usual one, as long as nothing wraps; -1 is npos.
LEMMA UnsignedIs ==
  /\ \A n \in Nat : n < SizeMod => Unsigned(n) = n
  /\ Unsigned(-1) = npos
<1>1. SizeMod \in Nat /\ SizeMod > 1
  BY Sizes DEF npos
<1>2. \A n \in Nat : n < SizeMod => n % SizeMod = n
  BY <1>1
<1>3. (-1) % SizeMod = SizeMod - 1
  BY <1>1
<1> QED
  BY <1>2, <1>3 DEF Unsigned, npos

LEMMA FirstOfIs ==
  ASSUME NEW P \in SUBSET Nat, NEW x \in P, \A j \in P : x <= j
  PROVE  FirstOf(P) = x
<1>1. \A y \in P : (\A j \in P : y <= j) => y = x
  OBVIOUS
<1> QED
  BY <1>1 DEF FirstOf

LEMMA LastOfIs ==
  ASSUME NEW P \in SUBSET Nat, NEW x \in P, \A j \in P : j <= x
  PROVE  LastOf(P) = x
<1>1. \A y \in P : (\A j \in P : j <= y) => y = x
  OBVIOUS
<1> QED
  BY <1>1 DEF LastOf

\* A set of numbers that is bounded and not empty has a last one.
LEMMA GreatestExists ==
  ASSUME NEW N \in Nat, NEW P \in SUBSET (0..N), P # {}
  PROVE  \E i \in P : \A j \in P : j <= i
<1> DEFINE Q == {N - i : i \in P}
<1>1. Q \in SUBSET Nat /\ Q # {}
  <2>1. \A i \in P : N - i \in Nat
    OBVIOUS
  <2>2. PICK i \in P : TRUE
    OBVIOUS
  <2>3. N - i \in Q
    OBVIOUS
  <2> QED
    BY <2>1, <2>3
<1>2. PICK q \in Q : \A r \in Q : q <= r
  BY <1>1, LeastExists
<1>3. PICK i \in P : q = N - i
  BY <1>2
<1>4. \A j \in P : N - i <= N - j
  BY <1>2, <1>3
<1> QED
  BY <1>4

\* The positions that the searches look at, in terms of indices.
LEMMA Searches ==
  ASSUME NEW s \in Seq(Chars), NEW c
  PROVE  /\ find_first_of(s, c) = FirstOf({i \in 0..(Len(s) - 1) : s[i + 1] = c})
         /\ find_last_of(s, c) = LastOf({i \in 0..(Len(s) - 1) : s[i + 1] = c})
<1>1. {i \in 0..(Len(s) - 1) : i >= 0 /\ s[i + 1] = c} = {i \in 0..(Len(s) - 1) : s[i + 1] = c}
  BY LenProperties
<1> QED
  BY <1>1, Zenon DEF find_first_of, find_last_of, From

\* The search finds the first index of a character, less one, or nothing.
LEMMA FirstFound ==
  ASSUME NEW s \in Seq(Chars), NEW c, NEW i \in 1..Len(s), s[i] = c,
         \A j \in 1..(i - 1) : s[j] # c
  PROVE  find_first_of(s, c) = i - 1
<1> DEFINE P == {k \in 0..(Len(s) - 1) : s[k + 1] = c}
<1>1. Len(s) \in Nat
  BY LenProperties
<1>2. i - 1 \in P
  BY <1>1
<1>3. ASSUME NEW k \in P PROVE i - 1 <= k
  <2>1. k + 1 \in 1..Len(s) /\ s[k + 1] = c
    BY <1>1, <1>3
  <2>2. k + 1 \notin 1..(i - 1)
    BY <2>1
  <2> QED
    BY <1>1, <2>1, <2>2
<1>4. P \in SUBSET Nat
  BY <1>1
<1>5. find_first_of(s, c) = FirstOf(P)
  BY Searches
<1> HIDE DEF P
<1> QED
  BY <1>2, <1>3, <1>4, <1>5, FirstOfIs

LEMMA LastFound ==
  ASSUME NEW s \in Seq(Chars), NEW c, NEW i \in 1..Len(s), s[i] = c,
         \A j \in (i + 1)..Len(s) : s[j] # c
  PROVE  find_last_of(s, c) = i - 1
<1> DEFINE P == {k \in 0..(Len(s) - 1) : s[k + 1] = c}
<1>1. Len(s) \in Nat
  BY LenProperties
<1>2. i - 1 \in P
  BY <1>1
<1>3. ASSUME NEW k \in P PROVE k <= i - 1
  <2>1. k + 1 \in 1..Len(s) /\ s[k + 1] = c
    BY <1>1, <1>3
  <2>2. k + 1 \notin (i + 1)..Len(s)
    BY <2>1
  <2> QED
    BY <1>1, <2>1, <2>2
<1>4. P \in SUBSET Nat
  BY <1>1
<1>5. find_last_of(s, c) = LastOf(P)
  BY Searches
<1> HIDE DEF P
<1> QED
  BY <1>2, <1>3, <1>4, <1>5, LastOfIs

LEMMA FirstOtherFound ==
  ASSUME NEW s \in Seq(Chars), NEW c, NEW pos \in Nat,
         NEW i \in (pos + 1)..Len(s), s[i] # c, \A j \in (pos + 1)..(i - 1) : s[j] = c
  PROVE  find_first_not_of(s, c, pos) = i - 1
<1> DEFINE P == {k \in 0..(Len(s) - 1) : k >= pos /\ s[k + 1] # c}
<1>1. Len(s) \in Nat
  BY LenProperties
<1>2. i - 1 \in P /\ P \in SUBSET Nat
  BY <1>1
<1>3. ASSUME NEW k \in P PROVE i - 1 <= k
  <2>1. k + 1 \in 1..Len(s) /\ k + 1 >= pos + 1 /\ s[k + 1] # c
    BY <1>1, <1>3
  <2>2. k + 1 \notin (pos + 1)..(i - 1)
    BY <2>1
  <2> QED
    BY <1>1, <2>1, <2>2
<1>4. find_first_not_of(s, c, pos) = FirstOf(P)
  BY Zenon DEF find_first_not_of, From
<1> HIDE DEF P
<1> QED
  BY <1>2, <1>3, <1>4, FirstOfIs

LEMMA NoOtherFound ==
  ASSUME NEW s \in Seq(Chars), NEW c, NEW pos \in Nat,
         \A j \in (pos + 1)..Len(s) : s[j] = c
  PROVE  find_first_not_of(s, c, pos) = npos
<1> DEFINE P == {k \in 0..(Len(s) - 1) : k >= pos /\ s[k + 1] # c}
<1>1. P = {}
  <2> SUFFICES ASSUME NEW k \in P PROVE FALSE
    OBVIOUS
  <2>1. k + 1 \in (pos + 1)..Len(s) /\ s[k + 1] # c
    BY LenProperties
  <2> QED
    BY <2>1
<1>2. find_first_not_of(s, c, pos) = FirstOf(P)
  BY Zenon DEF find_first_not_of, From
<1> QED
  BY <1>1, <1>2 DEF FirstOf

LEMMA NotFound ==
  ASSUME NEW s \in Seq(Chars), NEW c, \A j \in 1..Len(s) : s[j] # c
  PROVE  find_first_of(s, c) = npos /\ find_last_of(s, c) = npos
<1>1. {k \in 0..(Len(s) - 1) : s[k + 1] = c} = {}
  BY LenProperties
<1> QED
  BY <1>1, Searches DEF FirstOf, LastOf

\* An index is the first of a character, if there is one at all.
LEMMA FirstIndex ==
  ASSUME NEW s \in Seq(Chars), NEW c, NEW k \in 1..Len(s), s[k] = c
  PROVE  \E i \in 1..Len(s) : s[i] = c /\ \A j \in 1..(i - 1) : s[j] # c
<1> DEFINE P == {i \in 1..Len(s) : s[i] = c}
<1>0. Len(s) \in Nat
  BY LenProperties
<1>1. P \in SUBSET Nat /\ P # {}
  BY <1>0
<1>2. PICK i \in P : \A j \in P : i <= j
  BY <1>1, LeastExists
<1>3. ASSUME NEW j \in 1..(i - 1) PROVE s[j] # c
  BY <1>0, <1>2
<1> QED
  BY <1>2, <1>3

LEMMA LastIndex ==
  ASSUME NEW s \in Seq(Chars), NEW c, NEW k \in 1..Len(s), s[k] = c
  PROVE  \E i \in 1..Len(s) : s[i] = c /\ \A j \in (i + 1)..Len(s) : s[j] # c
<1> DEFINE P == {i \in 1..Len(s) : s[i] = c}
<1>0. Len(s) \in Nat
  BY LenProperties
<1>1. P \in SUBSET (0..Len(s)) /\ P # {}
  BY <1>0
<1>2. PICK i \in P : \A j \in P : j <= i
  BY <1>0, <1>1, GreatestExists
<1>3. ASSUME NEW j \in (i + 1)..Len(s) PROVE s[j] # c
  BY <1>0, <1>2
<1> QED
  BY <1>2, <1>3

-----------------------------------------------------------------------------
(* The value after the colon.                                              *)

\* The characters, by name: the proofs below do not depend on which they are.
Colon == ":"
Space == " "
Mark == "'"

GetValueOf(s) ==
  LET pos == find_first_of(s, Colon)
      actualPos == find_first_not_of(s, Space, pos + 1)
  IN IF pos = npos \/ actualPos = npos THEN <<>> ELSE substr(s, actualPos, npos)

RestIsValue ==
  LET v == GetValueOf(line)
      head == Before(line, Len(line) - Len(v))
  IN /\ v # <<>> => /\ IsSuffix(v, line)
                    /\ v[1] # Space
                    /\ \E i \in DOMAIN head : /\ head[i] = Colon
                                              /\ Free(Before(head, i - 1), Colon)
                                              /\ \A j \in DOMAIN head : j > i => head[j] = Space
     /\ v = <<>> => \A i \in DOMAIN line :
                      line[i] = Colon => \A j \in DOMAIN line : j > i => line[j] = Space

LEMMA RestIsValueIs == ValueIsTheRest <=> RestIsValue
BY Zenon DEF ValueIsTheRest, RestIsValue, GetValue, GetValueOf, Colon, Space

\* The value is the end of the line from its first index that is no space,
\* after the first colon.
LEMMA ValueFound ==
  ASSUME LinesInv, NEW p \in 1..Len(line), line[p] = Colon,
         \A j \in 1..(p - 1) : line[j] # Colon,
         NEW a \in (p + 1)..Len(line), line[a] # Space,
         \A j \in (p + 1)..(a - 1) : line[j] = Space
  PROVE  GetValueOf(line) = SubSeq(line, a, Len(line))
<1>0. line \in Seq(Chars) /\ Len(line) \in Nat /\ Len(line) < npos /\ npos \in Nat
  BY Sizes DEF LinesInv
<1>1. find_first_of(line, Colon) = p - 1
  BY <1>0, FirstFound
<1>2. find_first_not_of(line, Space, (p - 1) + 1) = a - 1
  <2>1. (p - 1) + 1 = p /\ p \in Nat
    BY <1>0
  <2> QED
    BY <1>0, <2>1, FirstOtherFound
<1>3. p - 1 # npos /\ a - 1 # npos
  BY <1>0
<1>4. GetValueOf(line) = substr(line, a - 1, npos)
  BY <1>1, <1>2, <1>3 DEF GetValueOf
<1>5. npos > Len(line) - (a - 1) /\ (a - 1) + 1 = a
  BY <1>0
<1> QED
  BY <1>4, <1>5 DEF substr

\* There is none without a colon, or if only spaces follow the first.
LEMMA NoValue ==
  ASSUME LinesInv,
         \A i, j \in 1..Len(line) : line[i] = Colon /\ j > i => line[j] = Space
  PROVE  GetValueOf(line) = <<>>
<1>0. line \in Seq(Chars) /\ Len(line) \in Nat
  BY Sizes DEF LinesInv
<1>1. CASE \A j \in 1..Len(line) : line[j] # Colon
  <2>1. find_first_of(line, Colon) = npos
    BY <1>0, <1>1, NotFound
  <2> QED
    BY <2>1 DEF GetValueOf
<1>2. ASSUME NEW k \in 1..Len(line), line[k] = Colon PROVE GetValueOf(line) = <<>>
  <2>1. PICK p \in 1..Len(line) : line[p] = Colon /\ \A j \in 1..(p - 1) : line[j] # Colon
    BY <1>0, <1>2, FirstIndex
  <2>2. find_first_of(line, Colon) = p - 1
    BY <1>0, <2>1, FirstFound
  <2>3. find_first_not_of(line, Space, (p - 1) + 1) = npos
    <3>1. (p - 1) + 1 = p /\ p \in Nat
      BY <1>0
    <3>2. \A j \in (p + 1)..Len(line) : line[j] = Space
      BY <1>0, <2>1
    <3> QED
      BY <1>0, <3>1, <3>2, NoOtherFound
  <2> QED
    BY <2>2, <2>3 DEF GetValueOf
<1> QED
  BY <1>1, <1>2

\* The end of a sequence is a suffix of it.
LEMMA EndIsSuffix ==
  ASSUME NEW S, NEW s \in Seq(S), NEW a \in 1..Len(s)
  PROVE  IsSuffix(SubSeq(s, a, Len(s)), s)
<1> DEFINE v == SubSeq(s, a, Len(s))
<1>0. Len(s) \in Nat
  BY LenProperties
<1>1. /\ v \in Seq(S) /\ Len(v) = Len(s) - a + 1
      /\ \A i \in 1..Len(v) : v[i] = s[a + i - 1]
  BY <1>0, SubSeqProperties
<1> HIDE DEF v
<1>2. /\ Reverse(s) \in Seq(S) /\ Len(Reverse(s)) = Len(s)
      /\ \A i \in 1..Len(s) : Reverse(s)[i] = s[(Len(s) - i) + 1]
  BY <1>0 DEF Reverse
<1>3. /\ Reverse(v) \in Seq(S) /\ Len(Reverse(v)) = Len(v)
      /\ \A i \in 1..Len(v) : Reverse(v)[i] = v[(Len(v) - i) + 1]
  BY <1>0, <1>1 DEF Reverse
<1>4. Len(v) \in Nat /\ Len(v) <= Len(s)
  BY <1>0, <1>1
<1>5. ASSUME NEW i \in 1..Len(v) PROVE Reverse(v)[i] = Reverse(s)[i]
  <2>1. (Len(v) - i) + 1 \in 1..Len(v) /\ i \in 1..Len(s)
    BY <1>4
  <2>2. a + ((Len(v) - i) + 1) - 1 = (Len(s) - i) + 1
    BY <1>0, <1>1, <1>4
  <2> QED
    BY <1>1, <1>2, <1>3, <2>1, <2>2
<1>6. SubSeq(Reverse(v), 1, Len(v)) = SubSeq(Reverse(s), 1, Len(v))
  BY <1>2, <1>3, <1>4, <1>5
<1> QED
  BY <1>2, <1>3, <1>4, <1>6 DEF IsSuffix, IsPrefix, v

LEMMA ValueIs == LinesInv => RestIsValue
<1> SUFFICES ASSUME LinesInv PROVE RestIsValue
  OBVIOUS
<1>0. /\ line \in Seq(Chars) /\ Len(line) \in Nat /\ DOMAIN line = 1..Len(line)
  BY Sizes DEF LinesInv
<1> DEFINE v == GetValueOf(line)
           head == Before(line, Len(line) - Len(v))
<1>1. CASE \A i, j \in 1..Len(line) : line[i] = Colon /\ j > i => line[j] = Space
  <2>1. v = <<>>
    BY <1>1, NoValue
  <2> QED
    BY <1>0, <1>1, <2>1 DEF RestIsValue
<1>2. ASSUME NEW c \in 1..Len(line), NEW k \in 1..Len(line), line[c] = Colon, k > c, line[k] # Space
      PROVE  RestIsValue
  <2>0. c \in 1..Len(line) /\ line[c] = Colon /\ line \in Seq(Chars)
    BY <1>0, <1>2
  <2>1. PICK p \in 1..Len(line) : line[p] = Colon /\ \A j \in 1..(p - 1) : line[j] # Colon
    BY <2>0, FirstIndex, ZenonT(30)
  <2>2. p <= c
    <3>1. c \notin 1..(p - 1)
      BY <1>2, <2>1
    <3> QED
      BY <3>1
  <2> DEFINE P == {i \in (p + 1)..Len(line) : line[i] # Space}
  <2>3. k \in P /\ P \in SUBSET Nat
    BY <1>0, <1>2, <2>2
  <2>4. PICK a \in P : \A j \in P : a <= j
    <3> HIDE DEF P
    <3> QED
      BY <2>3, LeastExists
  <2>5. a \in (p + 1)..Len(line) /\ line[a] # Space /\ a \in 1..Len(line)
    BY <1>0
  <2>6. \A j \in (p + 1)..(a - 1) : line[j] = Space
    BY <1>0, <2>4, <2>5
  <2>7. v = SubSeq(line, a, Len(line))
    BY <2>1, <2>5, <2>6, ValueFound
  <2>8. Len(v) = Len(line) - a + 1 /\ v[1] = line[a] /\ v # <<>>
    <3> DEFINE w == SubSeq(line, a, Len(line))
    <3>1. /\ w \in Seq(Chars) /\ Len(w) = Len(line) - a + 1
          /\ \A i \in 1..Len(w) : w[i] = line[a + i - 1]
      BY <1>0, <2>5, SubSeqProperties
    <3> HIDE DEF w
    <3>2. 1 \in 1..Len(w) /\ a + 1 - 1 = a
      BY <1>0, <2>5, <3>1
    <3>3. w # <<>>
      BY <3>1, <3>2, EmptySeq
    <3> QED
      BY <2>7, <3>1, <3>2, <3>3 DEF w
  <2>9. IsSuffix(v, line)
    BY <1>0, <2>5, <2>7, EndIsSuffix
  <2>10. head = SubSeq(line, 1, a - 1)
    <3>1. Len(line) - Len(v) = a - 1
      BY <1>0, <2>5, <2>8
    <3> QED
      BY <3>1 DEF Before
  <2> HIDE DEF v, head, P
  <2>11. /\ head \in Seq(Chars) /\ Len(head) = a - 1 /\ DOMAIN head = 1..(a - 1)
         /\ \A i \in 1..(a - 1) : head[i] = line[i]
    BY <1>0, <2>5, <2>10
  <2>12. p \in 1..(a - 1) /\ head[p] = Colon
    BY <1>0, <2>1, <2>5, <2>11
  <2>13. Free(Before(head, p - 1), Colon)
    <3>1. /\ DOMAIN SubSeq(head, 1, p - 1) = 1..(p - 1)
          /\ \A i \in 1..(p - 1) : SubSeq(head, 1, p - 1)[i] = head[i]
      BY <2>11, <2>12
    <3>2. \A i \in 1..(p - 1) : i \in 1..(a - 1)
      BY <2>5, <2>12
    <3> QED
      BY <2>1, <2>11, <3>1, <3>2 DEF Free, Before
  <2>14. ASSUME NEW j \in DOMAIN head, j > p PROVE head[j] = Space
    <3>1. j \in 1..(a - 1) /\ j \in (p + 1)..(a - 1)
      BY <2>5, <2>11, <2>14
    <3> QED
      BY <2>6, <2>11, <3>1
  <2> QED
    BY <2>5, <2>8, <2>9, <2>11, <2>12, <2>13, <2>14 DEF RestIsValue, v, head
<1> QED
  BY <1>1, <1>2

\* For a line of any length, of any characters: a value is all that follows
\* the first colon but the spaces in front.
THEOREM ValuesAreWhole == Spec => []ValueIsTheRest
BY ValueIs, RestIsValueIs, LinesInvariant, PTL

-----------------------------------------------------------------------------
(* The value between quotation marks.                                      *)

MarksQuote ==
  LET marks == {i \in DOMAIN line : line[i] = Mark}
      a == FirstOf(marks)
      z == LastOf(marks)
  IN /\ a < z /\ marks # {} => line = Before(line, a) \o Quoted(line) \o After(line, z - 1)
     /\ marks = {a} => IsPrefix(Quoted(line), After(line, a))
     /\ marks = {} => Quoted(line) = Before(line, Len(line) - 1)

LEMMA MarksQuoteIs == QuotedIsBetweenMarks <=> MarksQuote
BY Zenon DEF QuotedIsBetweenMarks, MarksQuote, Mark

LEMMA StartPosIs ==
  StartPos(line) = IF find_first_of(line, Mark) = npos THEN 0
                   ELSE find_first_of(line, Mark) + 1
BY Zenon DEF StartPos, Mark

LEMMA EndPosIs ==
  EndPos(line) = IF find_last_of(substr(line, StartPos(line), npos), Mark) = npos
                 THEN Unsigned(Len(line) - 1) ELSE find_last_of(line, Mark)
BY Zenon DEF EndPos, Mark

\* substr, with a length that reaches the end, and with one that does not.
LEMMA SubstrIs ==
  ASSUME LinesInv, NEW pos \in 0..Len(line), NEW n \in Nat
  PROVE  /\ n > Len(line) - pos => substr(line, pos, n) = SubSeq(line, pos + 1, Len(line))
         /\ n <= Len(line) - pos => substr(line, pos, n) = SubSeq(line, pos + 1, pos + n)
<1>1. Len(line) \in Nat
  BY Sizes
<1> QED
  BY <1>1 DEF substr

\* Without a mark it is the line, less the last character.
LEMMA QuotedUnmarked ==
  ASSUME LinesInv, \A i \in 1..Len(line) : line[i] # Mark
  PROVE  Quoted(line) = Before(line, Len(line) - 1)
<1>0. /\ line \in Seq(Chars) /\ Len(line) \in Nat /\ Len(line) < npos /\ npos \in Nat
      /\ SizeMod = npos + 1
  BY Sizes DEF LinesInv, npos
<1>1. StartPos(line) = 0
  BY <1>0, NotFound, StartPosIs
<1>2. substr(line, 0, npos) = line
  <2>1. 0 \in 0..Len(line) /\ npos > Len(line) - 0
    BY <1>0
  <2>2. substr(line, 0, npos) = SubSeq(line, 0 + 1, Len(line))
    BY <1>0, <2>1, SubstrIs
  <2> QED
    BY <1>0, <2>2, SubSeqFull
<1>3. EndPos(line) = Unsigned(Len(line) - 1)
  BY <1>0, <1>1, <1>2, NotFound, EndPosIs
<1>4. CASE Len(line) = 0
  <2>1. line = <<>>
    BY <1>0, <1>4, EmptySeq
  <2>2. Quoted(line) = <<>>
    <3>1. EndPos(line) = npos
      BY <1>3, <1>4, UnsignedIs
    <3>2. Unsigned(EndPos(line) - StartPos(line)) = npos
      BY <1>0, <1>1, <3>1, UnsignedIs
    <3>3. Quoted(line) = substr(line, 0, npos)
      BY <1>1, <3>2 DEF Quoted
    <3> QED
      BY <1>2, <2>1, <3>3
  <2>3. Before(line, Len(line) - 1) = <<>>
    <3>1. Len(line) - 1 < 1 /\ Len(line) - 1 \in Int
      BY <1>4
    <3> QED
      BY <3>1, SubSeqEmpty DEF Before
  <2> QED
    BY <2>2, <2>3
<1>5. CASE Len(line) # 0
  <2>1. /\ Len(line) - 1 \in Nat /\ Len(line) - 1 < SizeMod
        /\ Len(line) - 1 <= Len(line) - 0 /\ 0 \in 0..Len(line)
    BY <1>0, <1>5
  <2>2. EndPos(line) = Len(line) - 1
    BY <1>3, <2>1, UnsignedIs
  <2>3. Unsigned(EndPos(line) - StartPos(line)) = Len(line) - 1
    <3>1. EndPos(line) - StartPos(line) = Len(line) - 1
      BY <1>0, <1>1, <2>2
    <3> QED
      BY <2>1, <3>1, UnsignedIs
  <2>4. Quoted(line) = substr(line, 0, Len(line) - 1)
    BY <1>1, <2>3 DEF Quoted
  <2>5. substr(line, 0, Len(line) - 1) = SubSeq(line, 0 + 1, 0 + (Len(line) - 1))
    BY <2>1, SubstrIs
  <2>6. 0 + 1 = 1 /\ 0 + (Len(line) - 1) = Len(line) - 1
    BY <1>0
  <2> QED
    BY <2>4, <2>5, <2>6 DEF Before
<1> QED
  BY <1>4, <1>5

\* With marks it begins after the first.
LEMMA QuotedMarked ==
  ASSUME LinesInv,
         NEW f \in 1..Len(line), line[f] = Mark, \A j \in 1..(f - 1) : line[j] # Mark,
         NEW l \in 1..Len(line), line[l] = Mark, \A j \in (l + 1)..Len(line) : line[j] # Mark
  PROVE  /\ StartPos(line) = f
         /\ f < l => Quoted(line) = SubSeq(line, f + 1, l - 1)
         /\ f = l => \E e \in f..Len(line) : Quoted(line) = SubSeq(line, f + 1, e)
<1>0. /\ line \in Seq(Chars) /\ Len(line) \in Nat /\ Len(line) < npos /\ npos \in Nat
      /\ SizeMod = npos + 1
  BY Sizes DEF LinesInv, npos
<1>1. StartPos(line) = f
  <2>1. find_first_of(line, Mark) = f - 1
    BY <1>0, FirstFound
  <2>2. f - 1 # npos /\ (f - 1) + 1 = f
    BY <1>0
  <2> QED
    BY <2>1, <2>2, StartPosIs
<1> DEFINE rest == SubSeq(line, f + 1, Len(line))
<1>2. substr(line, f, npos) = rest
  <2>1. f \in 0..Len(line) /\ npos > Len(line) - f
    BY <1>0
  <2> QED
    BY <1>0, <2>1, SubstrIs
<1>3. /\ rest \in Seq(Chars) /\ Len(rest) = Len(line) - f
      /\ \A j \in 1..(Len(line) - f) : rest[j] = line[f + j]
  <2>1. f + 1 \in Int /\ Len(line) \in Int /\ \A i \in (f + 1)..Len(line) : line[i] \in Chars
    <3>1. \A i \in (f + 1)..Len(line) : i \in 1..Len(line)
      BY <1>0
    <3> QED
      BY <1>0, <3>1, ElementOfSeq
  <2>2. /\ rest \in Seq(Chars)
        /\ Len(rest) = IF f + 1 <= Len(line) THEN Len(line) - (f + 1) + 1 ELSE 0
        /\ \A i \in 1..(Len(line) - (f + 1) + 1) : rest[i] = line[(f + 1) + i - 1]
    BY <2>1, SubSeqProperties
  <2>3. Len(line) - (f + 1) + 1 = Len(line) - f
    BY <1>0
  <2>4. \A i \in 1..(Len(line) - f) : (f + 1) + i - 1 = f + i
    BY <1>0
  <2>5. Len(rest) = Len(line) - f
    BY <1>0, <2>2
  <2>6. ASSUME NEW i \in 1..(Len(line) - f) PROVE rest[i] = line[f + i]
    <3>1. rest[i] = line[(f + 1) + i - 1]
      BY <2>2, <2>3
    <3> QED
      BY <2>4, <3>1
  <2> QED
    BY <2>2, <2>5, <2>6
<1> HIDE DEF rest
<1>4. ASSUME f < l PROVE Quoted(line) = SubSeq(line, f + 1, l - 1)
  <2>1. l - f \in 1..Len(rest) /\ rest[l - f] = Mark
    BY <1>0, <1>3, <1>4
  <2>2. ASSUME NEW j \in ((l - f) + 1)..Len(rest) PROVE rest[j] # Mark
    <3>1. j \in 1..(Len(line) - f) /\ f + j \in (l + 1)..Len(line)
      BY <1>0, <1>3, <1>4
    <3> QED
      BY <1>3, <3>1
  <2>3. find_last_of(rest, Mark) = (l - f) - 1
    BY <1>3, <2>1, <2>2, LastFound
  <2>4. find_last_of(line, Mark) = l - 1
    BY <1>0, LastFound
  <2>5. (l - f) - 1 # npos
    BY <1>0, <1>4
  <2>6. EndPos(line) = l - 1
    BY <1>1, <1>2, <2>3, <2>4, <2>5, EndPosIs
  <2>7. /\ (l - 1) - f \in Nat /\ (l - 1) - f < SizeMod
        /\ (l - 1) - f <= Len(line) - f /\ f \in 0..Len(line)
        /\ f + ((l - 1) - f) = l - 1
    BY <1>0, <1>4
  <2>8. Unsigned(EndPos(line) - StartPos(line)) = (l - 1) - f
    BY <1>1, <2>6, <2>7, UnsignedIs
  <2>9. Quoted(line) = substr(line, f, (l - 1) - f)
    BY <1>1, <2>8 DEF Quoted
  <2>10. substr(line, f, (l - 1) - f) = SubSeq(line, f + 1, f + ((l - 1) - f))
    BY <2>7, SubstrIs
  <2> QED
    BY <2>7, <2>9, <2>10
<1>5. ASSUME f = l PROVE \E e \in f..Len(line) : Quoted(line) = SubSeq(line, f + 1, e)
  <2>1. \A j \in 1..Len(rest) : rest[j] # Mark
    <3> SUFFICES ASSUME NEW j \in 1..Len(rest) PROVE rest[j] # Mark
      OBVIOUS
    <3>1. j \in 1..(Len(line) - f) /\ f + j \in (l + 1)..Len(line)
      BY <1>0, <1>3, <1>5
    <3> QED
      BY <1>3, <3>1
  <2>2. EndPos(line) = Len(line) - 1
    <3>1. find_last_of(rest, Mark) = npos
      BY <1>3, <2>1, NotFound
    <3>2. EndPos(line) = Unsigned(Len(line) - 1)
      BY <1>1, <1>2, <3>1, EndPosIs
    <3>3. Len(line) - 1 \in Nat /\ Len(line) - 1 < SizeMod
      BY <1>0
    <3> QED
      BY <3>2, <3>3, UnsignedIs
  <2>3. CASE f < Len(line)
    <3>1. /\ (Len(line) - 1) - f \in Nat /\ (Len(line) - 1) - f < SizeMod
          /\ (Len(line) - 1) - f <= Len(line) - f /\ f \in 0..Len(line)
          /\ f + ((Len(line) - 1) - f) \in f..Len(line)
      BY <1>0, <2>3
    <3>2. Unsigned(EndPos(line) - StartPos(line)) = (Len(line) - 1) - f
      BY <1>1, <2>2, <3>1, UnsignedIs
    <3>3. Quoted(line) = substr(line, f, (Len(line) - 1) - f)
      BY <1>1, <3>2 DEF Quoted
    <3>4. substr(line, f, (Len(line) - 1) - f) = SubSeq(line, f + 1, f + ((Len(line) - 1) - f))
      BY <3>1, SubstrIs
    <3> QED
      BY <3>1, <3>3, <3>4
  <2>4. CASE f = Len(line)
    <3>1. EndPos(line) - StartPos(line) = -1
      BY <1>0, <1>1, <2>2, <2>4
    <3>2. Quoted(line) = substr(line, f, npos)
      BY <1>1, <3>1, UnsignedIs DEF Quoted
    <3>3. Len(line) \in f..Len(line)
      BY <1>0
    <3> QED
      BY <1>2, <3>2, <3>3 DEF rest
  <2> QED
    BY <1>0, <2>3, <2>4
<1> QED
  BY <1>1, <1>4, <1>5

\* The beginnings of a part of a sequence.
LEMMA ShorterIsPrefix ==
  ASSUME NEW s \in Seq(Chars), NEW f \in 1..Len(s), NEW e \in f..Len(s)
  PROVE  IsPrefix(SubSeq(s, f + 1, e), SubSeq(s, f + 1, Len(s)))
<1> DEFINE q == SubSeq(s, f + 1, e)
           r == SubSeq(s, f + 1, Len(s))
<1>0. Len(s) \in Nat /\ \A i \in (f + 1)..Len(s) : i \in 1..Len(s) /\ s[i] \in Chars
  BY LenProperties, ElementOfSeq
<1>1. /\ q \in Seq(Chars) /\ Len(q) = e - f
      /\ \A i \in 1..(e - f) : q[i] = s[f + i]
  <2>1. f + 1 \in Int /\ e \in Int /\ \A i \in (f + 1)..e : s[i] \in Chars
    BY <1>0
  <2>2. /\ q \in Seq(Chars)
        /\ Len(q) = IF f + 1 <= e THEN e - (f + 1) + 1 ELSE 0
        /\ \A i \in 1..(e - (f + 1) + 1) : q[i] = s[(f + 1) + i - 1]
    BY <2>1, SubSeqProperties
  <2>3. e - (f + 1) + 1 = e - f /\ \A i \in 1..(e - f) : (f + 1) + i - 1 = f + i
    BY <1>0
  <2> QED
    BY <1>0, <2>2, <2>3
<1>2. /\ r \in Seq(Chars) /\ Len(r) = Len(s) - f
      /\ \A i \in 1..(Len(s) - f) : r[i] = s[f + i]
  <2>1. f + 1 \in Int /\ Len(s) \in Int /\ \A i \in (f + 1)..Len(s) : s[i] \in Chars
    BY <1>0
  <2>2. /\ r \in Seq(Chars)
        /\ Len(r) = IF f + 1 <= Len(s) THEN Len(s) - (f + 1) + 1 ELSE 0
        /\ \A i \in 1..(Len(s) - (f + 1) + 1) : r[i] = s[(f + 1) + i - 1]
    BY <2>1, SubSeqProperties
  <2>3. Len(s) - (f + 1) + 1 = Len(s) - f
        /\ \A i \in 1..(Len(s) - f) : (f + 1) + i - 1 = f + i
    BY <1>0
  <2>4. Len(r) = Len(s) - f
    BY <1>0, <2>2
  <2>5. ASSUME NEW i \in 1..(Len(s) - f) PROVE r[i] = s[f + i]
    <3>1. r[i] = s[(f + 1) + i - 1]
      BY <2>2, <2>3
    <3> QED
      BY <2>3, <3>1
  <2> QED
    BY <2>2, <2>4, <2>5
<1> HIDE DEF q, r
<1>3. e - f \in Nat /\ e - f <= Len(s) - f
  BY <1>0
<1>4. SubSeq(q, 1, Len(q)) = SubSeq(r, 1, Len(q))
  BY <1>0, <1>1, <1>2, <1>3
<1> QED
  BY <1>0, <1>1, <1>2, <1>3, <1>4 DEF IsPrefix, q, r

LEMMA QuotedIs == LinesInv => MarksQuote
<1> SUFFICES ASSUME LinesInv PROVE MarksQuote
  OBVIOUS
<1>0. /\ line \in Seq(Chars) /\ Len(line) \in Nat /\ DOMAIN line = 1..Len(line)
  BY Sizes DEF LinesInv
<1> DEFINE marks == {i \in DOMAIN line : line[i] = Mark}
<1>1. CASE \A i \in 1..Len(line) : line[i] # Mark
  <2>1. marks = {}
    BY <1>0, <1>1
  <2>2. Quoted(line) = Before(line, Len(line) - 1)
    BY <1>1, QuotedUnmarked
  <2> QED
    BY <2>1, <2>2 DEF MarksQuote
<1>2. ASSUME NEW k \in 1..Len(line), line[k] = Mark PROVE MarksQuote
  <2>1. PICK f \in 1..Len(line) : line[f] = Mark /\ \A j \in 1..(f - 1) : line[j] # Mark
    BY <1>0, <1>2, FirstIndex, ZenonT(30)
  <2>2. PICK l \in 1..Len(line) : line[l] = Mark /\ \A j \in (l + 1)..Len(line) : line[j] # Mark
    BY <1>0, <1>2, LastIndex, ZenonT(30)
  <2>3. marks \in SUBSET Nat /\ f \in marks /\ l \in marks
    BY <1>0, <2>1, <2>2
  <2>4. \A j \in marks : f <= j /\ j <= l
    <3> SUFFICES ASSUME NEW j \in marks PROVE f <= j /\ j <= l
      OBVIOUS
    <3>1. j \in 1..Len(line) /\ line[j] = Mark
      BY <1>0
    <3>2. j \notin 1..(f - 1) /\ j \notin (l + 1)..Len(line)
      BY <2>1, <2>2, <3>1
    <3> QED
      BY <1>0, <3>1, <3>2
  <2> HIDE DEF marks
  <2>5. FirstOf(marks) = f /\ LastOf(marks) = l
    BY <2>3, <2>4, FirstOfIs, LastOfIs
  <2>6. /\ f < l => Quoted(line) = SubSeq(line, f + 1, l - 1)
        /\ f = l => \E e \in f..Len(line) : Quoted(line) = SubSeq(line, f + 1, e)
    BY <2>1, <2>2, QuotedMarked
  <2>7. ASSUME f < l PROVE line = Before(line, f) \o Quoted(line) \o After(line, l - 1)
    <3>1. /\ 1 \in 1..(Len(line) + 1) /\ f \in (1 - 1)..Len(line) /\ l - 1 \in f..Len(line)
          /\ l - 1 \in (1 - 1)..Len(line) /\ Len(line) \in (l - 1)..Len(line)
      BY <1>0, <2>7
    <3>2. SubSeq(line, 1, f) \o SubSeq(line, f + 1, l - 1) = SubSeq(line, 1, l - 1)
      BY <1>0, <3>1, ConcatAdjacentSubSeq, Zenon
    <3>3. SubSeq(line, 1, l - 1) \o SubSeq(line, (l - 1) + 1, Len(line))
            = SubSeq(line, 1, Len(line))
      BY <1>0, <3>1, ConcatAdjacentSubSeq, Zenon
    <3>4. SubSeq(line, 1, Len(line)) = line
      BY <1>0, SubSeqFull
    <3> QED
      BY <2>6, <2>7, <3>2, <3>3, <3>4 DEF Before, After
  <2>8. ASSUME marks = {f} PROVE IsPrefix(Quoted(line), After(line, f))
    <3>1. f = l
      BY <2>3, <2>8
    <3>2. PICK e \in f..Len(line) : Quoted(line) = SubSeq(line, f + 1, e)
      BY <2>6, <3>1
    <3> QED
      BY <1>0, <3>2, ShorterIsPrefix DEF After
  <2>9. marks # {}
    BY <2>3
  <2> QED
    BY <2>5, <2>7, <2>8, <2>9 DEF MarksQuote, marks
<1> QED
  BY <1>1, <1>2

\* For a line of any length, of any characters, and whatever the unsigned
\* subtractions wrap to: nothing outside the quotation marks is read.
THEOREM QuotesAreKept == Spec => []QuotedIsBetweenMarks
BY QuotedIs, MarksQuoteIs, LinesInvariant, PTL
=============================================================================
