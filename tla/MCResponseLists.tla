--------------------------- MODULE MCResponseLists --------------------------
(* Answers of up to four lines, for two threads.                           *)
EXTENDS ResponseLists

MCValues == {"", "RPI", "cec0", "a1", "a2", "x", "failed"}

L(words, value) == [words |-> words, value |-> value]
SeqsUpTo(S, n) == UNION {[1..k -> S] : k \in 0..n}

\* Device lines, lines of one field and of two, a value that names a word,
\* a field without a value, and the failure that the code makes up.
ScanLines ==
  {L({"device"}, "x"), L({"device", "osd string"}, "a2"), L({"address"}, "a1"),
   L({"address"}, ""), L({"vendor", "language"}, "x"), L({"language"}, "a1")}
Head1 == L({"device"}, "x")
ScanAnswers ==
  SeqsUpTo(ScanLines, 1) \cup {<<l, Head1>> : l \in ScanLines}
    \cup {<<Head1>> \o s : s \in [1..2 -> ScanLines]}
    \cup {<<Head1, L({"address"}, "a2"), l, L({"address"}, "a1")>> : l \in ScanLines}
    \cup {<<L({}, "failed")>>}
PortLines == {L({"com port"}, "RPI"), L({"com port"}, "a1"), L({"com port"}, ""), L({}, "x")}
ListingAnswers == SeqsUpTo(PortLines, 2)
=============================================================================
