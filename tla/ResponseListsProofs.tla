------------------------ MODULE ResponseListsProofs -------------------------
(***************************************************************************)
(* Proofs about ResponseLists, for any answers of nyx, any number of them  *)
(* and any set of threads: the device list is the table of module          *)
(* DeviceTable, and the adapters are those of the last listing, as the     *)
(* reply to it names them, and the reply to a scan says what its lines say.*)
(***************************************************************************)
EXTENDS ResponseLists, SequenceTheorems, FiniteSetTheorems, TLAPS

ScanPcs == {"lines", "block", "scanned"}

\* No two entries of a list of devices have the same address.
Distinct(s) == \A i, j \in DOMAIN s : s[i].address = s[j].address => i = j

\* What each thread has put into its reply.
RepliesTyped ==
  /\ respCmd \in [Threads -> Seq(CecDevice \cup Values)]
  /\ \A t \in Threads : pc[t] \in ScanPcs => respCmd[t] \in Seq(CecDevice)

DevicesInv == TypeOK /\ RepliesTyped /\ Distinct(mDeviceInfoList)

-----------------------------------------------------------------------------
(* The operators on devices and lists.                                     *)

Fields == {"address", "activeSource", "vendor", "osd", "cecVersion", "powerStatus",
           "language"}

\* The fields of the tests, in their order.
LEMMA FieldOfTest ==
  /\ Tests[1].field = "address" /\ Tests[2].field = "activeSource"
  /\ Tests[3].field = "vendor" /\ Tests[4].field = "osd"
  /\ Tests[5].field = "cecVersion" /\ Tests[6].field = "powerStatus"
  /\ Tests[7].field = "language"
<1>1. /\ Tests[1] = Test("address", "address")
      /\ Tests[2] = Test("activeSource", "active source")
      /\ Tests[3] = Test("vendor", "vendor")
      /\ Tests[4] = Test("osd", "osd string")
      /\ Tests[5] = Test("cecVersion", "CEC version")
      /\ Tests[6] = Test("powerStatus", "power status")
      /\ Tests[7] = Test("language", "language")
  BY DEF Tests
<1>2. \A f, w : Test(f, w).field = f
  BY DEF Test
<1>3. Tests[1].field = "address"
  BY <1>1, <1>2, Zenon
<1>4. Tests[2].field = "activeSource"
  BY <1>1, <1>2, Zenon
<1>5. Tests[3].field = "vendor"
  BY <1>1, <1>2, Zenon
<1>6. Tests[4].field = "osd"
  BY <1>1, <1>2, Zenon
<1>7. Tests[5].field = "cecVersion"
  BY <1>1, <1>2, Zenon
<1>8. Tests[6].field = "powerStatus"
  BY <1>1, <1>2, Zenon
<1>9. Tests[7].field = "language"
  BY <1>1, <1>2, Zenon
<1> QED
  BY <1>3, <1>4, <1>5, <1>6, <1>7, <1>8, <1>9

LEMMA SevenTests == \A k \in 1..7 : k = 1 \/ k = 2 \/ k = 3 \/ k = 4 \/ k = 5 \/ k = 6 \/ k = 7
OBVIOUS

LEMMA TestFields ==
  /\ DOMAIN Tests = 1..7
  /\ \A i \in 1..7 : Tests[i].field \in Fields
<1>1. DOMAIN Tests = 1..7
  BY DEF Tests
<1>2. \A i \in 1..7 : Tests[i].field \in Fields
  BY FieldOfTest, SevenTests DEF Fields
<1> QED
  BY <1>1, <1>2

\* The first test that a line passes.
LEMMA LeastOfSeven ==
  ASSUME NEW S \in SUBSET (1..7), S # {}
  PROVE  \E i \in S : \A j \in S : i <= j
<1>1. CASE 1 \in S
  BY <1>1
<1>2. CASE 1 \notin S /\ 2 \in S
  BY <1>2
<1>3. CASE 1 \notin S /\ 2 \notin S /\ 3 \in S
  BY <1>3
<1>4. CASE S \in SUBSET (4..7) /\ 4 \in S
  BY <1>4
<1>5. CASE S \in SUBSET (5..7) /\ 5 \in S
  BY <1>5
<1>6. CASE S \in SUBSET (6..7)
  <2>1. CASE 6 \in S
    BY <1>6, <2>1
  <2>2. CASE 6 \notin S
    <3>1. \A j \in S : j = 7
      BY <1>6, <2>2
    <3>2. PICK i \in S : TRUE
      OBVIOUS
    <3>3. i \in Nat /\ \A j \in S : j = i
      BY <3>1
    <3> QED
      BY <3>3
  <2> QED
    BY <2>1, <2>2
<1>7. S \in SUBSET (4..7) \/ 1 \in S \/ 2 \in S \/ 3 \in S
  OBVIOUS
<1>8. S \in SUBSET (4..7) => 4 \in S \/ S \in SUBSET (5..7)
  OBVIOUS
<1>9. S \in SUBSET (5..7) => 5 \in S \/ S \in SUBSET (6..7)
  OBVIOUS
<1> QED
  BY <1>1, <1>2, <1>3, <1>4, <1>5, <1>6, <1>7, <1>8, <1>9

\* Whatever field a line fills, the result is a device.
LEMMA SetField ==
  ASSUME NEW d \in CecDevice, NEW v \in Values,
         NEW f \in Fields
  PROVE  [d EXCEPT ![f] = v] \in CecDevice
BY DEF CecDevice, Fields

LEMMA FilledType ==
  ASSUME NEW l \in LineType, NEW d \in CecDevice
  PROVE  Filled(l, d) \in CecDevice
<1> DEFINE hits == Passed(l, d)
<1>1. hits \subseteq 1..7
  BY TestFields DEF Passed
<1>2. CASE hits = {}
  BY <1>2 DEF Filled
<1>3. CASE hits # {}
  <2> DEFINE first == CHOOSE i \in hits : \A j \in hits : i <= j
  <2>1. \E i \in hits : \A j \in hits : i <= j
    <3> HIDE DEF hits
    <3> QED
      BY <1>1, <1>3, LeastOfSeven
  <2>2. first \in 1..7
    BY <2>1, <1>1
  <2>3. Filled(l, d) = [d EXCEPT ![Tests[first].field] = l.value]
    BY <1>3 DEF Filled
  <2>4. l.value \in Values
    BY DEF LineType
  <2> HIDE DEF first
  <2>5. Tests[first].field \in Fields
    BY <2>2, TestFields
  <2> QED
    BY <2>3, <2>4, <2>5, SetField, ZenonT(40)
<1> QED
  BY <1>2, <1>3

\* Among distinct devices the first of an address is the only one.
LEMMA FirstIsOnly ==
  ASSUME NEW s \in Seq(CecDevice), Distinct(s), NEW a
  PROVE  FirstAt(s, a) = {i \in DOMAIN s : s[i].address = a}
<1>1. ASSUME NEW i \in DOMAIN s, s[i].address = a, NEW j \in 1..(i - 1)
      PROVE  s[j].address # a
  BY <1>1 DEF Distinct
<1> QED
  BY <1>1 DEF FirstAt

\* Leaving out the device of an address leaves all the others, and only them.
LEMMA WithoutFirstElements ==
  ASSUME NEW s \in Seq(CecDevice), Distinct(s), NEW a
  PROVE  /\ WithoutFirst(s, a) \in Seq(CecDevice)
         /\ Distinct(WithoutFirst(s, a))
         /\ Elements(WithoutFirst(s, a)) = {e \in Elements(s) : e.address # a}
<1>1. FirstAt(s, a) = {i \in DOMAIN s : s[i].address = a}
  BY FirstIsOnly
<1>2. CASE FirstAt(s, a) = {}
  BY <1>1, <1>2 DEF WithoutFirst, Elements
<1>3. ASSUME NEW i \in FirstAt(s, a)
      PROVE  /\ WithoutFirst(s, a) \in Seq(CecDevice)
             /\ Distinct(WithoutFirst(s, a))
             /\ Elements(WithoutFirst(s, a)) = {e \in Elements(s) : e.address # a}
  <2>1. i \in 1..Len(s) /\ Len(s) \in Nat /\ s[i].address = a
    BY <1>1, <1>3, LenProperties
  <2>2. FirstAt(s, a) = {i}
    BY <1>1, <2>1 DEF Distinct
  <2> DEFINE t == [k \in 1..(Len(s) - 1) |-> IF i <= k THEN s[k + 1] ELSE s[k]]
  <2>3. WithoutFirst(s, a) = t
    BY <2>2 DEF WithoutFirst
  <2>4. t \in Seq(CecDevice) /\ Len(t) = Len(s) - 1
    BY <2>1
  <2>5. Distinct(t)
    BY <2>1 DEF Distinct
  <2>6. ASSUME NEW k \in DOMAIN t
        PROVE  t[k] \in Elements(s) /\ t[k].address # a
    BY <2>1 DEF Distinct, Elements
  <2>7. ASSUME NEW k \in DOMAIN s, s[k].address # a
        PROVE  s[k] \in Elements(t)
    <3>1. CASE k < i
      <4>1. k \in DOMAIN t /\ t[k] = s[k]
        BY <2>1, <3>1
      <4> QED
        BY <4>1 DEF Elements
    <3>2. CASE k > i
      <4>1. k - 1 \in DOMAIN t /\ t[k - 1] = s[k]
        BY <2>1, <3>2
      <4> QED
        BY <4>1 DEF Elements
    <3> QED
      BY <2>1, <2>7, <3>1, <3>2
  <2>8. Elements(t) = {e \in Elements(s) : e.address # a}
    BY <2>6, <2>7 DEF Elements
  <2> QED
    BY <2>3, <2>4, <2>5, <2>8
<1> QED
  BY <1>2, <1>3

LEMMA AppendElements ==
  ASSUME NEW S, NEW s \in Seq(S), NEW e
  PROVE  Elements(Append(s, e)) = Elements(s) \cup {e}
<1>1. Len(s) \in Nat /\ DOMAIN s = 1..Len(s)
  BY LenProperties
<1>2. DOMAIN Append(s, e) = 1..(Len(s) + 1)
  BY <1>1
<1>3. Append(s, e)[Len(s) + 1] = e /\ \A i \in 1..Len(s) : Append(s, e)[i] = s[i]
  BY <1>1
<1>4. ASSUME NEW i \in DOMAIN Append(s, e) PROVE Append(s, e)[i] \in Elements(s) \cup {e}
  BY <1>1, <1>2, <1>3 DEF Elements
<1>5. ASSUME NEW i \in DOMAIN s PROVE s[i] \in Elements(Append(s, e))
  <2>1. i \in DOMAIN Append(s, e) /\ Append(s, e)[i] = s[i]
    BY <1>1, <1>2, <1>3
  <2> QED
    BY <2>1 DEF Elements
<1>6. e \in Elements(Append(s, e))
  <2>1. Len(s) + 1 \in DOMAIN Append(s, e)
    BY <1>1, <1>2
  <2> QED
    BY <2>1, <1>3 DEF Elements
<1>7. \A x \in Elements(Append(s, e)) : x \in Elements(s) \cup {e}
  BY <1>4 DEF Elements
<1>8. \A x \in Elements(s) : x \in Elements(Append(s, e))
  <2> SUFFICES ASSUME NEW i \in DOMAIN s PROVE s[i] \in Elements(Append(s, e))
    BY DEF Elements
  <2> QED
    BY <1>5
<1> QED
  BY <1>6, <1>7, <1>8

\* GetDeviceInfo in terms of the elements of the list.
LEMMA GetDeviceInfoElements ==
  ASSUME mDeviceInfoList \in Seq(CecDevice), Distinct(mDeviceInfoList), NEW a
  PROVE  GetDeviceInfo(a) = {e \in Elements(mDeviceInfoList) : e.address = a}
BY FirstIsOnly DEF GetDeviceInfo, Elements

\* The list after a report: distinct again, and changed at one address only.
LEMMA Replaced ==
  ASSUME NEW s \in Seq(CecDevice), Distinct(s), NEW d \in CecDevice
  PROVE  LET t == Append(WithoutFirst(s, d.address), d)
         IN /\ t \in Seq(CecDevice)
            /\ Distinct(t)
            /\ Elements(t) = {e \in Elements(s) : e.address # d.address} \cup {d}
<1> DEFINE w == WithoutFirst(s, d.address)
<1>1. /\ w \in Seq(CecDevice) /\ Distinct(w)
      /\ Elements(w) = {e \in Elements(s) : e.address # d.address}
  BY WithoutFirstElements
<1> HIDE DEF w
<1>2. Append(w, d) \in Seq(CecDevice) /\ Len(w) \in Nat /\ Len(Append(w, d)) = Len(w) + 1
  BY <1>1, LenProperties
<1>3. \A k \in DOMAIN w : w[k].address # d.address
  BY <1>1 DEF Elements
<1>4. Distinct(Append(w, d))
  BY <1>1, <1>2, <1>3 DEF Distinct
<1>5. Elements(Append(w, d)) = Elements(w) \cup {d}
  BY <1>1, AppendElements
<1> QED
  BY <1>1, <1>2, <1>4, <1>5 DEF w

-----------------------------------------------------------------------------
(* The invariant of the device list.                                       *)

LEMMA LinesTyped ==
  /\ \A r \in Scans \cup Listings : r \in Seq(LineType)
  /\ \A l \in LineType : l.value \in Values /\ AdapterName(l.value) \in Values
BY ListsAssumption DEF ListsAssumption, LineType, AdapterName

LEMMA NewDeviceType == ASSUME NEW v \in Values PROVE NewDevice(v) \in CecDevice
BY ListsAssumption DEF ListsAssumption, NewDevice, CecDevice

LEMMA BoundIsNat == MaxAnswers \in Nat
BY ListsAssumption, Zenon DEF ListsAssumption

LEMMA InitDevicesInv == Init => DevicesInv
<1> SUFFICES ASSUME Init PROVE DevicesInv
  OBVIOUS
<1>1. NewDevice("") \in CecDevice
  BY NewDeviceType, ListsAssumption DEF ListsAssumption
<1> DEFINE empty == <<>>
           noDevice == NewDevice("")
<1>2. \A S : empty \in Seq(S)
  OBVIOUS
<1>3. DOMAIN empty = {} /\ Len(empty) = 0
  OBVIOUS
<1>4. /\ mDeviceInfoList = empty /\ mAdaptersList = empty
      /\ pc = [t \in Threads |-> "idle"] /\ it = [t \in Threads |-> 1]
      /\ resp = [t \in Threads |-> empty] /\ respCmd = [t \in Threads |-> empty]
      /\ device = [t \in Threads |-> noDevice] /\ answers = 0
  BY DEF Init
<1> HIDE DEF empty, noDevice
<1>5. noDevice \in CecDevice
  BY <1>1 DEF noDevice
<1>6. TypeOK
  <2>1. resp \in [Threads -> Seq(LineType)] /\ \A t \in Threads : it[t] <= Len(resp[t]) + 1
    BY <1>2, <1>3, <1>4
  <2>2. answers \in 0..MaxAnswers
    BY <1>4, BoundIsNat
  <2> QED
    BY <1>2, <1>4, <1>5, <2>1, <2>2 DEF TypeOK
<1>7. RepliesTyped
  BY <1>2, <1>4 DEF RepliesTyped, ScanPcs
<1>8. Distinct(mDeviceInfoList)
  BY <1>3, <1>4 DEF Distinct
<1> QED
  BY <1>6, <1>7, <1>8 DEF DevicesInv

\* The line at the iterator is a line.
LEMMA LineAt ==
  ASSUME TypeOK, NEW t \in Threads, ~AtEnd(t)
  PROVE  Line(t) \in LineType /\ it[t] + 1 \in Nat \ {0} /\ it[t] + 1 <= Len(resp[t]) + 1
<1>1. resp[t] \in Seq(LineType) /\ it[t] \in Nat \ {0} /\ it[t] <= Len(resp[t]) + 1
  BY DEF TypeOK
<1>2. Len(resp[t]) \in Nat
  BY <1>1, LenProperties
<1>3. it[t] \in 1..Len(resp[t])
  BY <1>1, <1>2 DEF AtEnd
<1> QED
  BY <1>1, <1>2, <1>3 DEF Line

LEMMA NextDevicesInv == DevicesInv /\ [Next]_vars => DevicesInv'
<1> SUFFICES ASSUME DevicesInv, [Next]_vars PROVE DevicesInv'
  OBVIOUS
<1> USE DEF DevicesInv
<1> DEFINE Inv == TypeOK' /\ RepliesTyped' /\ Distinct(mDeviceInfoList)'
<1>1. ASSUME NEW t \in Threads, NEW r \in Scans, Begin(t, r, "lines", "scanned") PROVE Inv
  <2>1. r \in Seq(LineType) /\ Len(r) \in Nat
    BY LinesTyped, LenProperties
  <2>2. /\ resp' = [resp EXCEPT ![t] = r] /\ it' = [it EXCEPT ![t] = 1]
        /\ answers < MaxAnswers /\ answers' = answers + 1
        /\ respCmd' = [respCmd EXCEPT ![t] = <<>>]
        /\ pc' = [pc EXCEPT ![t] = IF r = <<>> THEN "scanned" ELSE "lines"]
        /\ UNCHANGED <<lists, device>>
    BY <1>1 DEF Begin, Goto
  <2>3. TypeOK'
    <3>1. answers' \in 0..MaxAnswers
      BY <2>2, BoundIsNat DEF TypeOK
    <3>2. resp' \in [Threads -> Seq(LineType)] /\ it' \in [Threads -> Nat \ {0}]
      BY <2>1, <2>2 DEF TypeOK
    <3>3. \A u \in Threads : it'[u] <= Len(resp'[u]) + 1
      BY <2>1, <2>2 DEF TypeOK
    <3> QED
      BY <2>2, <3>1, <3>2, <3>3 DEF TypeOK, lists
  <2> QED
    BY <2>2, <2>3 DEF TypeOK, RepliesTyped, ScanPcs, Distinct, lists
<1>2. ASSUME NEW t \in Threads, NEW r \in Listings, Begin(t, r, "clear", "listed") PROVE Inv
  <2>1. r \in Seq(LineType) /\ Len(r) \in Nat
    BY LinesTyped, LenProperties
  <2>2. /\ resp' = [resp EXCEPT ![t] = r] /\ it' = [it EXCEPT ![t] = 1]
        /\ answers < MaxAnswers /\ answers' = answers + 1
        /\ respCmd' = [respCmd EXCEPT ![t] = <<>>]
        /\ pc' = [pc EXCEPT ![t] = IF r = <<>> THEN "listed" ELSE "clear"]
        /\ UNCHANGED <<lists, device>>
    BY <1>2 DEF Begin, Goto
  <2>3. TypeOK'
    <3>1. answers' \in 0..MaxAnswers
      BY <2>2, BoundIsNat DEF TypeOK
    <3>2. resp' \in [Threads -> Seq(LineType)] /\ it' \in [Threads -> Nat \ {0}]
      BY <2>1, <2>2 DEF TypeOK
    <3>3. \A u \in Threads : it'[u] <= Len(resp'[u]) + 1
      BY <2>1, <2>2 DEF TypeOK
    <3> QED
      BY <2>2, <3>1, <3>2, <3>3 DEF TypeOK, lists
  <2> QED
    BY <2>2, <2>3 DEF TypeOK, RepliesTyped, ScanPcs, Distinct, lists
<1>3. ASSUME NEW t \in Threads, ClearAdapters(t) PROVE Inv
  BY <1>3 DEF ClearAdapters, Goto, frames, TypeOK, RepliesTyped, ScanPcs, Distinct
<1>4. ASSUME NEW t \in Threads, AdapterLine(t) PROVE Inv
  <2>1. Line(t) \in LineType /\ it[t] + 1 \in Nat \ {0} /\ it[t] + 1 <= Len(resp[t]) + 1
    BY <1>4, LineAt DEF AdapterLine
  <2>2. /\ it' = [it EXCEPT ![t] = it[t] + 1] /\ pc[t] = "adapters"
        /\ UNCHANGED <<mDeviceInfoList, pc, resp, device, answers>>
    BY <1>4 DEF AdapterLine, Advance
  <2>3. AdapterName(Line(t).value) \in Values
    BY <2>1, LinesTyped
  <2>4. /\ mAdaptersList' \in Seq(Values)
        /\ respCmd' \in [Threads -> Seq(CecDevice \cup Values)]
        /\ \A u \in Threads \ {t} : respCmd'[u] = respCmd[u]
    <3> DEFINE name == AdapterName(Line(t).value)
    <3>1. CASE "com port" \in Line(t).words
      <4>1. /\ respCmd' = [respCmd EXCEPT ![t] = Append(respCmd[t], name)]
            /\ mAdaptersList' = Append(mAdaptersList, name)
        BY <1>4, <3>1 DEF AdapterLine
      <4>2. mAdaptersList \in Seq(Values) /\ respCmd \in [Threads -> Seq(CecDevice \cup Values)]
        BY DEF TypeOK, RepliesTyped
      <4> HIDE DEF name
      <4>3. Append(mAdaptersList, name) \in Seq(Values)
        BY <2>3, <4>2 DEF name
      <4>4. Append(respCmd[t], name) \in Seq(CecDevice \cup Values)
        BY <2>3, <4>2 DEF name
      <4> QED
        BY <4>1, <4>2, <4>3, <4>4
    <3>2. CASE "com port" \notin Line(t).words
      BY <1>4, <3>2 DEF AdapterLine, TypeOK, RepliesTyped
    <3> QED
      BY <3>1, <3>2
  <2>5. TypeOK'
    BY <2>1, <2>2, <2>4 DEF TypeOK
  <2> QED
    BY <2>2, <2>4, <2>5 DEF TypeOK, RepliesTyped, ScanPcs, Distinct
<1>5. ASSUME NEW t \in Threads, DeviceLine(t) PROVE Inv
  <2>1. Line(t) \in LineType /\ it[t] + 1 \in Nat \ {0} /\ it[t] + 1 <= Len(resp[t]) + 1
    BY <1>5, LineAt DEF DeviceLine
  <2>2. NewDevice(Line(t).value) \in CecDevice
    BY <2>1, LinesTyped, NewDeviceType
  <2>3. /\ device' \in [Threads -> CecDevice]
        /\ it' = [it EXCEPT ![t] = it[t] + 1] /\ pc[t] = "lines"
        /\ pc' = pc \/ pc' = [pc EXCEPT ![t] = "block"]
        /\ UNCHANGED <<lists, resp, respCmd, answers>>
    BY <1>5, <2>2 DEF DeviceLine, Advance, Goto, TypeOK
  <2> QED
    BY <2>1, <2>3 DEF TypeOK, RepliesTyped, ScanPcs, Distinct, lists
<1>6. ASSUME NEW t \in Threads, FieldLine(t) PROVE Inv
  <2>1. Line(t) \in LineType /\ it[t] + 1 \in Nat \ {0} /\ it[t] + 1 <= Len(resp[t]) + 1
    BY <1>6, LineAt DEF FieldLine, AtBlockEnd
  <2>2. Filled(Line(t), device[t]) \in CecDevice
    BY <2>1, FilledType DEF TypeOK
  <2>3. /\ device' \in [Threads -> CecDevice]
        /\ it' = [it EXCEPT ![t] = it[t] + 1]
        /\ UNCHANGED <<lists, pc, resp, respCmd, answers>>
    BY <1>6, <2>2 DEF FieldLine, Advance, TypeOK
  <2> QED
    BY <2>1, <2>3 DEF TypeOK, RepliesTyped, ScanPcs, Distinct, lists
<1>7. ASSUME NEW t \in Threads, RecordDevice(t) PROVE Inv
  <2> DEFINE d == device[t]
             new == Append(WithoutFirst(mDeviceInfoList, d.address), d)
  <2>1. /\ mDeviceInfoList' = new /\ pc' = [pc EXCEPT ![t] = "lines"] /\ pc[t] = "block"
        /\ respCmd' = [respCmd EXCEPT ![t] = Append(respCmd[t], d)]
        /\ UNCHANGED <<mAdaptersList, resp, it, device, answers>>
    BY <1>7 DEF RecordDevice, Goto
  <2>2. d \in CecDevice
    BY DEF TypeOK
  <2>3. new \in Seq(CecDevice) /\ Distinct(new)
    BY <2>2, Replaced DEF TypeOK
  <2>4. respCmd[t] \in Seq(CecDevice) /\ respCmd[t] \in Seq(CecDevice \cup Values)
    BY <2>1 DEF RepliesTyped, ScanPcs
  <2> HIDE DEF new, d
  <2>5. /\ Append(respCmd[t], d) \in Seq(CecDevice)
        /\ Append(respCmd[t], d) \in Seq(CecDevice \cup Values)
    BY <2>2, <2>4
  <2>6. TypeOK'
    BY <2>1, <2>3 DEF TypeOK
  <2>7. RepliesTyped'
    BY <2>1, <2>5 DEF RepliesTyped, ScanPcs
  <2> QED
    BY <2>1, <2>3, <2>6, <2>7
<1>8. ASSUME NEW t \in Threads, Finish(t) PROVE Inv
  BY <1>8 DEF Finish, Goto, lists, frames, TypeOK, RepliesTyped, ScanPcs, Distinct
<1>9. ASSUME NEW t \in Threads, Reply(t) PROVE Inv
  BY <1>9 DEF Reply, Goto, lists, frames, TypeOK, RepliesTyped, ScanPcs, Distinct
<1>10. CASE UNCHANGED vars
  BY <1>10 DEF vars, lists, frames, TypeOK, RepliesTyped, Distinct
<1> QED
  BY <1>1, <1>2, <1>3, <1>4, <1>5, <1>6, <1>7, <1>8, <1>9, <1>10 DEF Next, Step

-----------------------------------------------------------------------------
(* What a step does to the table that GetDeviceInfo reads.                 *)

LEMMA ListStep ==
  ASSUME [Next]_vars
  PROVE  UNCHANGED mDeviceInfoList \/ \E t \in Threads : RecordDevice(t)
BY DEF Next, Step, Begin, ClearAdapters, AdapterLine, DeviceLine, FieldLine, Finish, Reply,
       vars, lists

LEMMA SameTable ==
  ASSUME UNCHANGED mDeviceInfoList, NEW a
  PROVE  GetDeviceInfo(a)' = GetDeviceInfo(a)
BY DEF GetDeviceInfo, FirstAt

LEMMA RecordedTable ==
  ASSUME DevicesInv, DevicesInv', NEW t \in Threads, RecordDevice(t), NEW a
  PROVE  GetDeviceInfo(a)' = IF a = device[t].address THEN {device[t]} ELSE GetDeviceInfo(a)
<1> DEFINE d == device[t]
<1>1. d \in CecDevice /\ mDeviceInfoList \in Seq(CecDevice) /\ Distinct(mDeviceInfoList)
  BY DEF DevicesInv, TypeOK
<1>2. mDeviceInfoList' = Append(WithoutFirst(mDeviceInfoList, d.address), d)
  BY DEF RecordDevice
<1> HIDE DEF d
<1>3. Elements(mDeviceInfoList') = {e \in Elements(mDeviceInfoList) : e.address # d.address} \cup {d}
  BY <1>1, <1>2, Replaced
<1>4. GetDeviceInfo(a) = {e \in Elements(mDeviceInfoList) : e.address = a}
  BY <1>1, GetDeviceInfoElements
<1>5. GetDeviceInfo(a)' = {e \in Elements(mDeviceInfoList') : e.address = a}
  <2>1. mDeviceInfoList' \in Seq(CecDevice) /\ Distinct(mDeviceInfoList')
    BY DEF DevicesInv, TypeOK, Distinct
  <2>2. FirstAt(mDeviceInfoList', a) = {i \in DOMAIN mDeviceInfoList' : mDeviceInfoList'[i].address = a}
    BY <2>1, FirstIsOnly
  <2> QED
    BY <2>2 DEF GetDeviceInfo, Elements
<1>6. GetDeviceInfo(a)' = IF a = d.address THEN {d} ELSE GetDeviceInfo(a)
  BY <1>3, <1>4, <1>5
<1> QED
  BY <1>6 DEF d

LEMMA InitTable == Init => Table!Init
<1> SUFFICES ASSUME Init, NEW a \in Values PROVE GetDeviceInfo(a) = {}
  BY DEF Table!Init, DevicesByAddress
<1>1. mDeviceInfoList = <<>>
  BY DEF Init
<1>2. FirstAt(mDeviceInfoList, a) = {}
  BY <1>1 DEF FirstAt
<1> QED
  BY <1>2 DEF GetDeviceInfo

\* A report of a device is one step of the table, and nothing else is.
LEMMA StepTable ==
  ASSUME DevicesInv, DevicesInv', [Next]_vars
  PROVE  [Table!Next]_DevicesByAddress
<1>1. CASE UNCHANGED mDeviceInfoList
  <2>1. DevicesByAddress' = DevicesByAddress
    BY <1>1, SameTable DEF DevicesByAddress
  <2> QED
    BY <2>1
<1>2. ASSUME NEW t \in Threads, RecordDevice(t) PROVE Table!Next
  <2> DEFINE d == device[t]
  <2>1. d \in CecDevice /\ d.address \in Values
    BY DEF DevicesInv, TypeOK, CecDevice
  <2>2. \A a \in Values : GetDeviceInfo(a)' = IF a = d.address THEN {d} ELSE GetDeviceInfo(a)
    BY <1>2, RecordedTable
  <2> HIDE DEF d
  <2>3. DevicesByAddress' = [DevicesByAddress EXCEPT ![d.address] = {d}]
    BY <2>1, <2>2 DEF DevicesByAddress
  <2>4. Table!Report(d)
    BY <2>1, <2>3 DEF Table!Report
  <2>5. d \in DevicesByAddress'[d.address]
    BY <2>1, <2>2 DEF DevicesByAddress
  <2> QED
    BY <2>1, <2>4, <2>5 DEF Table!Next
<1> QED
  BY <1>1, <1>2, ListStep

\* A device of a reply stays known, since no step empties an entry.
LEMMA NextScannedIsKnown ==
  ASSUME DevicesInv, DevicesInv', ScannedIsKnown, [Next]_vars PROVE ScannedIsKnown'
<1> DEFINE Known(r) == \A n \in DOMAIN r : GetDeviceInfo(r[n].address) # {}
<1> SUFFICES ASSUME NEW u \in Threads, pc'[u] \in ScanPcs PROVE Known(respCmd[u])'
  BY DEF ScannedIsKnown, ScanPcs
<1>1. pc[u] \in ScanPcs => Known(respCmd[u])
  BY DEF ScannedIsKnown, ScanPcs
<1>2. /\ pc \in [Threads -> {"idle", "clear", "adapters", "lines", "block", "listed", "scanned"}]
      /\ respCmd \in [Threads -> Seq(CecDevice \cup Values)]
  BY DEF DevicesInv, TypeOK, RepliesTyped
<1>3. ASSUME NEW t \in Threads, RecordDevice(t) PROVE Known(respCmd[u])'
  <2> DEFINE d == device[t]
  <2>1. \A a : GetDeviceInfo(a)' = IF a = d.address THEN {d} ELSE GetDeviceInfo(a)
    BY <1>3, RecordedTable
  <2>2. \A a : GetDeviceInfo(a) # {} => GetDeviceInfo(a)' # {}
    BY <2>1
  <2>3. pc[t] = "block" /\ respCmd' = [respCmd EXCEPT ![t] = Append(respCmd[t], d)]
          /\ pc' = [pc EXCEPT ![t] = "lines"]
    BY <1>3 DEF RecordDevice, Goto
  <2>4. Known(respCmd[u])
    BY <1>1, <1>2, <2>3 DEF ScanPcs
  <2>5. CASE u # t
    <3>1. respCmd'[u] = respCmd[u]
      BY <1>2, <2>3, <2>5
    <3> QED
      BY <2>2, <2>4, <3>1
  <2>6. CASE u = t
    <3>1. respCmd'[u] = Append(respCmd[u], d) /\ respCmd[u] \in Seq(CecDevice \cup Values)
      BY <1>2, <2>3, <2>6
    <3> HIDE DEF d
    <3>2. d \in CecDevice
      BY DEF DevicesInv, TypeOK, d
    <3>3. ASSUME NEW n \in DOMAIN respCmd'[u]
          PROVE  respCmd'[u][n] = d \/ (n \in DOMAIN respCmd[u] /\ respCmd'[u][n] = respCmd[u][n])
      BY <3>1, <3>2
    <3>4. \A a : a = d.address => GetDeviceInfo(a)' # {}
      BY <2>1 DEF d
    <3> QED
      BY <2>2, <2>4, <3>3, <3>4
  <2> QED
    BY <2>5, <2>6
<1>4. CASE UNCHANGED mDeviceInfoList
  <2>1. \A a : GetDeviceInfo(a)' = GetDeviceInfo(a)
    BY <1>4, SameTable
  <2>2. CASE \E t \in Threads : RecordDevice(t)
    BY <1>3, <2>2
  <2>3. CASE ~\E t \in Threads : RecordDevice(t)
    <3>1. respCmd'[u] = <<>> \/ (respCmd'[u] = respCmd[u] /\ pc[u] \in ScanPcs)
      BY <1>2, <2>3, ZenonT(40)
         DEF Next, Step, Begin, ClearAdapters, AdapterLine, DeviceLine, FieldLine,
             Finish, Reply, Goto, ScanPcs, vars, frames
    <3>2. CASE respCmd'[u] = <<>>
      BY <3>2
    <3>3. CASE respCmd'[u] = respCmd[u] /\ pc[u] \in ScanPcs
      BY <1>1, <2>1, <3>3
    <3> QED
      BY <3>1, <3>2, <3>3
  <2> QED
    BY <2>2, <2>3
<1> QED
  BY <1>3, <1>4, ListStep

-----------------------------------------------------------------------------
(* The adapters.                                                           *)

Allowed == listing.last \cup listing.overlapped

\* Thread t has listed the adapters of the last listing, as far as it got.
Lists(t) ==
  /\ pc[t] = "adapters"
  /\ NamesIn(resp[t]) = listing.last
  /\ \A i \in Ports(resp[t]) :
       i < it[t] => AdapterName(resp[t][i].value) \in Elements(mAdaptersList)

\* Every adapter, and every one that a thread will yet add, is allowed; and
\* the last listing is complete or a thread is at work on it.
AdaptersInv ==
  /\ Elements(mAdaptersList) \subseteq Allowed
  /\ \A t \in Threads : pc[t] = "adapters" => NamesIn(resp[t]) \subseteq Allowed
  /\ \A t \in Threads : pc[t] = "clear" => it[t] = 1
  /\ listing.last \subseteq Elements(mAdaptersList) \/ \E t \in Threads : Lists(t)

LEMMA PortIndex ==
  ASSUME NEW r \in Seq(LineType), NEW i \in Ports(r)
  PROVE  i \in Nat /\ 1 <= i /\ i <= Len(r)
<1>1. Len(r) \in Nat /\ DOMAIN r = 1..Len(r)
  BY LenProperties
<1>2. i \in DOMAIN r
  BY DEF Ports
<1> QED
  BY <1>1, <1>2

LEMMA InitAdaptersInv == Init => AdaptersInv
<1> SUFFICES ASSUME Init PROVE AdaptersInv
  OBVIOUS
<1>1. mAdaptersList = <<>> /\ listing.last = {} /\ pc = [t \in Threads |-> "idle"]
  BY DEF Init
<1>2. Elements(mAdaptersList) = {}
  BY <1>1 DEF Elements
<1> QED
  BY <1>1, <1>2 DEF AdaptersInv

\* A listing clears the list: nothing is left, and its own names are the last.
LEMMA ClearKeeps ==
  ASSUME TypeOK, AdaptersInv, NEW t \in Threads, ClearAdapters(t) PROVE AdaptersInv'
<1>1. /\ mAdaptersList' = <<>> /\ pc[t] = "clear" /\ pc' = [pc EXCEPT ![t] = "adapters"]
      /\ listing'.last = NamesIn(resp[t])
      /\ listing'.overlapped = UNION {NamesIn(resp[u]) : u \in {v \in Threads : pc[v] = "adapters"}}
      /\ resp' = resp /\ it' = it
  BY DEF ClearAdapters, Goto, frames
<1>2. Elements(mAdaptersList') = {}
  BY <1>1 DEF Elements
<1>3. ASSUME NEW u \in Threads, pc'[u] = "adapters" PROVE NamesIn(resp'[u]) \subseteq Allowed'
  <2>1. u = t \/ pc[u] = "adapters"
    BY <1>1, <1>3 DEF TypeOK
  <2> QED
    BY <1>1, <2>1 DEF Allowed
<1>4. Lists(t)'
  <2>1. it'[t] = 1 /\ pc'[t] = "adapters"
    BY <1>1 DEF AdaptersInv, TypeOK
  <2>2. \A i \in Ports(resp'[t]) : ~(i < it'[t])
    <3>1. resp'[t] \in Seq(LineType)
      BY <1>1 DEF TypeOK
    <3>2. \A i \in Ports(resp'[t]) : i \in Nat /\ i >= 1
      BY <3>1, PortIndex
    <3> QED
      BY <2>1, <3>2
  <2> QED
    BY <1>1, <2>1, <2>2 DEF Lists
<1>5. \A u \in Threads : pc'[u] = "clear" => it'[u] = 1
  BY <1>1 DEF AdaptersInv, TypeOK
<1> QED
  BY <1>2, <1>3, <1>4, <1>5 DEF AdaptersInv

\* A line adds one of the names of its thread's listing, and takes none away.
LEMMA AdapterLineKeeps ==
  ASSUME TypeOK, AdaptersInv, NEW t \in Threads, AdapterLine(t) PROVE AdaptersInv'
<1> DEFINE name == AdapterName(Line(t).value)
<1>1. /\ pc[t] = "adapters" /\ ~AtEnd(t) /\ it' = [it EXCEPT ![t] = it[t] + 1]
      /\ UNCHANGED <<listing, pc, resp>>
  BY DEF AdapterLine, Advance
<1>2. it[t] \in DOMAIN resp[t] /\ Line(t) = resp[t][it[t]] /\ resp[t] \in Seq(LineType)
  <2>1. resp[t] \in Seq(LineType) /\ it[t] \in Nat \ {0} /\ it[t] <= Len(resp[t]) + 1
    BY DEF TypeOK
  <2>2. Len(resp[t]) \in Nat /\ DOMAIN resp[t] = 1..Len(resp[t])
    BY <2>1, LenProperties
  <2> QED
    BY <1>1, <2>1, <2>2 DEF AtEnd, Line
<1>3. CASE "com port" \in Line(t).words
  <2>1. mAdaptersList' = Append(mAdaptersList, name) /\ mAdaptersList \in Seq(Values)
    BY <1>3 DEF AdapterLine, TypeOK
  <2>2. it[t] \in Ports(resp[t]) /\ name = AdapterName(resp[t][it[t]].value)
    BY <1>2, <1>3 DEF Ports
  <2>3. name \in NamesIn(resp[t])
    BY <2>2 DEF NamesIn
  <2> HIDE DEF name
  <2>4. Elements(mAdaptersList') = Elements(mAdaptersList) \cup {name}
    BY <2>1, AppendElements
  <2>5. Elements(mAdaptersList') \subseteq Allowed'
    BY <1>1, <2>3, <2>4 DEF AdaptersInv, Allowed
  <2>6. ASSUME NEW u \in Threads, Lists(u) PROVE Lists(u)'
    <3>1. ASSUME NEW i \in Ports(resp[u]), i < it'[u]
          PROVE  AdapterName(resp[u][i].value) \in Elements(mAdaptersList')
      <4>1. i < it[u] \/ (u = t /\ i = it[t])
        <5>1. i \in Nat /\ it[u] \in Nat
          <6>1. resp[u] \in Seq(LineType)
            BY DEF TypeOK
          <6> QED
            BY <6>1, PortIndex DEF TypeOK
        <5> QED
          BY <1>1, <3>1, <5>1 DEF TypeOK
      <4> QED
        BY <2>2, <2>4, <2>6, <4>1 DEF Lists
    <3> QED
      BY <1>1, <2>6, <3>1 DEF Lists
  <2> QED
    BY <1>1, <2>4, <2>5, <2>6 DEF AdaptersInv, Allowed, TypeOK
<1>4. CASE "com port" \notin Line(t).words
  <2>1. mAdaptersList' = mAdaptersList
    BY <1>4 DEF AdapterLine
  <2>2. it[t] \notin Ports(resp[t])
    BY <1>2, <1>4 DEF Ports
  <2>3. ASSUME NEW u \in Threads, Lists(u) PROVE Lists(u)'
    <3>1. ASSUME NEW i \in Ports(resp[u]), i < it'[u] PROVE i < it[u]
      <4>1. i \in Nat /\ it[u] \in Nat
        <5>1. resp[u] \in Seq(LineType)
          BY DEF TypeOK
        <5> QED
          BY <5>1, PortIndex DEF TypeOK
      <4> QED
        BY <1>1, <2>2, <3>1, <4>1 DEF TypeOK
    <3> QED
      BY <1>1, <2>1, <2>3, <3>1 DEF Lists
  <2> QED
    BY <1>1, <2>1, <2>3 DEF AdaptersInv, Allowed, TypeOK
<1> QED
  BY <1>3, <1>4

\* A thread ends its listing with all of its names in the list.
LEMMA FinishKeeps ==
  ASSUME TypeOK, AdaptersInv, NEW t \in Threads, Finish(t) PROVE AdaptersInv'
<1>1. /\ AtEnd(t) /\ UNCHANGED <<lists, resp, it>>
      /\ \E l \in {"listed", "scanned"} : pc' = [pc EXCEPT ![t] = l]
  BY DEF Finish, Goto, frames
<1>2. ASSUME Lists(t) PROVE listing.last \subseteq Elements(mAdaptersList)
  <2>1. resp[t] \in Seq(LineType) /\ it[t] = Len(resp[t]) + 1
    BY <1>1 DEF TypeOK, AtEnd
  <2>2. \A i \in Ports(resp[t]) : i < it[t]
    <3>1. \A i \in Ports(resp[t]) : i \in Nat /\ i <= Len(resp[t])
      BY <2>1, PortIndex
    <3>2. Len(resp[t]) \in Nat
      BY <2>1, LenProperties
    <3> QED
      BY <2>1, <3>1, <3>2
  <2> QED
    BY <1>2, <2>2 DEF Lists, NamesIn
<1>3. ASSUME NEW u \in Threads, u # t, Lists(u) PROVE Lists(u)'
  BY <1>1, <1>3 DEF Lists, lists, TypeOK
<1> QED
  BY <1>1, <1>2, <1>3 DEF AdaptersInv, Allowed, lists, TypeOK

LEMMA NextAdaptersInv ==
  ASSUME TypeOK, AdaptersInv, [Next]_vars PROVE AdaptersInv'
<1>1. ASSUME NEW t \in Threads, ClearAdapters(t) \/ AdapterLine(t) \/ Finish(t) PROVE AdaptersInv'
  BY <1>1, ClearKeeps, AdapterLineKeeps, FinishKeeps
\* The others do not touch the adapters, nor a thread that lists them.
<1>2. ASSUME NEW t \in Threads,
             pc[t] \notin {"adapters", "clear"} \/ UNCHANGED <<pc, it, resp>>,
             UNCHANGED <<mAdaptersList, listing>>,
             \A u \in Threads \ {t} : pc'[u] = pc[u] /\ it'[u] = it[u] /\ resp'[u] = resp[u],
             pc'[t] \notin {"adapters", "clear"} \/ (pc'[t] = "clear" /\ it'[t] = 1)
               \/ UNCHANGED <<pc, it, resp>>
      PROVE  AdaptersInv'
  <2>1. ASSUME NEW u \in Threads, Lists(u) PROVE Lists(u)'
    BY <1>2, <2>1 DEF Lists
  <2> QED
    BY <1>2, <2>1 DEF AdaptersInv, Allowed
<1>3. ASSUME NEW t \in Threads, NEW r \in Scans, Begin(t, r, "lines", "scanned") PROVE AdaptersInv'
  BY <1>2, <1>3 DEF Begin, Goto, lists, TypeOK
<1>4. ASSUME NEW t \in Threads, NEW r \in Listings, Begin(t, r, "clear", "listed") PROVE AdaptersInv'
  BY <1>2, <1>4 DEF Begin, Goto, lists, TypeOK
<1>5. ASSUME NEW t \in Threads, DeviceLine(t) PROVE AdaptersInv'
  BY <1>2, <1>5 DEF DeviceLine, Advance, Goto, lists, TypeOK
<1>6. ASSUME NEW t \in Threads, FieldLine(t) PROVE AdaptersInv'
  BY <1>2, <1>6 DEF FieldLine, Advance, lists, TypeOK
<1>7. ASSUME NEW t \in Threads, RecordDevice(t) PROVE AdaptersInv'
  BY <1>2, <1>7 DEF RecordDevice, Goto, lists, TypeOK
<1>8. ASSUME NEW t \in Threads, Reply(t) PROVE AdaptersInv'
  BY <1>2, <1>8 DEF Reply, Goto, lists, frames, TypeOK
<1>9. CASE UNCHANGED vars
  BY <1>9 DEF vars, lists, frames, AdaptersInv, Allowed, Lists
<1> QED
  BY <1>1, <1>3, <1>4, <1>5, <1>6, <1>7, <1>8, <1>9 DEF Next, Step

-----------------------------------------------------------------------------
\* The inductive invariant of the two lists: types, one entry for an address,
\* what the replies hold, and who is at work on the last listing.
THEOREM ListsInvariant == SafeSpec => [](DevicesInv /\ AdaptersInv)
<1>1. Init => DevicesInv /\ AdaptersInv
  BY InitDevicesInv, InitAdaptersInv
<1>2. DevicesInv /\ AdaptersInv /\ [Next]_vars => (DevicesInv /\ AdaptersInv)'
  BY NextDevicesInv, NextAdaptersInv DEF DevicesInv
<1> QED
  BY <1>1, <1>2, PTL DEF SafeSpec

\* For any answers and threads: the device list, written by several threads
\* in critical sections (src/handlers/DefaultCecHandler.cpp lines 411-422),
\* is a table from addresses to devices whose entries are replaced at once.
THEOREM ListImplementsTable == SafeSpec => ImplementsTable
<1>1. DevicesInv /\ DevicesInv' /\ [Next]_vars => [Table!Next]_DevicesByAddress
  BY StepTable
<1> QED
  BY InitTable, <1>1, ListsInvariant, PTL DEF SafeSpec, ImplementsTable, Table!Spec

\* For any answers and threads: a device that a reply names has an entry.
THEOREM RepliesAreKnown == SafeSpec => []ScannedIsKnown
<1>1. Init => ScannedIsKnown
  BY DEF Init, ScannedIsKnown
<1>2. DevicesInv /\ DevicesInv' /\ ScannedIsKnown /\ [Next]_vars => ScannedIsKnown'
  BY NextScannedIsKnown
<1> QED
  BY <1>1, <1>2, ListsInvariant, PTL DEF SafeSpec

\* For any answers and threads: the adapters are those of the last listing.
THEOREM AdaptersAreOfLastListing == SafeSpec => []AdaptersOfLastListing
<1>1. AdaptersInv => AdaptersOfLastListing
  BY DEF AdaptersInv, AdaptersOfLastListing, Allowed, Lists
<1> QED
  BY <1>1, ListsInvariant, PTL

\* The types of the lists, and of the locals of the threads that fill them: no
\* iterator is moved beyond the end of the lines (lines 348 to 425).
THEOREM ListsTypes == SafeSpec => []TypeOK
<1>1. DevicesInv => TypeOK
  BY DEF DevicesInv
<1> QED
  BY <1>1, ListsInvariant, PTL

-----------------------------------------------------------------------------
(* The reply to a listing.                                                 *)

\* Nobody else adds a name to the list that thread t cleared.
Alone(t) == resp[t] # <<>> /\ listing.by = {t} /\ listing.overlapped = {}

\* A listing under way makes up the reply along with the list; one that did not
\* clear the list last was under way when it was cleared.
AcceptedInv ==
  /\ \A t \in Threads : pc[t] = "clear" => respCmd[t] = <<>>
  /\ \A t \in Threads :
       pc[t] = "adapters" /\ listing.by # {t} => NamesIn(resp[t]) \subseteq listing.overlapped
  /\ \A t \in Threads :
       pc[t] \in {"adapters", "listed"} /\ Alone(t) => mAdaptersList = respCmd[t]

LEMMA InitAcceptedInv == Init => AcceptedInv
<1> SUFFICES ASSUME Init PROVE AcceptedInv
  OBVIOUS
<1>1. \A t \in Threads : pc[t] = "idle"
  BY DEF Init
<1> QED
  BY <1>1 DEF AcceptedInv

LEMMA NextAcceptedInv ==
  ASSUME TypeOK, RepliesTyped, AcceptedInv, [Next]_vars
  PROVE  AcceptedInv'
<1>0. /\ pc \in [Threads -> {"idle", "clear", "adapters", "lines", "block",
                             "listed", "scanned"}]
      /\ respCmd \in [Threads -> Seq(CecDevice \cup Values)]
      /\ resp \in [Threads -> Seq(LineType)]
  BY DEF TypeOK, RepliesTyped
<1>1. ASSUME NEW t \in Threads, ClearAdapters(t) PROVE AcceptedInv'
  <2>1. /\ pc[t] = "clear" /\ mAdaptersList' = <<>> /\ listing'.by = {t}
        /\ pc' = [pc EXCEPT ![t] = "adapters"] /\ UNCHANGED <<resp, respCmd>>
    BY <1>1 DEF ClearAdapters, Goto, frames
  <2>2. listing'.overlapped = UNION {NamesIn(resp[u]) : u \in {v \in Threads : pc[v] = "adapters"}}
    BY <1>1 DEF ClearAdapters
  <2>3. /\ pc'[t] = "adapters" /\ respCmd'[t] = <<>>
        /\ \A u \in Threads \ {t} : pc'[u] = pc[u] /\ listing'.by # {u}
    BY <1>0, <2>1 DEF AcceptedInv
  <2>4. ASSUME NEW u \in Threads, pc'[u] = "adapters", listing'.by # {u}
        PROVE  NamesIn(resp[u]) \subseteq listing'.overlapped
    <3>1. pc[u] = "adapters"
      BY <2>1, <2>3, <2>4
    <3>2. u \in {v \in Threads : pc[v] = "adapters"}
      BY <3>1
    <3> QED
      BY <2>2, <3>2, Zenon
  <2> QED
    BY <2>1, <2>3, <2>4 DEF AcceptedInv, Alone
<1>2. ASSUME NEW t \in Threads, AdapterLine(t) PROVE AcceptedInv'
  <2>1. pc[t] = "adapters" /\ ~AtEnd(t) /\ UNCHANGED <<pc, resp, listing>>
    BY <1>2 DEF AdapterLine
  <2>2. it[t] \in DOMAIN resp[t] /\ Line(t) = resp[t][it[t]]
    <3>1. resp[t] \in Seq(LineType) /\ it[t] \in Nat \ {0} /\ it[t] <= Len(resp[t]) + 1
      BY DEF TypeOK
    <3>2. Len(resp[t]) \in Nat /\ DOMAIN resp[t] = 1..Len(resp[t])
      BY <3>1, LenProperties
    <3> QED
      BY <2>1, <3>1, <3>2 DEF AtEnd, Line
  <2>3. CASE "com port" \notin Line(t).words
    BY <1>2, <2>1, <2>3 DEF AdapterLine, AcceptedInv, Alone
  <2>4. CASE "com port" \in Line(t).words
    <3> DEFINE name == AdapterName(Line(t).value)
    <3>1. /\ mAdaptersList' = Append(mAdaptersList, name)
          /\ respCmd' = [respCmd EXCEPT ![t] = Append(respCmd[t], name)]
      BY <1>2, <2>4 DEF AdapterLine
    <3>2. name \in NamesIn(resp[t])
      <4>1. it[t] \in Ports(resp[t])
        BY <2>2, <2>4 DEF Ports
      <4> QED
        BY <2>2, <4>1 DEF NamesIn
    <3> HIDE DEF name
    <3>3. ASSUME NEW u \in Threads, pc[u] \in {"adapters", "listed"}, Alone(u)
          PROVE  mAdaptersList' = respCmd'[u]
      <4>1. u = t
        BY <2>1, <3>2, <3>3 DEF AcceptedInv, Alone
      <4> QED
        BY <1>0, <3>1, <3>3, <4>1 DEF AcceptedInv
    <3>4. \A u \in Threads : pc[u] = "clear" => respCmd'[u] = <<>>
      BY <1>0, <2>1, <3>1 DEF AcceptedInv
    <3> QED
      BY <2>1, <3>3, <3>4 DEF AcceptedInv, Alone
  <2> QED
    BY <2>3, <2>4
\* The others leave the lists alone; a new answer begins with an empty reply.
<1>3. ASSUME NEW t \in Threads, UNCHANGED <<mAdaptersList, listing>>,
             \A u \in Threads \ {t} :
               pc'[u] = pc[u] /\ resp'[u] = resp[u] /\ respCmd'[u] = respCmd[u],
             pc'[t] = "clear" => respCmd'[t] = <<>>,
             pc'[t] \in {"adapters", "listed"} =>
               resp'[t] = <<>> \/ (/\ pc[t] = "adapters"
                                   /\ resp'[t] = resp[t] /\ respCmd'[t] = respCmd[t]),
             pc'[t] # "adapters"
      PROVE  AcceptedInv'
  <2>1. \A u \in Threads : pc'[u] = "clear" => respCmd'[u] = <<>>
    BY <1>3 DEF AcceptedInv
  <2>2. ASSUME NEW u \in Threads, pc'[u] = "adapters", listing.by # {u}
        PROVE  NamesIn(resp'[u]) \subseteq listing.overlapped
    BY <1>3, <2>2 DEF AcceptedInv
  <2>3. ASSUME NEW u \in Threads, pc'[u] \in {"adapters", "listed"}, Alone(u)'
        PROVE  mAdaptersList = respCmd'[u]
    <3>1. /\ resp'[u] # <<>> /\ resp'[u] = resp[u] /\ respCmd'[u] = respCmd[u]
          /\ pc[u] \in {"adapters", "listed"}
      BY <1>3, <2>3 DEF Alone
    <3> QED
      BY <1>3, <2>3, <3>1 DEF AcceptedInv, Alone
  <2> QED
    BY <1>3, <2>1, <2>2, <2>3 DEF AcceptedInv
<1>4. ASSUME NEW t \in Threads, NEW r \in Scans, Begin(t, r, "lines", "scanned") PROVE AcceptedInv'
  BY <1>0, <1>3, <1>4 DEF Begin, Goto, lists
<1>5. ASSUME NEW t \in Threads, NEW r \in Listings, Begin(t, r, "clear", "listed") PROVE AcceptedInv'
  BY <1>0, <1>3, <1>5 DEF Begin, Goto, lists
<1>6. ASSUME NEW t \in Threads, DeviceLine(t) \/ FieldLine(t) \/ RecordDevice(t) PROVE AcceptedInv'
  <2>1. /\ pc[t] \in {"lines", "block"}
        /\ pc' = pc \/ \E l \in {"lines", "block"} : pc' = [pc EXCEPT ![t] = l]
        /\ UNCHANGED <<mAdaptersList, listing, resp>>
        /\ \A u \in Threads \ {t} : respCmd'[u] = respCmd[u]
    BY <1>0, <1>6 DEF DeviceLine, FieldLine, RecordDevice, Goto, lists
  <2> QED
    BY <1>0, <1>3, <2>1
<1>7. ASSUME NEW t \in Threads, Finish(t) PROVE AcceptedInv'
  BY <1>0, <1>3, <1>7 DEF Finish, Goto, lists, frames
<1>8. ASSUME NEW t \in Threads, Reply(t) PROVE AcceptedInv'
  BY <1>0, <1>3, <1>8 DEF Reply, Goto, lists, frames
<1>9. CASE UNCHANGED vars
  BY <1>9 DEF vars, lists, frames, AcceptedInv, Alone
<1> QED
  BY <1>1, <1>2, <1>4, <1>5, <1>6, <1>7, <1>8, <1>9 DEF Next, Step

\* For any answers and threads: the names that the reply to a listing gives are
\* the list that requests are validated against, element by element, unless
\* another listing got in between.
THEOREM ListingsAreAccepted == SafeSpec => []ListedIsAccepted
<1>1. AcceptedInv => ListedIsAccepted
  BY DEF AcceptedInv, ListedIsAccepted, Alone
<1>2. DevicesInv /\ AcceptedInv /\ [Next]_vars => AcceptedInv'
  BY NextAcceptedInv DEF DevicesInv
<1> QED
  BY <1>1, <1>2, InitAcceptedInv, ListsInvariant, PTL DEF SafeSpec

-----------------------------------------------------------------------------
(* The reply to a scan.                                                    *)

\* The lines that begin a block, and those of them up to line n.
Heads(r) == {i \in DOMAIN r : "device" \in r[i].words}
HeadsTo(r, n) == {h \in Heads(r) : h <= n}
Count(r, n) == Cardinality(HeadsTo(r, n))

BlockEnds(r, n) == n = Len(r) + 1 \/ n \in Heads(r)

\* The lines of the block of line c in front of line n.
Part(r, c, n) == {j \in Block(r, c) : j < n}

\* Device d is what line c and the lines of a part of its block say.
ReadFrom(r, c, part, d) ==
  /\ d.name = r[c].value
  /\ \E from \in [FilledFields(d) -> part] : Explains(from, r, part, d)

\* The list s has a device for each block that begins up to line n.
Recorded(r, n, s) ==
  /\ Len(s) = Count(r, n)
  /\ \A i \in HeadsTo(r, n) : ReadFrom(r, i, Block(r, i), s[Count(r, i)])

\* In the block of line c the iterator is at line n.
InBlock(r, c, n) == c < n /\ \A k \in (c + 1)..(n - 1) : k \notin Heads(r)

\* A thread at p, with its lines, its iterator, its device and its reply.
ScanSound(p, r, n, d, s) ==
  /\ p \in {"lines", "scanned"} =>
       Recorded(r, n - 1, s) /\ (HeadsTo(r, n - 1) = {} \/ BlockEnds(r, n))
  /\ p = "scanned" => n = Len(r) + 1
  /\ p = "block" =>
       \E c \in Heads(r) :
         InBlock(r, c, n) /\ Recorded(r, c - 1, s) /\ ReadFrom(r, c, Part(r, c, n), d)

ScansSound ==
  \A t \in Threads : ScanSound(pc[t], resp[t], it[t], device[t], respCmd[t])

-----------------------------------------------------------------------------
(* The heads of the blocks, and their number.                              *)

LEMMA HeadsAreLines ==
  ASSUME NEW r \in Seq(LineType)
  PROVE  /\ Len(r) \in Nat /\ DOMAIN r = 1..Len(r)
         /\ Heads(r) \subseteq 1..Len(r)
         /\ \A n : HeadsTo(r, n) \subseteq Heads(r)
         /\ \A n : IsFiniteSet(HeadsTo(r, n))
<1>1. Len(r) \in Nat /\ DOMAIN r = 1..Len(r)
  BY LenProperties
<1>2. Heads(r) \subseteq 1..Len(r) /\ \A n : HeadsTo(r, n) \subseteq Heads(r)
  BY <1>1 DEF Heads, HeadsTo
<1>3. ASSUME NEW n PROVE IsFiniteSet(HeadsTo(r, n))
  <2>1. IsFiniteSet(1..Len(r))
    BY <1>1, FS_Interval
  <2>2. HeadsTo(r, n) \in SUBSET (1..Len(r))
    BY <1>2
  <2> QED
    BY <2>1, <2>2, FS_Subset
<1> QED
  BY <1>1, <1>2, <1>3

\* A head adds one to the number.
LEMMA HeadCounts ==
  ASSUME NEW r \in Seq(LineType), NEW c \in Heads(r)
  PROVE  /\ HeadsTo(r, c) = HeadsTo(r, c - 1) \cup {c}
         /\ Count(r, c - 1) \in Nat /\ Count(r, c) = Count(r, c - 1) + 1
<1>1. c \in Nat /\ \A h \in Heads(r) : h \in Nat
  BY HeadsAreLines
<1>2. HeadsTo(r, c) = HeadsTo(r, c - 1) \cup {c} /\ c \notin HeadsTo(r, c - 1)
  <2>1. \A h \in Heads(r) : h <= c <=> h <= c - 1 \/ h = c
    BY <1>1
  <2>2. ~(c <= c - 1)
    BY <1>1
  <2> QED
    BY <2>1, <2>2, Zenon DEF HeadsTo
<1>3. IsFiniteSet(HeadsTo(r, c - 1))
  BY HeadsAreLines
<1>4. Cardinality(HeadsTo(r, c - 1)) \in Nat
  BY <1>3, FS_CardinalityType
<1>5. Cardinality(HeadsTo(r, c - 1) \cup {c}) = Cardinality(HeadsTo(r, c - 1)) + 1
  BY <1>2, <1>3, FS_AddElement
<1> QED
  BY <1>2, <1>4, <1>5 DEF Count

\* A head in front of line n has a place in the list of n's heads.
LEMMA HeadPlace ==
  ASSUME NEW r \in Seq(LineType), NEW n, NEW i \in HeadsTo(r, n), n \in Int
  PROVE  Count(r, n) \in Nat /\ Count(r, i) \in 1..Count(r, n)
<1>1. i \in Heads(r) /\ i \in Nat /\ i <= n /\ \A h \in Heads(r) : h \in Nat
  BY HeadsAreLines DEF HeadsTo
<1>2. HeadsTo(r, i) \in SUBSET HeadsTo(r, n)
  <2>1. \A h \in Heads(r) : h <= i => h <= n
    BY <1>1
  <2> QED
    BY <2>1, Zenon DEF HeadsTo
<1>3. IsFiniteSet(HeadsTo(r, n))
  BY HeadsAreLines
<1>4. Cardinality(HeadsTo(r, n)) \in Nat
  BY <1>3, FS_CardinalityType
<1>5. Cardinality(HeadsTo(r, i)) <= Cardinality(HeadsTo(r, n))
  BY <1>2, <1>3, FS_Subset
<1>6. Count(r, i - 1) \in Nat /\ Count(r, i) = Count(r, i - 1) + 1
  BY <1>1, HeadCounts
<1> QED
  BY <1>4, <1>5, <1>6 DEF Count

\* Nothing has been recorded where no block begins.
LEMMA NothingRecorded ==
  ASSUME NEW r, NEW n, HeadsTo(r, n) = {}
  PROVE  Recorded(r, n, <<>>)
<1>1. Cardinality({}) = 0
  BY FS_EmptySet
<1>2. Len(<<>>) = 0
  OBVIOUS
<1> QED
  BY <1>1, <1>2 DEF Recorded, Count

\* Where no block begins in between, the same has been recorded.
LEMMA SameRecorded ==
  ASSUME NEW r, NEW s, NEW m, NEW n, HeadsTo(r, m) = HeadsTo(r, n)
  PROVE  Recorded(r, m, s) <=> Recorded(r, n, s)
BY DEF Recorded, Count

\* The device of one more block.
LEMMA OneMoreRecorded ==
  ASSUME NEW r \in Seq(LineType), NEW c \in Heads(r),
         NEW s \in Seq(CecDevice), Recorded(r, c - 1, s),
         NEW d \in CecDevice, ReadFrom(r, c, Block(r, c), d)
  PROVE  Recorded(r, c, Append(s, d))
<1>1. /\ Count(r, c - 1) \in Nat /\ Count(r, c) = Count(r, c - 1) + 1
      /\ HeadsTo(r, c) = HeadsTo(r, c - 1) \cup {c} /\ c - 1 \in Int
  BY HeadCounts, HeadsAreLines
<1>2. Len(s) = Count(r, c - 1)
  BY DEF Recorded
<1>3. /\ Len(Append(s, d)) = Len(s) + 1
      /\ \A k \in 1..Len(s) : Append(s, d)[k] = s[k]
      /\ Append(s, d)[Len(s) + 1] = d
  BY AppendProperties
<1>4. ASSUME NEW i \in HeadsTo(r, c - 1)
      PROVE  ReadFrom(r, i, Block(r, i), Append(s, d)[Count(r, i)])
  <2>1. Count(r, i) \in 1..Count(r, c - 1)
    BY <1>1, HeadPlace
  <2>2. Append(s, d)[Count(r, i)] = s[Count(r, i)]
    BY <1>2, <1>3, <2>1
  <2> QED
    BY <2>2 DEF Recorded
<1>5. Append(s, d)[Count(r, c)] = d
  BY <1>1, <1>2, <1>3
<1>6. \A i \in HeadsTo(r, c) : ReadFrom(r, i, Block(r, i), Append(s, d)[Count(r, i)])
  <2> SUFFICES ASSUME NEW i \in HeadsTo(r, c)
               PROVE  ReadFrom(r, i, Block(r, i), Append(s, d)[Count(r, i)])
    OBVIOUS
  <2>1. CASE i = c
    BY <1>5, <2>1
  <2>2. CASE i \in HeadsTo(r, c - 1)
    BY <1>4, <2>2
  <2> QED
    BY <1>1, <2>1, <2>2
<1> QED
  BY <1>1, <1>2, <1>3, <1>6 DEF Recorded

-----------------------------------------------------------------------------
(* The lines of a block.                                                   *)

\* Two tests fill different fields, which are fields of a device.
LEMMA TestsDiffer ==
  ASSUME NEW i \in 1..7, NEW j \in 1..7, Tests[i].field = Tests[j].field
  PROVE  i = j
BY FieldOfTest, SevenTests

LEMMA FieldsOfDevice ==
  ASSUME NEW d \in CecDevice, NEW f \in Fields, NEW v
  PROVE  /\ [d EXCEPT ![f] = v][f] = v
         /\ \A g \in Fields : g # f => [d EXCEPT ![f] = v][g] = d[g]
         /\ [d EXCEPT ![f] = v].name = d.name
         /\ d[f] = v => [d EXCEPT ![f] = v] = d
BY DEF CecDevice, Fields

\* One more line of the block: what it fills, if anything, is read from it.
LEMMA OneMoreLine ==
  ASSUME NEW r \in Seq(LineType), NEW n \in 1..Len(r), NEW P, P \subseteq 1..(n - 1),
         NEW d \in CecDevice,
         NEW from \in [FilledFields(d) -> P], Explains(from, r, P, d)
  PROVE  LET e == Filled(r[n], d)
         IN /\ e.name = d.name
            /\ \E g \in [FilledFields(e) -> P \cup {n}] : Explains(g, r, P \cup {n}, e)
<1> DEFINE hits == Passed(r[n], d)
           v == r[n].value
           F == FilledFields(d)
<1>0. /\ DOMAIN Tests = 1..7 /\ \A i \in 1..7 : Tests[i].field \in Fields
      /\ F \subseteq 1..7 /\ n \in Nat /\ n \notin P
      /\ DOMAIN from = F /\ \A i \in F : from[i] \in P /\ from[i] < n
  <2>1. DOMAIN Tests = 1..7 /\ \A i \in 1..7 : Tests[i].field \in Fields
    BY TestFields
  <2>2. F \subseteq 1..7
    BY <2>1 DEF FilledFields
  <2>3. n \in Nat /\ n \notin P /\ \A k \in P : k < n
    BY LenProperties
  <2> HIDE DEF F
  <2>4. DOMAIN from = F /\ \A i \in F : from[i] \in P
    BY Zenon DEF F
  <2> QED
    BY <2>1, <2>2, <2>3, <2>4
<1>1. \A i \in 1..7 : i \in F <=> d[Tests[i].field] # ""
  BY <1>0 DEF FilledFields
<1>2. hits = {i \in 1..7 : i \notin F /\ Tests[i].word \in r[n].words}
  BY <1>0, <1>1 DEF Passed
<1>3. /\ \A i, j \in F : from[i] = from[j] => i = j
      /\ \A i \in F : Tests[i].word \in r[from[i]].words /\ d[Tests[i].field] = r[from[i]].value
      /\ \A j \in P : \A i \in 1..7 :
           r[j].value # "" /\ Tests[i].word \in r[j].words =>
             (\E k \in F : from[k] = j) \/ (i \in F /\ from[i] < j)
  BY <1>0 DEF Explains
<1> HIDE DEF hits, F, v
\* The line changes nothing.
<1>4. ASSUME hits = {} \/ v = "", Filled(r[n], d) = d
      PROVE  Explains(from, r, P \cup {n}, d)
  <2>1. ASSUME NEW i \in 1..7, r[n].value # "", Tests[i].word \in r[n].words
        PROVE  i \in F /\ from[i] < n
    BY <1>0, <1>2, <1>4, <2>1 DEF v
  <2>2. ASSUME NEW j \in P \cup {n}, NEW i \in 1..7,
               r[j].value # "", Tests[i].word \in r[j].words
        PROVE  (\E k \in F : from[k] = j) \/ (i \in F /\ from[i] < j)
    BY <1>3, <2>1, <2>2
  <2> QED
    BY <1>0, <1>3, <2>2 DEF Explains
<1>5. CASE hits = {}
  <2>1. Filled(r[n], d) = d
    BY <1>5 DEF Filled, hits
  <2>2. from \in [F -> P \cup {n}]
    BY <1>0 DEF F
  <2> QED
    BY <1>4, <1>5, <2>1, <2>2 DEF F
<1>6. CASE hits # {}
  <2>1. PICK f \in hits : Filled(r[n], d) = [d EXCEPT ![Tests[f].field] = v]
    <3>1. \E i \in hits : \A j \in hits : i <= j
      BY <1>2, <1>6, LeastOfSeven
    <3> DEFINE first == CHOOSE i \in hits : \A j \in hits : i <= j
    <3>2. first \in hits
      BY <3>1
    <3>3. Filled(r[n], d) = [d EXCEPT ![Tests[first].field] = v]
      BY <1>6 DEF Filled, hits, v
    <3> HIDE DEF first
    <3> QED
      BY <3>2, <3>3
  <2>2. f \in 1..7 /\ f \notin F /\ Tests[f].word \in r[n].words /\ Tests[f].field \in Fields
    BY <1>0, <1>2
  <2> DEFINE e == [d EXCEPT ![Tests[f].field] = v]
  <2>3. /\ e[Tests[f].field] = v /\ e.name = d.name
        /\ d[Tests[f].field] = v => e = d
        /\ \A i \in 1..7 : i # f => e[Tests[i].field] = d[Tests[i].field]
    <3>1. \A i \in 1..7 : i # f => Tests[i].field # Tests[f].field
      BY <2>2, TestsDiffer
    <3> DEFINE x == Tests[f].field
    <3>2. x \in Fields
      BY <2>2
    <3> HIDE DEF x
    <3>3. /\ [d EXCEPT ![x] = v][x] = v
          /\ \A y \in Fields : y # x => [d EXCEPT ![x] = v][y] = d[y]
          /\ [d EXCEPT ![x] = v].name = d.name
          /\ d[x] = v => [d EXCEPT ![x] = v] = d
      BY <3>2, FieldsOfDevice, Zenon
    <3>4. e = [d EXCEPT ![x] = v]
      BY DEF x
    <3> HIDE DEF e
    <3>5. \A i \in 1..7 : i # f => Tests[i].field \in Fields /\ Tests[i].field # x
      BY <1>0, <3>1 DEF x
    <3> QED
      BY <3>3, <3>4, <3>5 DEF x
  <2> HIDE DEF e
  <2>4. CASE v = ""
    <3>1. e = d
      BY <1>1, <2>2, <2>3, <2>4
    <3>2. from \in [F -> P \cup {n}]
      BY <1>0 DEF F
    <3> QED
      BY <1>4, <2>1, <2>4, <3>1, <3>2 DEF F, e
  <2>5. CASE v # ""
    <3> DEFINE G == FilledFields(e)
               g == [i \in G |-> IF i = f THEN n ELSE from[i]]
    <3>1. G = F \cup {f}
      <4>1. G = {i \in 1..7 : e[Tests[i].field] # ""}
        BY <1>0 DEF FilledFields
      <4>2. \A i \in 1..7 : e[Tests[i].field] # "" <=> i \in F \/ i = f
        BY <1>1, <2>2, <2>3, <2>5
      <4> HIDE DEF G
      <4> QED
        BY <1>0, <2>2, <4>1, <4>2
    <3>2. /\ g \in [G -> P \cup {n}] /\ DOMAIN g = G
          /\ g[f] = n /\ \A i \in F : g[i] = from[i] /\ g[i] # n
      BY <1>0, <2>2, <3>1
    <3> HIDE DEF G, g
    <3>3. \A i, j \in G : g[i] = g[j] => i = j
      BY <1>3, <3>1, <3>2
    <3>4. \A i \in G : Tests[i].word \in r[g[i]].words /\ e[Tests[i].field] = r[g[i]].value
      <4>1. ASSUME NEW i \in F
            PROVE  Tests[i].word \in r[g[i]].words /\ e[Tests[i].field] = r[g[i]].value
        <5>1. i \in 1..7 /\ i # f /\ g[i] = from[i]
          BY <1>0, <2>2, <3>2
        <5>2. Tests[i].word \in r[from[i]].words /\ d[Tests[i].field] = r[from[i]].value
          BY <1>3
        <5>3. e[Tests[i].field] = d[Tests[i].field]
          BY <2>3, <5>1, Zenon
        <5> QED
          BY <5>1, <5>2, <5>3, Zenon
      <4>2. Tests[f].word \in r[g[f]].words /\ e[Tests[f].field] = r[g[f]].value
        BY <2>2, <2>3, <3>2 DEF v
      <4> QED
        BY <3>1, <4>1, <4>2
    <3>5. ASSUME NEW j \in P \cup {n}, NEW i \in 1..7,
                 r[j].value # "", Tests[i].word \in r[j].words
          PROVE  (\E k \in G : g[k] = j) \/ (i \in G /\ g[i] < j)
      <4>1. CASE j = n
        BY <3>1, <3>2, <4>1
      <4>2. CASE j \in P
        <5>1. (\E k \in F : from[k] = j) \/ (i \in F /\ from[i] < j)
          BY <1>3, <3>5, <4>2
        <5> QED
          BY <3>1, <3>2, <5>1
      <4> QED
        BY <4>1, <4>2
    <3>6. Explains(g, r, P \cup {n}, e)
      BY <1>0, <3>2, <3>3, <3>4, <3>5 DEF Explains
    <3> QED
      BY <2>1, <2>3, <3>2, <3>6 DEF G, e
  <2> QED
    BY <2>4, <2>5
<1> QED
  BY <1>5, <1>6

\* The block of a head is its part when the iterator is at its end.
LEMMA WholeBlock ==
  ASSUME NEW r \in Seq(LineType), NEW c \in Heads(r), NEW n \in Nat,
         BlockEnds(r, n), InBlock(r, c, n)
  PROVE  Part(r, c, n) = Block(r, c)
<1>1. Len(r) \in Nat /\ DOMAIN r = 1..Len(r) /\ c \in 1..Len(r) /\ Heads(r) \subseteq 1..Len(r)
  BY HeadsAreLines
<1> SUFFICES ASSUME NEW j \in Block(r, c) PROVE j < n
  BY Zenon DEF Part
<1>2. j \in 1..Len(r) /\ c < j /\ \A k \in (c + 1)..j : "device" \notin r[k].words
  BY <1>1 DEF Block
<1>3. CASE n = Len(r) + 1
  BY <1>1, <1>2, <1>3
<1>4. CASE n \in Heads(r)
  <2>1. "device" \in r[n].words /\ c < n
    BY <1>4 DEF Heads, InBlock
  <2>2. n \notin (c + 1)..j
    BY <1>2, <2>1
  <2> QED
    BY <1>1, <1>2, <2>1, <2>2
<1> QED
  BY <1>3, <1>4 DEF BlockEnds

\* The next line is in the block, unless the block ends.
LEMMA NextOfBlock ==
  ASSUME NEW r \in Seq(LineType), NEW c \in Heads(r), NEW n \in 1..Len(r),
         n \notin Heads(r), InBlock(r, c, n)
  PROVE  /\ InBlock(r, c, n + 1)
         /\ Part(r, c, n + 1) = Part(r, c, n) \cup {n}
         /\ Part(r, c, n) \subseteq 1..(n - 1)
<1>1. Len(r) \in Nat /\ DOMAIN r = 1..Len(r) /\ c \in 1..Len(r) /\ c < n
  BY HeadsAreLines DEF InBlock
<1>2. ASSUME NEW k \in (c + 1)..n PROVE k \notin Heads(r)
  <2>1. k = n \/ k \in (c + 1)..(n - 1)
    BY <1>1
  <2> QED
    BY <2>1 DEF InBlock
<1>3. InBlock(r, c, n + 1)
  <2>1. (n + 1) - 1 = n /\ c < n + 1
    BY <1>1
  <2> QED
    BY <1>2, <2>1 DEF InBlock
<1>4. n \in Block(r, c)
  <2>1. \A k \in (c + 1)..n : k \in DOMAIN r
    BY <1>1
  <2>2. \A k \in (c + 1)..n : "device" \notin r[k].words
    BY <1>2, <2>1, Zenon DEF Heads
  <2> QED
    BY <1>1, <2>2 DEF Block
<1>5. \A j \in Block(r, c) : j \in 1..Len(r)
  BY <1>1 DEF Block
<1>6. Part(r, c, n + 1) = Part(r, c, n) \cup {n}
  <2>1. \A j \in Block(r, c) : j < n + 1 <=> j < n \/ j = n
    BY <1>5
  <2> QED
    BY <1>4, <2>1, Zenon DEF Part
<1>7. \A j \in Part(r, c, n) : j \in 1..(n - 1)
  <2>1. \A j \in Block(r, c) : j < n => j \in 1..(n - 1)
    BY <1>5
  <2> QED
    BY <2>1 DEF Part
<1> QED
  BY <1>3, <1>6, <1>7

\* A block begins with the device of its head, and no field.
LEMMA NewBlock ==
  ASSUME NEW r \in Seq(LineType), NEW c \in Heads(r)
  PROVE  InBlock(r, c, c + 1) /\ ReadFrom(r, c, Part(r, c, c + 1), NewDevice(r[c].value))
<1>1. c \in Nat
  BY HeadsAreLines
<1>2. InBlock(r, c, c + 1)
  BY <1>1 DEF InBlock
<1> DEFINE d == NewDevice(r[c].value)
           none == [i \in {} |-> 0]
<1>3. Part(r, c, c + 1) = {}
  <2>1. \A j \in DOMAIN r : ~(c < j /\ j < c + 1)
    BY <1>1, HeadsAreLines
  <2> QED
    BY <2>1, Zenon DEF Part, Block
<1>4. FilledFields(d) = {}
  <2>1. \A f \in Fields : d[f] = ""
    <3>1. /\ d.address = "" /\ d.activeSource = "" /\ d.vendor = "" /\ d.osd = ""
          /\ d.cecVersion = "" /\ d.powerStatus = "" /\ d.language = ""
      BY DEF NewDevice
    <3> HIDE DEF d
    <3> QED
      BY <3>1 DEF Fields
  <2>2. DOMAIN Tests = 1..7 /\ \A i \in 1..7 : Tests[i].field \in Fields
    BY TestFields
  <2> HIDE DEF d
  <2> QED
    BY <2>1, <2>2, Zenon DEF FilledFields
<1>5. d.name = r[c].value
  BY DEF NewDevice
<1> HIDE DEF d
<1>6. DOMAIN none = {} /\ none \in [{} -> {}]
  OBVIOUS
<1> HIDE DEF none
<1>7. Explains(none, r, {}, d)
  BY <1>6, Zenon DEF Explains
<1> QED
  BY <1>2, <1>3, <1>4, <1>5, <1>6, <1>7, Zenon DEF ReadFrom, d

-----------------------------------------------------------------------------
(* The steps.                                                              *)

LEMMA InitScansSound == Init => ScansSound
<1> SUFFICES ASSUME Init PROVE ScansSound
  OBVIOUS
<1>1. pc = [t \in Threads |-> "idle"]
  BY DEF Init
<1> QED
  BY <1>1 DEF ScansSound, ScanSound

\* A thread that a step leaves alone, and the one that takes it.
LEMMA OthersSound ==
  ASSUME ScansSound, NEW t \in Threads,
         \A u \in Threads \ {t} :
           /\ pc'[u] = pc[u] /\ resp'[u] = resp[u] /\ it'[u] = it[u]
           /\ device'[u] = device[u] /\ respCmd'[u] = respCmd[u],
         ScanSound(pc'[t], resp'[t], it'[t], device'[t], respCmd'[t])
  PROVE  ScansSound'
<1> SUFFICES ASSUME NEW u \in Threads
             PROVE  ScanSound(pc'[u], resp'[u], it'[u], device'[u], respCmd'[u])
  BY DEF ScansSound
<1>1. CASE u # t
  <2>1. ScanSound(pc[u], resp[u], it[u], device[u], respCmd[u])
    BY DEF ScansSound
  <2> QED
    BY <1>1, <2>1
<1> QED
  BY <1>1

\* Where no scan is at work, there is nothing to say.
LEMMA NoScan ==
  ASSUME NEW p, p \notin ScanPcs, NEW r, NEW n, NEW d, NEW s
  PROVE  ScanSound(p, r, n, d, s)
BY DEF ScanPcs, ScanSound

\* The types of what a thread holds, and what is known of its scan.
LEMMA ThreadScan ==
  ASSUME DevicesInv, ScansSound, NEW t \in Threads
  PROVE  /\ pc \in [Threads -> {"idle", "clear", "adapters", "lines", "block",
                                "listed", "scanned"}]
         /\ resp \in [Threads -> Seq(LineType)] /\ it \in [Threads -> Nat \ {0}]
         /\ device \in [Threads -> CecDevice]
         /\ respCmd \in [Threads -> Seq(CecDevice \cup Values)]
         /\ pc[t] \in ScanPcs => respCmd[t] \in Seq(CecDevice)
         /\ it[t] \in 1..(Len(resp[t]) + 1) /\ Len(resp[t]) \in Nat
         /\ DOMAIN resp[t] = 1..Len(resp[t])
         /\ ScanSound(pc[t], resp[t], it[t], device[t], respCmd[t])
<1>1. ScanSound(pc[t], resp[t], it[t], device[t], respCmd[t])
  BY DEF ScansSound
<1>2. resp[t] \in Seq(LineType) /\ it[t] \in Nat \ {0} /\ it[t] <= Len(resp[t]) + 1
  BY DEF DevicesInv, TypeOK
<1>3. Len(resp[t]) \in Nat /\ DOMAIN resp[t] = 1..Len(resp[t])
  BY <1>2, LenProperties
<1>4. it[t] \in 1..(Len(resp[t]) + 1)
  BY <1>2, <1>3
<1>5. /\ pc \in [Threads -> {"idle", "clear", "adapters", "lines", "block",
                             "listed", "scanned"}]
      /\ resp \in [Threads -> Seq(LineType)] /\ it \in [Threads -> Nat \ {0}]
      /\ device \in [Threads -> CecDevice]
  BY DEF DevicesInv, TypeOK
<1>6. /\ respCmd \in [Threads -> Seq(CecDevice \cup Values)]
      /\ pc[t] \in ScanPcs => respCmd[t] \in Seq(CecDevice)
  BY DEF DevicesInv, RepliesTyped
<1> QED
  BY <1>1, <1>3, <1>4, <1>5, <1>6

LEMMA ScanBegins ==
  ASSUME DevicesInv, ScansSound, NEW t \in Threads, NEW r \in Scans,
         Begin(t, r, "lines", "scanned")
  PROVE  ScansSound'
<1>1. /\ resp' = [resp EXCEPT ![t] = r] /\ it' = [it EXCEPT ![t] = 1]
      /\ respCmd' = [respCmd EXCEPT ![t] = <<>>] /\ UNCHANGED device
      /\ pc' = [pc EXCEPT ![t] = IF r = <<>> THEN "scanned" ELSE "lines"]
  BY DEF Begin, Goto
<1>2. r \in Seq(LineType)
  BY LinesTyped
<1>3. HeadsTo(r, 1 - 1) = {}
  <2>1. \A h \in Heads(r) : ~(h <= 1 - 1)
    BY <1>2, HeadsAreLines
  <2> QED
    BY <2>1, Zenon DEF HeadsTo
<1> DEFINE empty == <<>>
           p == IF r = <<>> THEN "scanned" ELSE "lines"
<1>4. Recorded(r, 1 - 1, empty)
  BY <1>3, NothingRecorded
<1>5. p = "scanned" => 1 = Len(r) + 1
  OBVIOUS
<1>6. p \in {"lines", "scanned"}
  OBVIOUS
<1> HIDE DEF empty, p
<1>7. \A d : ScanSound(p, r, 1, d, empty)
  BY <1>3, <1>4, <1>5, <1>6 DEF ScanSound
<1>8. /\ pc'[t] = p /\ resp'[t] = r /\ it'[t] = 1 /\ respCmd'[t] = empty
      /\ \A u \in Threads \ {t} :
           /\ pc'[u] = pc[u] /\ resp'[u] = resp[u] /\ it'[u] = it[u]
           /\ device'[u] = device[u] /\ respCmd'[u] = respCmd[u]
  BY <1>1, ThreadScan DEF p, empty
<1> QED
  BY <1>7, <1>8, OthersSound

LEMMA DeviceLineSound ==
  ASSUME DevicesInv, ScansSound, NEW t \in Threads, DeviceLine(t)
  PROVE  ScansSound'
<1> DEFINE r == resp[t]
           n == it[t]
           s == respCmd[t]
<1>1. /\ pc[t] = "lines" /\ n # Len(r) + 1 /\ it' = [it EXCEPT ![t] = it[t] + 1]
      /\ IF "device" \in r[n].words
         THEN /\ device' = [device EXCEPT ![t] = NewDevice(r[n].value)]
              /\ pc' = [pc EXCEPT ![t] = "block"]
         ELSE UNCHANGED <<device, pc>>
      /\ UNCHANGED <<resp, respCmd>>
  BY DEF DeviceLine, IsDeviceLine, AtEnd, Line, Goto, Advance
<1>2. /\ r \in Seq(LineType) /\ Len(r) \in Nat /\ DOMAIN r = 1..Len(r) /\ n \in 1..Len(r)
      /\ ScanSound("lines", r, n, device[t], s)
  BY <1>1, ThreadScan
<1>3. /\ resp'[t] = r /\ respCmd'[t] = s /\ it'[t] = n + 1
      /\ \A u \in Threads \ {t} :
           /\ pc'[u] = pc[u] /\ resp'[u] = resp[u] /\ it'[u] = it[u]
           /\ device'[u] = device[u] /\ respCmd'[u] = respCmd[u]
  BY <1>1, ThreadScan
<1>4. CASE "device" \in r[n].words
  <2>1. pc'[t] = "block" /\ device'[t] = NewDevice(r[n].value)
    BY <1>1, <1>4, ThreadScan
  <2> HIDE DEF r, n, s
  <2>2. n \in Heads(r) /\ Recorded(r, n - 1, s)
    BY <1>2, <1>4 DEF Heads, ScanSound
  <2>3. InBlock(r, n, n + 1) /\ ReadFrom(r, n, Part(r, n, n + 1), NewDevice(r[n].value))
    BY <1>2, <2>2, NewBlock
  <2>4. ScanSound("block", r, n + 1, NewDevice(r[n].value), s)
    BY <2>2, <2>3 DEF ScanSound
  <2> QED
    BY <1>3, <2>1, <2>4, OthersSound
<1>5. CASE "device" \notin r[n].words
  <2>1. pc'[t] = "lines" /\ device'[t] = device[t]
    BY <1>1, <1>5
  <2> HIDE DEF r, n, s
  <2>2. n \notin Heads(r) /\ \A h \in Heads(r) : h \in Nat
    BY <1>2, <1>5, HeadsAreLines DEF Heads
  <2>3. HeadsTo(r, n - 1) = {} /\ Recorded(r, n - 1, s)
    BY <1>1, <1>2, <2>2 DEF ScanSound, BlockEnds, r, n
  <2>4. HeadsTo(r, (n + 1) - 1) = HeadsTo(r, n - 1)
    <3>1. \A h \in Heads(r) : h <= (n + 1) - 1 <=> h <= n - 1
      BY <1>2, <2>2
    <3> QED
      BY <3>1, Zenon DEF HeadsTo
  <2>5. Recorded(r, (n + 1) - 1, s)
    BY <2>3, <2>4, SameRecorded
  <2>6. ScanSound("lines", r, n + 1, device[t], s)
    BY <2>3, <2>4, <2>5 DEF ScanSound
  <2> QED
    BY <1>3, <2>1, <2>6, OthersSound
<1> QED
  BY <1>4, <1>5

LEMMA FieldLineSound ==
  ASSUME DevicesInv, ScansSound, NEW t \in Threads, FieldLine(t)
  PROVE  ScansSound'
<1> DEFINE r == resp[t]
           n == it[t]
           s == respCmd[t]
           d == device[t]
           e == Filled(r[n], d)
<1>1. /\ pc[t] = "block" /\ n # Len(r) + 1 /\ "device" \notin r[n].words
      /\ device' = [device EXCEPT ![t] = e] /\ it' = [it EXCEPT ![t] = it[t] + 1]
      /\ UNCHANGED <<pc, resp, respCmd>>
  BY DEF FieldLine, AtBlockEnd, IsDeviceLine, AtEnd, Line, Advance
<1>2. /\ r \in Seq(LineType) /\ Len(r) \in Nat /\ DOMAIN r = 1..Len(r) /\ n \in 1..Len(r)
      /\ d \in CecDevice /\ ScanSound("block", r, n, d, s)
  BY <1>1, ThreadScan
<1>3. /\ pc'[t] = "block" /\ resp'[t] = r /\ respCmd'[t] = s /\ it'[t] = n + 1
      /\ device'[t] = e
      /\ \A u \in Threads \ {t} :
           /\ pc'[u] = pc[u] /\ resp'[u] = resp[u] /\ it'[u] = it[u]
           /\ device'[u] = device[u] /\ respCmd'[u] = respCmd[u]
  BY <1>1, ThreadScan
<1> HIDE DEF r, n, s, d
<1>4. n \notin Heads(r)
  BY <1>1, <1>2 DEF Heads
<1>5. PICK c \in Heads(r) :
        InBlock(r, c, n) /\ Recorded(r, c - 1, s) /\ ReadFrom(r, c, Part(r, c, n), d)
  BY <1>2 DEF ScanSound
<1>6. /\ InBlock(r, c, n + 1)
      /\ Part(r, c, n + 1) = Part(r, c, n) \cup {n}
      /\ Part(r, c, n) \subseteq 1..(n - 1)
  BY <1>2, <1>4, <1>5, NextOfBlock
<1>7. PICK from \in [FilledFields(d) -> Part(r, c, n)] : Explains(from, r, Part(r, c, n), d)
  BY <1>5 DEF ReadFrom
<1>8. /\ e.name = d.name
      /\ \E g \in [FilledFields(e) -> Part(r, c, n) \cup {n}] :
           Explains(g, r, Part(r, c, n) \cup {n}, e)
  BY <1>2, <1>6, <1>7, OneMoreLine
<1> HIDE DEF e
<1>9. ReadFrom(r, c, Part(r, c, n + 1), e)
  BY <1>5, <1>6, <1>8, Zenon DEF ReadFrom
<1>10. ScanSound("block", r, n + 1, e, s)
  BY <1>5, <1>6, <1>9 DEF ScanSound
<1> QED
  BY <1>3, <1>10, OthersSound

LEMMA RecordDeviceSound ==
  ASSUME DevicesInv, ScansSound, NEW t \in Threads, RecordDevice(t)
  PROVE  ScansSound'
<1> DEFINE r == resp[t]
           n == it[t]
           s == respCmd[t]
           d == device[t]
<1>1. /\ pc[t] = "block" /\ pc' = [pc EXCEPT ![t] = "lines"]
      /\ n = Len(r) + 1 \/ "device" \in r[n].words
      /\ respCmd' = [respCmd EXCEPT ![t] = Append(s, d)]
      /\ UNCHANGED <<resp, it, device>>
  BY DEF RecordDevice, AtBlockEnd, IsDeviceLine, AtEnd, Line, Goto
<1>2. /\ r \in Seq(LineType) /\ Len(r) \in Nat /\ DOMAIN r = 1..Len(r)
      /\ n \in 1..(Len(r) + 1) /\ d \in CecDevice /\ s \in Seq(CecDevice)
      /\ ScanSound("block", r, n, d, s)
  BY <1>1, ThreadScan DEF ScanPcs
<1>3. /\ pc'[t] = "lines" /\ resp'[t] = r /\ it'[t] = n /\ device'[t] = d
      /\ respCmd'[t] = Append(s, d)
      /\ \A u \in Threads \ {t} :
           /\ pc'[u] = pc[u] /\ resp'[u] = resp[u] /\ it'[u] = it[u]
           /\ device'[u] = device[u] /\ respCmd'[u] = respCmd[u]
  BY <1>1, ThreadScan
<1> HIDE DEF r, n, s, d
<1>4. BlockEnds(r, n)
  <2>1. n = Len(r) + 1 \/ n \in DOMAIN r
    BY <1>2
  <2> QED
    BY <1>1, <2>1 DEF BlockEnds, Heads
<1>5. PICK c \in Heads(r) :
        InBlock(r, c, n) /\ Recorded(r, c - 1, s) /\ ReadFrom(r, c, Part(r, c, n), d)
  BY <1>2 DEF ScanSound
<1>6. Part(r, c, n) = Block(r, c)
  BY <1>2, <1>4, <1>5, WholeBlock
<1>7. Recorded(r, c, Append(s, d))
  BY <1>2, <1>5, <1>6, OneMoreRecorded
<1>8. HeadsTo(r, c) = HeadsTo(r, n - 1)
  <2>1. \A h \in Heads(r) : h <= c <=> h <= n - 1
    <3>1. /\ c \in Nat /\ c < n /\ \A h \in Heads(r) : h \in Nat
          /\ \A k \in (c + 1)..(n - 1) : k \notin Heads(r)
      BY <1>2, <1>5, HeadsAreLines DEF InBlock
    <3> QED
      BY <1>2, <3>1
  <2> QED
    BY <2>1, Zenon DEF HeadsTo
<1>9. Recorded(r, n - 1, Append(s, d))
  BY <1>7, <1>8, SameRecorded
<1>10. ScanSound("lines", r, n, d, Append(s, d))
  BY <1>4, <1>9 DEF ScanSound
<1> QED
  BY <1>3, <1>10, OthersSound

LEMMA NextScansSound == DevicesInv /\ ScansSound /\ [Next]_vars => ScansSound'
<1> SUFFICES ASSUME DevicesInv, ScansSound, [Next]_vars PROVE ScansSound'
  OBVIOUS
<1> DEFINE Still(t) ==
             \A u \in Threads \ {t} :
               /\ pc'[u] = pc[u] /\ resp'[u] = resp[u] /\ it'[u] = it[u]
               /\ device'[u] = device[u] /\ respCmd'[u] = respCmd[u]
<1>1. ASSUME NEW t \in Threads, NEW r \in Listings, Begin(t, r, "clear", "listed")
      PROVE  ScansSound'
  <2>1. pc'[t] \in {"clear", "listed"} /\ Still(t)
    BY <1>1, ThreadScan DEF Begin, Goto
  <2> QED
    BY <2>1, NoScan, OthersSound DEF ScanPcs
<1>2. ASSUME NEW t \in Threads, ClearAdapters(t) PROVE ScansSound'
  <2>1. pc'[t] = "adapters" /\ Still(t)
    BY <1>2, ThreadScan DEF ClearAdapters, Goto, frames
  <2> QED
    BY <2>1, NoScan, OthersSound DEF ScanPcs
<1>3. ASSUME NEW t \in Threads, AdapterLine(t) PROVE ScansSound'
  <2>1. pc[t] = "adapters" /\ UNCHANGED pc /\ Still(t)
    BY <1>3, ThreadScan DEF AdapterLine, Advance
  <2>2. pc'[t] = "adapters"
    BY <2>1
  <2> QED
    BY <2>1, <2>2, NoScan, OthersSound DEF ScanPcs
<1>4. ASSUME NEW t \in Threads, Finish(t) PROVE ScansSound'
  <2>1. /\ it[t] = Len(resp[t]) + 1 /\ UNCHANGED <<resp, it, device, respCmd>>
        /\ (pc[t] = "lines" /\ pc'[t] = "scanned") \/ pc'[t] = "listed"
        /\ Still(t)
    BY <1>4, ThreadScan DEF Finish, AtEnd, Goto, frames
  <2>2. CASE pc[t] = "lines" /\ pc'[t] = "scanned"
    <3>1. ScanSound("lines", resp[t], it[t], device[t], respCmd[t])
      BY <2>2, ThreadScan
    <3>2. ScanSound("scanned", resp[t], it[t], device[t], respCmd[t])
      BY <2>1, <3>1 DEF ScanSound
    <3> QED
      BY <2>1, <2>2, <3>2, OthersSound
  <2>3. CASE pc'[t] = "listed"
    BY <2>1, <2>3, NoScan, OthersSound DEF ScanPcs
  <2> QED
    BY <2>1, <2>2, <2>3
<1>5. ASSUME NEW t \in Threads, Reply(t) PROVE ScansSound'
  <2>1. pc'[t] = "idle" /\ Still(t)
    BY <1>5, ThreadScan DEF Reply, Goto, frames
  <2> QED
    BY <2>1, NoScan, OthersSound DEF ScanPcs
<1>6. CASE UNCHANGED vars
  BY <1>6 DEF vars, frames, ScansSound
<1> QED
  BY <1>1, <1>2, <1>3, <1>4, <1>5, <1>6, ScanBegins, DeviceLineSound, FieldLineSound,
     RecordDeviceSound DEF Next, Step

\* For any lines, on any threads: when the reply to a scan is made up, it has a
\* device for each device line, read from the lines of its own block.
THEOREM ScansAreFaithful == SafeSpec => []ScanReplyFaithful
<1>1. DevicesInv /\ ScansSound => ScanReplyFaithful
  <2> SUFFICES ASSUME DevicesInv, ScansSound, NEW t \in Threads, pc[t] = "scanned"
               PROVE  LET r == resp[t]
                          heads == {i \in DOMAIN r : "device" \in r[i].words}
                      IN /\ Len(respCmd[t]) = Cardinality(heads)
                         /\ \A i \in heads :
                              LET d == respCmd[t][Cardinality({h \in heads : h <= i})]
                              IN /\ d.name = r[i].value
                                 /\ \E from \in [FilledFields(d) -> Block(r, i)] :
                                      Explains(from, r, Block(r, i), d)
    BY Zenon DEF ScanReplyFaithful
  <2> DEFINE r == resp[t]
             n == it[t]
  <2>1. /\ r \in Seq(LineType) /\ Len(r) \in Nat /\ n = Len(r) + 1
        /\ Recorded(r, n - 1, respCmd[t])
    BY ThreadScan DEF ScanSound
  <2> HIDE DEF r, n
  <2>2. HeadsTo(r, n - 1) = Heads(r)
    <3>1. \A h \in Heads(r) : h <= n - 1
      BY <2>1, HeadsAreLines
    <3> QED
      BY <3>1, Zenon DEF HeadsTo
  <2>3. /\ Len(respCmd[t]) = Cardinality(Heads(r))
        /\ \A i \in Heads(r) : ReadFrom(r, i, Block(r, i), respCmd[t][Count(r, i)])
    BY <2>1, <2>2 DEF Recorded, Count
  <2> QED
    BY <2>3, Zenon DEF ReadFrom, Count, HeadsTo, Heads, r
<1> QED
  BY <1>1, InitScansSound, NextScansSound, ListsInvariant, PTL DEF SafeSpec
=============================================================================
