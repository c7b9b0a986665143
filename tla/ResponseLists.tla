---------------------------- MODULE ResponseLists ---------------------------
(***************************************************************************)
(* How the answers to a scan and to a listing of adapters become the lists *)
(* of DefaultCecHandler and the lists of the reply: HandleScanCb and       *)
(* HandleListAdaptersCb, line by line, on the two threads that may run     *)
(* them at the same time.  The lists are shared and each access of them is *)
(* a critical section of mMutex; the rest is local to the thread.          *)
(*                                                                         *)
(* Which command a callback takes is the business of module CecService:    *)
(* here it has taken one of its type.                                      *)
(***************************************************************************)
EXTENDS Naturals, Sequences, FiniteSets

CONSTANTS
  Threads,     \* the threads that run callbacks
  Values,      \* what follows the colon of a line, "" if nothing does
  Scans,       \* the answers that nyx may give to a scan
  Listings,    \* the answers that nyx may give to a listing of adapters
  MaxAnswers   \* bound: answers in a behaviour

\* The field that a line with a word fills, in the order of the tests.
Test(field, word) == [field |-> field, word |-> word]
Tests == <<Test("address", "address"), Test("activeSource", "active source"),
           Test("vendor", "vendor"), Test("osd", "osd string"),
           Test("cecVersion", "CEC version"), Test("powerStatus", "power status"),
           Test("language", "language")>>

Words == {Tests[i].word : i \in DOMAIN Tests} \cup {"device", "com port"}
LineType == [words: SUBSET Words, value: Values]

CecDevice == [name: Values, address: Values, activeSource: Values, vendor: Values,
              osd: Values, cecVersion: Values, powerStatus: Values, language: Values]

ASSUME ListsAssumption ==
  /\ {"", "cec0"} \subseteq Values
  /\ Scans \subseteq Seq(LineType) /\ Listings \subseteq Seq(LineType)
  /\ MaxAnswers \in Nat

VARIABLES
  mDeviceInfoList,
  mAdaptersList,
  pc,          \* where each thread is
  resp,        \* the lines it was called with
  it,          \* the iterator over them
  device,      \* the fields read so far of the block it is in
  respCmd,     \* the list in the reply it makes up
  answers,     \* number of answers so far
  listing      \* history: the thread that cleared mAdaptersList last, the names
               \* of its listing, and those of the listings it overlapped

lists == <<mDeviceInfoList, mAdaptersList, listing>>
frames == <<resp, it, device, respCmd>>
vars == <<lists, pc, frames, answers>>

Elements(s) == {s[i] : i \in DOMAIN s}
Goto(t, label) == pc' = [pc EXCEPT ![t] = label]
Advance(t) == it' = [it EXCEPT ![t] = it[t] + 1]

Line(t) == resp[t][it[t]]
AtEnd(t) == it[t] = Len(resp[t]) + 1

\* An empty answer goes straight to the reply, and leaves the lists alone.
Begin(t, r, first, reply) ==
  /\ pc[t] = "idle"
  /\ answers < MaxAnswers
  /\ answers' = answers + 1
  /\ resp' = [resp EXCEPT ![t] = r]
  /\ it' = [it EXCEPT ![t] = 1]
  /\ respCmd' = [respCmd EXCEPT ![t] = <<>>]
  /\ Goto(t, IF r = <<>> THEN reply ELSE first)
  /\ UNCHANGED <<lists, device>>

-----------------------------------------------------------------------------
(* HandleListAdaptersCb.                                                   *)

AdapterName(value) == IF value = "RPI" THEN "cec0" ELSE value

\* The adapters that lines name, for the history and the properties.
Ports(r) == {i \in DOMAIN r : "com port" \in r[i].words}
NamesIn(r) == {AdapterName(r[i].value) : i \in Ports(r)}

ClearNothing(t) ==
  /\ pc[t] = "clear"
  /\ listing' = [by |-> {t}, last |-> NamesIn(resp[t]), overlapped |-> {}]
  /\ Goto(t, "adapters")
  /\ UNCHANGED <<mDeviceInfoList, mAdaptersList, frames, answers>>

ClearAdapters(t) ==
  /\ pc[t] = "clear"
  /\ mAdaptersList' = <<>>
  /\ listing' = [by |-> {t}, last |-> NamesIn(resp[t]),
                 overlapped |-> UNION {NamesIn(resp[u]) :
                                         u \in {v \in Threads : pc[v] = "adapters"}}]
  /\ Goto(t, "adapters")
  /\ UNCHANGED <<mDeviceInfoList, frames, answers>>

AdapterLineRaw(t) ==
  /\ pc[t] = "adapters"
  /\ ~AtEnd(t)
  /\ IF "com port" \in Line(t).words
     THEN /\ respCmd' = [respCmd EXCEPT ![t] = Append(@, AdapterName(Line(t).value))]
          /\ mAdaptersList' = Append(mAdaptersList, Line(t).value)
     ELSE UNCHANGED <<respCmd, mAdaptersList>>
  /\ Advance(t)
  /\ UNCHANGED <<mDeviceInfoList, listing, pc, resp, device, answers>>

AdapterLine(t) ==
  /\ pc[t] = "adapters"
  /\ ~AtEnd(t)
  /\ IF "com port" \in Line(t).words
     THEN /\ respCmd' = [respCmd EXCEPT ![t] = Append(@, AdapterName(Line(t).value))]
          /\ mAdaptersList' = Append(mAdaptersList, AdapterName(Line(t).value))
     ELSE UNCHANGED <<respCmd, mAdaptersList>>
  /\ Advance(t)
  /\ UNCHANGED <<mDeviceInfoList, listing, pc, resp, device, answers>>

-----------------------------------------------------------------------------
(* HandleScanCb.                                                           *)

NewDevice(name) ==
  [name |-> name, address |-> "", activeSource |-> "", vendor |-> "", osd |-> "",
   cecVersion |-> "", powerStatus |-> "", language |-> ""]

IsDeviceLine(t) == ~AtEnd(t) /\ "device" \in Line(t).words
AtBlockEnd(t) == AtEnd(t) \/ IsDeviceLine(t)

DeviceLineStuck(t) ==
  /\ pc[t] = "lines"
  /\ IsDeviceLine(t)
  /\ device' = [device EXCEPT ![t] = NewDevice(Line(t).value)]
  /\ Goto(t, "block")
  /\ Advance(t)
  /\ UNCHANGED <<lists, resp, respCmd, answers>>

\* The outer loop: a block begins at a line that speaks of a device.
DeviceLine(t) ==
  /\ pc[t] = "lines"
  /\ ~AtEnd(t)
  /\ IF IsDeviceLine(t)
     THEN /\ device' = [device EXCEPT ![t] = NewDevice(Line(t).value)]
          /\ Goto(t, "block")
     ELSE UNCHANGED <<device, pc>>
  /\ Advance(t)
  /\ UNCHANGED <<lists, resp, respCmd, answers>>

PassedEvenFilled(line, d) == {i \in DOMAIN Tests : Tests[i].word \in line.words}

\* The tests that a line passes: a field that has a value is not tested for.
Passed(line, d) ==
  {i \in DOMAIN Tests : d[Tests[i].field] = "" /\ Tests[i].word \in line.words}

Filled(line, d) ==
  LET hits == Passed(line, d)
  IN IF hits = {} THEN d
     ELSE LET i == CHOOSE i \in hits : \A j \in hits : i <= j
          IN [d EXCEPT ![Tests[i].field] = line.value]

\* The inner loop: up to the next device line, each line fills a field at most.
FieldLine(t) ==
  /\ pc[t] = "block"
  /\ ~AtBlockEnd(t)
  /\ device' = [device EXCEPT ![t] = Filled(Line(t), device[t])]
  /\ Advance(t)
  /\ UNCHANGED <<lists, pc, resp, respCmd, answers>>

\* The list without the first device of address a.
FirstAt(s, a) ==
  {i \in DOMAIN s : s[i].address = a /\ \A j \in 1..(i - 1) : s[j].address # a}
WithoutNext(s, a) ==
  IF FirstAt(s, a) = {} THEN s
  ELSE [k \in 1..(Len(s) - 1) |->
          IF \E i \in FirstAt(s, a) : i < k THEN s[k + 1] ELSE s[k]]
WithoutFirst(s, a) ==
  IF FirstAt(s, a) = {} THEN s
  ELSE [k \in 1..(Len(s) - 1) |->
          IF \E i \in FirstAt(s, a) : i <= k THEN s[k + 1] ELSE s[k]]

RecordNewDevice(t) ==
  /\ pc[t] = "block"
  /\ AtBlockEnd(t)
  /\ respCmd' = [respCmd EXCEPT ![t] = Append(@, device[t])]
  /\ mDeviceInfoList' =
       IF FirstAt(mDeviceInfoList, device[t].address) = {}
       THEN Append(mDeviceInfoList, device[t])
       ELSE WithoutFirst(mDeviceInfoList, device[t].address)
  /\ Goto(t, "lines")
  /\ UNCHANGED <<mAdaptersList, listing, resp, it, device, answers>>

\* The end of a block: the device goes to the reply, and to the list in one
\* critical section, where it replaces the one of its address.
RecordDevice(t) ==
  /\ pc[t] = "block"
  /\ AtBlockEnd(t)
  /\ respCmd' = [respCmd EXCEPT ![t] = Append(@, device[t])]
  /\ mDeviceInfoList' =
       Append(WithoutFirst(mDeviceInfoList, device[t].address), device[t])
  /\ Goto(t, "lines")
  /\ UNCHANGED <<mAdaptersList, listing, resp, it, device, answers>>

\* The end of the answer, and the call of the command's callback.
Finish(t) ==
  /\ AtEnd(t)
  /\ \/ pc[t] = "adapters" /\ Goto(t, "listed")
     \/ pc[t] = "lines" /\ Goto(t, "scanned")
  /\ UNCHANGED <<lists, frames, answers>>

Reply(t) ==
  /\ pc[t] \in {"listed", "scanned"}
  /\ Goto(t, "idle")
  /\ UNCHANGED <<lists, frames, answers>>

-----------------------------------------------------------------------------
(* GetDeviceInfo: the first device of an address, if there is one.         *)

GetDeviceInfo(a) == {mDeviceInfoList[i] : i \in FirstAt(mDeviceInfoList, a)}

-----------------------------------------------------------------------------
Init ==
  /\ mDeviceInfoList = <<>>
  /\ mAdaptersList = <<>>
  /\ pc = [t \in Threads |-> "idle"]
  /\ resp = [t \in Threads |-> <<>>]
  /\ it = [t \in Threads |-> 1]
  /\ device = [t \in Threads |-> NewDevice("")]
  /\ respCmd = [t \in Threads |-> <<>>]
  /\ answers = 0
  /\ listing = [by |-> {}, last |-> {}, overlapped |-> {}]

Step(t) ==
  \/ ClearAdapters(t) \/ AdapterLine(t) \/ DeviceLine(t) \/ FieldLine(t)
  \/ RecordDevice(t) \/ Finish(t) \/ Reply(t)

Next ==
  \E t \in Threads :
    \/ \E r \in Scans : Begin(t, r, "lines", "scanned")
    \/ \E r \in Listings : Begin(t, r, "clear", "listed")
    \/ Step(t)

SafeSpec == Init /\ [][Next]_vars
Spec == SafeSpec /\ \A t \in Threads : WF_vars(Step(t))

-----------------------------------------------------------------------------
(* Properties.                                                             *)

\* The types of the variables; a thread in a loop is within its lines.
TypeOK ==
  /\ mDeviceInfoList \in Seq(CecDevice)
  /\ mAdaptersList \in Seq(Values)
  /\ pc \in [Threads -> {"idle", "clear", "adapters", "lines", "block",
                     "listed", "scanned"}]
  /\ resp \in [Threads -> Seq(LineType)]
  /\ it \in [Threads -> Nat \ {0}]
  /\ \A t \in Threads : it[t] <= Len(resp[t]) + 1
  /\ device \in [Threads -> CecDevice]
  /\ answers \in 0..MaxAnswers

Block(r, i) ==
  {j \in DOMAIN r : i < j /\ \A k \in (i + 1)..j : "device" \notin r[k].words}
FilledFields(d) == {i \in DOMAIN Tests : d[Tests[i].field] # ""}

\* Field i of a device was read from line from[i]; a line of its block that
\* has a value and a word of the device either filled a field, or came after
\* the line that filled the field of that word.
Explains(from, r, block, d) ==
  /\ \A i, j \in DOMAIN from : from[i] = from[j] => i = j
  /\ \A i \in DOMAIN from : /\ Tests[i].word \in r[from[i]].words
                            /\ d[Tests[i].field] = r[from[i]].value
  /\ \A j \in block : \A i \in DOMAIN Tests :
       r[j].value # "" /\ Tests[i].word \in r[j].words =>
         \/ \E k \in DOMAIN from : from[k] = j
         \/ i \in DOMAIN from /\ from[i] < j

\* The reply to a scan has one device for each device line, in their order;
\* no field is read from another device's block (src/handlers/
\* DefaultCecHandler.cpp lines 348-409), from the line of another field, or
\* lost to one.
ScanReplyFaithful ==
  \A t \in Threads : pc[t] = "scanned" =>
    LET r == resp[t]
        heads == {i \in DOMAIN r : "device" \in r[i].words}
    IN /\ Len(respCmd[t]) = Cardinality(heads)
       /\ \A i \in heads :
            LET d == respCmd[t][Cardinality({h \in heads : h <= i})]
            IN /\ d.name = r[i].value
               /\ \E from \in [FilledFields(d) -> Block(r, i)] :
                    Explains(from, r, Block(r, i), d)

\* The adapters that the reply to a listing names are those that requests may
\* then use, under the same names and in the same order, unless another listing
\* cleared the list since, or was adding names to it then (lines 463 to 475
\* make up the two lists apart from each other).
ListedIsAccepted ==
  \A t \in Threads :
    /\ pc[t] = "listed" /\ resp[t] # <<>>
    /\ listing.by = {t} /\ listing.overlapped = {}
    => mAdaptersList = respCmd[t]

\* A device that a reply names is known to ValidateAddress from then on: the
\* client may send a command to it at once.
ScannedIsKnown ==
  \A t \in Threads : pc[t] \in {"lines", "block", "scanned"} =>
    \A n \in DOMAIN respCmd[t] : GetDeviceInfo(respCmd[t][n].address) # {}

\* The adapters that requests are validated against are those of the listing
\* that cleared the list last, and nothing of an earlier one stays but what a
\* listing that was under way at that moment adds later.  The made-up line
\* "response: failed" is a listing too: it leaves no adapter at all.
AdaptersOfLastListing ==
  /\ Elements(mAdaptersList) \subseteq listing.last \cup listing.overlapped
  /\ (\A t \in Threads : pc[t] # "adapters") =>
       listing.last \subseteq Elements(mAdaptersList)

\* Every callback comes to its end, and the command is replied to: both loops
\* move the iterator (lines 350, 355, 365) on each of their paths.
CallbackEnds == \A t \in Threads : pc[t] # "idle" ~> pc[t] = "idle"

\* The list is the table of module DeviceTable, as GetDeviceInfo reads it.
DevicesByAddress == [a \in Values |-> GetDeviceInfo(a)]

Table == INSTANCE DeviceTable
           WITH Addresses <- Values, Device <- CecDevice, table <- DevicesByAddress

ImplementsTable == Table!Spec
=============================================================================
