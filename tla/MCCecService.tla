---------------------------- MODULE MCCecService ----------------------------
(* Small instances of CecService: requests and answers of nyx.             *)
EXTENDS CecService

CONSTANTS a1, a2, d1, d2

MCAdapters == {a1, a2}
MCAddresses == {d1, d2}

Req(type, adapter, dest, verdict) ==
  [type |-> type, adapter |-> adapter, dest |-> dest, verdict |-> verdict]

ListAdapters == Req("LIST_ADAPTERS", Empty, Empty, "ok")
Scan == Req("SCAN", a1, Empty, "ok")
ScanUnchecked == Req("SCAN", Empty, Empty, "ok")
Send == Req("SEND_COMMAND", a1, d1, "ok")
SendUnchecked == Req("SEND_COMMAND", Empty, d1, "ok")
SendUnknown == Req("SEND_COMMAND", Empty, d1, "command")
GetConfig == Req("GET_CONFIG", a1, Empty, "ok")
GetUnchecked == Req("GET_CONFIG", Empty, Empty, "ok")
SetBadKey == Req("SET_CONFIG", a1, Empty, "params")
BadJson == Req("SCAN", Empty, Empty, "json")
BadSchema == Req("GET_CONFIG", Empty, Empty, "schema")

Listing(adapters) == [none |-> FALSE, adapters |-> adapters, devices |-> <<>>]
Devices(devices) == [none |-> FALSE, adapters |-> <<>>, devices |-> devices]
Nothing == [none |-> TRUE, adapters |-> <<>>, devices |-> <<>>]

NyxAnswers(lists, scans) ==
  [type \in SendTypes |->
     CASE type = "LIST_ADAPTERS" -> lists
       [] type = "SCAN" -> scans
       [] OTHER -> {PlainAnswer}]

\* Listings that differ, scans of one and two devices, empty answers.
RichAnswers ==
  NyxAnswers({Listing(<<a2, a1>>), Nothing},
             {Devices(<<d2, d1>>), Nothing})
EmptyOrPlainAnswers ==
  NyxAnswers({Listing(<<a1>>), Nothing}, {Devices(<<d1>>), Nothing})
PairAnswers == NyxAnswers({Listing(<<a1>>)}, {Devices(<<d2, d1>>)})
PlainAnswers == NyxAnswers({Listing(<<a1>>)}, {Devices(<<d1>>)})

LineRequests ==
  {ListAdapters, ScanUnchecked, SendUnchecked, SendUnknown, GetConfig, SetBadKey,
   BadJson, BadSchema}
AsyncRequests == {ListAdapters, ScanUnchecked, SendUnchecked, GetUnchecked}
PatientRequests == {ListAdapters, Scan, Send, GetConfig}
RefusalRequests == {ListAdapters, GetConfig}
=============================================================================
