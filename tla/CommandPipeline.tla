-------------------------- MODULE CommandPipeline ---------------------------
(***************************************************************************)
(* What becomes of the data of one command: DefaultCecHandler validates    *)
(* its arguments, turns them into the params of a message, MessageQueue    *)
(* passes those to nyx, and the callback picks the payload of the reply    *)
(* from the lines that come back.  Validation, message and callback each   *)
(* have a table of their own of the commands and arguments they know; the  *)
(* properties are about their agreement.                                   *)
(*                                                                         *)
(* The adapter and the destination, whose validation depends on what other *)
(* commands do, are the business of module CecService.                     *)
(***************************************************************************)
EXTENDS Naturals, Sequences, FiniteSets

CONSTANTS
  Commands,    \* SEND_COMMAND, GET_CONFIG and SET_CONFIG requests
  Names,       \* argument and key names that may be given, and header names
  Values,      \* argument values that may be given
  Responses    \* sequences of lines that nyx may answer

\* A parameter of a command.  "" is a value left out, or empty.
ArgType == [arg: Names, value: Values]

\* name, dest and args are read of a SEND_COMMAND, key and value of the others.
CommandType ==
  [type: {"SEND_COMMAND", "GET_CONFIG", "SET_CONFIG"}, adapter: Values,
   dest: Values, name: STRING, args: Seq(ArgType), key: Names, value: Values]

\* A line of a response: the words that the callbacks look for in it, and
\* what follows the colon, the words or the quotation mark.
Words == {"power status", "mute", "volume", "osd string", "response",
          "vendor id", "CEC version", "OSD name of device", "language",
          "active", "not active", "address", "logical address", "type"}
LineType == [words: SUBSET Words, value: Values]

Headers == {"adapter", "destAddress", "timeout", "cmd-name"}

ASSUME PipelineAssumption ==
  /\ Commands \subseteq CommandType
  /\ Headers \subseteq Names
  /\ {"", "success", "failed", "true", "false"} \subseteq Values
  /\ Responses \subseteq Seq(LineType)

VARIABLES
  command,   \* the command
  stage,     \* how far it has come
  params,    \* MessageData::params
  asked,     \* what nyx was asked for, with the values it was given
  lines,     \* the lines passed to the callback
  payload    \* the payload of the reply

vars == <<command, stage, params, asked, lines, payload>>

-----------------------------------------------------------------------------
(* ValidateSendCommand, ValidateGetConfig, ValidateSetConfig.              *)

\* Commands that take one argument, of this name and with one of these values.
Rule(name, arg, values) == [name |-> name, arg |-> arg, values |-> values]
Rules ==
  {Rule("report-power-status", "pwr-state", {"on", "standby", ""}),
   Rule("report-audio-status", "aud-mute-status", {"on", "off", ""}),
   Rule("set-volume", "volume", {"up", "down", ""}),
   Rule("osd-display", "osd", Values),
   Rule("active", "set-active", {""}),
   Rule("one-touch-play", "active-source", {""}),
   Rule("vendor-commands", "payload", Values \ {""})}

InfoArgs == {"vendor-id", "version", "name", "language", "is-active"}

OneArgumentOrNone(c) ==
  c.args # <<>> =>
    \E r \in Rules : /\ r.name = c.name
                      /\ r.arg = c.args[1].arg
                      /\ c.args[1].value \in r.values

OneArgument(c) ==
  /\ Len(c.args) = 1
  /\ \E r \in Rules : /\ r.name = c.name
                      /\ r.arg = c.args[1].arg
                      /\ c.args[1].value \in r.values

OnlyEmptyValues(c) == \A i \in DOMAIN c.args : c.args[i].value = ""

OnlyQueries(c) ==
  \A i \in DOMAIN c.args : c.args[i].arg \in InfoArgs /\ c.args[i].value = ""

ArgsAccepted(c) == IF c.name = "system-information" THEN OnlyQueries(c) ELSE OneArgument(c)

JudgeNamesUnknown(c) == IF ArgsAccepted(c) \/ c.name = "standby" THEN "ok" ELSE "params"

JudgeArgs(c) ==
  IF c.name \notin {r.name : r \in Rules} \cup {"system-information"} THEN "command"
  ELSE IF ArgsAccepted(c) THEN "ok" ELSE "params"

GetKeys == {"vendorId", "version", "osd", "language", "powerState",
            "physicalAddress", "logicalAddress", "deviceType"}
SetKeys == {"vendorId", "osd", "deviceType"}

JudgeAnyKey(c) == "ok"

JudgeKey(c) ==
  IF c.key \in (IF c.type = "GET_CONFIG" THEN GetKeys ELSE SetKeys) THEN "ok" ELSE "params"

Judge(c) == IF c.type = "SEND_COMMAND" THEN JudgeArgs(c) ELSE JudgeKey(c)

Validate ==
  /\ stage = "received"
  /\ stage' = IF Judge(command) = "ok" THEN "accepted" ELSE "refused"
  /\ UNCHANGED <<command, params, asked, lines, payload>>

-----------------------------------------------------------------------------
(* HandleSendCommand, HandleGetConfig, HandleSetConfig: the params, a map, *)
(* so that a name given twice, or the name of a header, is one entry.      *)

HeadersOf(c) == IF c.adapter = "" THEN Headers \ {"adapter"} ELSE Headers
HeaderValue(c, k) ==
  CASE k = "adapter" -> c.adapter
    [] k = "destAddress" -> c.dest
    [] k = "cmd-name" -> c.name
    [] OTHER -> "timeout"

\* The arguments called k that set a value; an empty value only adds the key.
Setters(c, k) == {i \in DOMAIN c.args : c.args[i].arg = k /\ c.args[i].value # ""}

SendParamsSetOnly(c) ==
  [k \in HeadersOf(c) \cup {c.args[i].arg : i \in {j \in DOMAIN c.args : c.args[j].value # ""}} |->
     IF Setters(c, k) # {}
     THEN c.args[CHOOSE i \in Setters(c, k) : \A j \in Setters(c, k) : j <= i].value
     ELSE HeaderValue(c, k)]

SendParams(c) ==
  [k \in HeadersOf(c) \cup {c.args[i].arg : i \in DOMAIN c.args} |->
     IF Setters(c, k) # {}
     THEN c.args[CHOOSE i \in Setters(c, k) : \A j \in Setters(c, k) : j <= i].value
     ELSE IF k \in HeadersOf(c) THEN HeaderValue(c, k) ELSE ""]

\* The key first, then the adapter, which would overwrite a key of that name.
ConfigParams(c) ==
  [k \in {c.key} \cup (IF c.adapter = "" THEN {} ELSE {"adapter"}) |->
     IF k = "adapter" /\ c.adapter # "" THEN c.adapter
     ELSE IF c.type = "SET_CONFIG" THEN c.value ELSE ""]

BuildMessage ==
  /\ stage = "accepted"
  /\ params' = IF command.type = "SEND_COMMAND" THEN SendParams(command)
               ELSE ConfigParams(command)
  /\ stage' = "queued"
  /\ UNCHANGED <<command, asked, lines, payload>>

-----------------------------------------------------------------------------
(* MessageQueue::sendCommand, getConfig, setConfig, and nyx.               *)

Say(value) == <<[words |-> {"response"}, value |-> value]>>

\* nyx answers with lines of its own, or the code makes up a line.
SendCommand ==
  /\ stage = "queued"
  /\ command.type = "SEND_COMMAND"
  /\ asked' = [name |-> params["cmd-name"], params |-> params]
  /\ lines' \in Responses \cup {Say("success"), Say("failed")}
  /\ stage' = "answered"
  /\ UNCHANGED <<command, params, payload>>

\* The loop over the params, in the order of the hash table, keeps the last
\* that is not the adapter; nyx is asked for "null" if there is none.
ConfigNames ==
  IF DOMAIN params = {"adapter"} THEN {"null"} ELSE DOMAIN params \ {"adapter"}

AskConfig(key) ==
  asked' = [name |-> key, params |-> [k \in {key} \cap DOMAIN params |-> params[k]]]

GetConfig ==
  /\ stage = "queued"
  /\ command.type = "GET_CONFIG"
  /\ \E k \in ConfigNames : AskConfig(k)
  /\ \/ lines' = Say("failed")
     \/ lines' \in {r \in Responses : Len(r) = 1}
  /\ stage' = "answered"
  /\ UNCHANGED <<command, params, payload>>

SetConfig ==
  /\ stage = "queued"
  /\ command.type = "SET_CONFIG"
  /\ \E k \in ConfigNames : AskConfig(k)
  /\ lines' \in {Say("success"), Say("failed")}
  /\ stage' = "answered"
  /\ UNCHANGED <<command, params, payload>>

-----------------------------------------------------------------------------
(* HandleSendCommandCb, HandleSystemInfoResp, HandleGetConfigCb,           *)
(* HandleSetConfigCb: the first line with the right words gives the value. *)

Hits(words) == {i \in DOMAIN lines : lines[i].words \cap words # {}}
First(s) == CHOOSE i \in s : \A j \in s : i <= j
Entry(key, value) == [key |-> key, value |-> value]

\* The words looked for in the answer to a question.
QueryWords(name) ==
  CASE name = "report-power-status" -> {"power status"}
    [] name = "report-audio-status" -> {"mute", "volume"}
    [] name = "set-volume" -> {"volume"}
    [] name = "osd-display" -> {"osd string"}
QueryNames == {"report-power-status", "report-audio-status", "set-volume", "osd-display"}

QueryPayload ==
  LET arg == command.args[1]
      hits == Hits(QueryWords(command.name))
  IN IF arg.value = "" /\ hits # {}
     THEN <<Entry(arg.arg, lines[First(hits)].value)>> ELSE <<>>

\* "active" and "one-touch-play" report what is not a success.
ActionPayload ==
  LET hits == Hits({"response"})
  IN IF hits # {} /\ lines[First(hits)].value # "success"
     THEN <<Entry(command.args[1].arg, lines[First(hits)].value)>> ELSE <<>>

InfoWords(arg) ==
  CASE arg = "vendor-id" -> {"vendor id"}
    [] arg = "version" -> {"CEC version"}
    [] arg = "name" -> {"OSD name of device"}
    [] arg = "language" -> {"language"}
    [] arg = "is-active" -> {"active", "not active"}

InfoValue(arg) ==
  LET hits == Hits(InfoWords(arg))
  IN IF hits = {} THEN ""
     ELSE IF arg # "is-active" THEN lines[First(hits)].value
     ELSE IF "not active" \in lines[First(hits)].words THEN "false" ELSE "true"

InfoPayload ==
  [i \in DOMAIN command.args |->
     Entry(command.args[i].arg, InfoValue(command.args[i].arg))]

KeyHits(key) ==
  CASE key = "vendorId" -> Hits({"vendor id"})
    [] key = "version" -> Hits({"CEC version"})
    [] key = "osd" -> Hits({"osd string"})
    [] key = "language" -> Hits({"language"})
    [] key = "powerState" -> Hits({"power status"})
    [] key = "physicalAddress" -> Hits({"address"}) \ Hits({"logical address"})
    [] key = "logicalAddress" -> Hits({"logical address"})
    [] key = "deviceType" -> Hits({"type"})

ConfigPayload ==
  <<Entry(command.key,
          IF KeyHits(command.key) = {} THEN ""
          ELSE lines[First(KeyHits(command.key))].value)>>

Reply(p) == stage' = "replied" /\ payload' = p

\* A command whose name no branch knows is dropped: nobody replies.
Callback ==
  /\ stage = "answered"
  /\ IF lines = <<>> \/ command.type = "SET_CONFIG" THEN Reply(<<>>)
     ELSE IF command.type = "GET_CONFIG" THEN Reply(ConfigPayload)
     ELSE IF command.name \in QueryNames THEN Reply(QueryPayload)
     ELSE IF command.name \in {"active", "one-touch-play"} THEN Reply(ActionPayload)
     ELSE IF command.name = "system-information" THEN Reply(InfoPayload)
     ELSE IF command.name = "vendor-commands" THEN Reply(<<>>)
     ELSE stage' = "dropped" /\ UNCHANGED payload
  /\ UNCHANGED <<command, params, asked, lines>>

-----------------------------------------------------------------------------
NoParams == [k \in {} |-> ""]

Init ==
  /\ command \in Commands
  /\ stage = "received"
  /\ params = NoParams
  /\ asked = [name |-> "", params |-> NoParams]
  /\ lines = <<>>
  /\ payload = <<>>

Next == Validate \/ BuildMessage \/ SendCommand \/ GetConfig \/ SetConfig \/ Callback

Spec == Init /\ [][Next]_vars

-----------------------------------------------------------------------------
(* Properties.                                                             *)

\* What validation accepts, the callback answers: no accepted command falls
\* through the names that HandleSendCommandCb knows (src/handlers/
\* DefaultCecHandler.cpp lines 178-320), which would drop it unanswered.
AcceptedIsAnswered == stage # "dropped"

\* args.front(), lines 180 to 292, is called of a list with an element.
FrontArgDefined ==
  stage = "answered" /\ lines # <<>> /\ command.type = "SEND_COMMAND"
      /\ command.name \in QueryNames \cup {"active", "one-touch-play"} =>
    command.args # <<>>

\* nyx is asked what the client asked for: no argument overwrites a header or
\* another argument, and the key of a configuration is found among the params.
AsksWhatWasRequested ==
  stage \in {"answered", "replied", "dropped"} =>
    IF command.type = "SEND_COMMAND"
    THEN /\ asked.name = command.name
         /\ asked.params["destAddress"] = command.dest
         /\ command.adapter # "" => asked.params["adapter"] = command.adapter
         /\ \A i \in DOMAIN command.args :
              asked.params[command.args[i].arg] = command.args[i].value
    ELSE /\ asked.name = command.key
         /\ command.type = "SET_CONFIG" => asked.params[command.key] = command.value

\* The arrays of nyx_cec_command_t get four headers and five arguments at most,
\* however many arguments a client lists.
ParamsBounded == Cardinality(DOMAIN params) <= 9

\* The reply speaks only of what nyx was asked for.
PayloadWasAsked ==
  \A i \in DOMAIN payload : payload[i].key \in DOMAIN asked.params

\* "TODO: Check error and set error values." (src/handlers/
\* DefaultCecHandler.cpp line 602): a setting that nyx failed is not replied to
\* with returnValue true, which is the only reply Callback gives.
FailureReported ==
  stage = "replied" /\ command.type = "SET_CONFIG" => lines # Say("failed")
=============================================================================
