----------------------- MODULE CommandPipelineProofs ------------------------
(***************************************************************************)
(* Proofs about CommandPipeline, for any commands, names, values and       *)
(* answers: what validation lets through is what the message and the       *)
(* callback can deal with.                                                 *)
(***************************************************************************)
EXTENDS CommandPipeline, FiniteSetTheorems, TLAPS

\* What BuildMessage makes of a command.
ParamsOf(c) == IF c.type = "SEND_COMMAND" THEN SendParams(c) ELSE ConfigParams(c)

\* What nyx is to be asked for.
Faithful(c, question) ==
  IF c.type = "SEND_COMMAND"
  THEN /\ question.name = c.name
       /\ question.params["destAddress"] = c.dest
       /\ c.adapter # "" => question.params["adapter"] = c.adapter
       /\ \A i \in DOMAIN c.args : question.params[c.args[i].arg] = c.args[i].value
  ELSE /\ question.name = c.key
       /\ c.type = "SET_CONFIG" => question.params[c.key] = c.value

\* The inductive invariant: only what validation accepted goes on, and the
\* params and the question are those of the command.
PipelineInv ==
  /\ command \in Commands
  /\ stage \in {"received", "refused", "accepted", "queued", "answered", "replied"}
  /\ stage \in {"accepted", "queued", "answered", "replied"} => Judge(command) = "ok"
  /\ stage = "queued" => params = ParamsOf(command)
  /\ stage \in {"answered", "replied"} => Faithful(command, asked)

-----------------------------------------------------------------------------
(* What validation lets through.                                           *)

KnownNames == {r.name : r \in Rules} \cup {"system-information"}
HeaderNames == {"adapter", "destAddress", "timeout", "cmd-name"}

\* The rules, one by one.
LEMMA RuleFacts ==
  ASSUME NEW r \in Rules
  PROVE  /\ r.arg \notin HeaderNames
         /\ r.name \in QueryNames \cup {"active", "one-touch-play", "vendor-commands"}
<1>1. \A name, arg, values :
        r = Rule(name, arg, values) => r.name = name /\ r.arg = arg
  BY DEF Rule
<1>2. \E values :
        \/ r = Rule("report-power-status", "pwr-state", values)
        \/ r = Rule("report-audio-status", "aud-mute-status", values)
        \/ r = Rule("set-volume", "volume", values)
        \/ r = Rule("osd-display", "osd", values)
        \/ r = Rule("active", "set-active", values)
        \/ r = Rule("one-touch-play", "active-source", values)
        \/ r = Rule("vendor-commands", "payload", values)
  BY Zenon DEF Rules
<1> QED
  BY <1>1, <1>2 DEF HeaderNames, QueryNames

\* An accepted SEND_COMMAND: its name is known to the callback; unless it asks
\* for system information it has one argument; none is named like a header;
\* and one that sets a value is alone.
LEMMA AcceptedCommand ==
  ASSUME NEW c \in Commands, c.type = "SEND_COMMAND", Judge(c) = "ok"
  PROVE  /\ c.name \in QueryNames
                         \cup {"active", "one-touch-play", "vendor-commands", "system-information"}
         /\ c.name # "system-information" => Len(c.args) = 1
         /\ \A i \in DOMAIN c.args : c.args[i].arg \notin HeaderNames
         /\ \A i \in DOMAIN c.args : c.args[i].value # "" => DOMAIN c.args = {i}
<1>1. c.name \in KnownNames /\ ArgsAccepted(c)
  BY DEF Judge, JudgeArgs, KnownNames
<1>2. c.args \in Seq(ArgType)
  BY PipelineAssumption DEF PipelineAssumption, CommandType
<1>3. CASE c.name = "system-information"
  <2>1. OnlyQueries(c)
    BY <1>1, <1>3 DEF ArgsAccepted
  <2>2. \A i \in DOMAIN c.args : c.args[i].arg \notin HeaderNames /\ c.args[i].value = ""
    BY <2>1 DEF OnlyQueries, InfoArgs, HeaderNames
  <2> QED
    BY <2>2, <1>3
<1>4. CASE c.name # "system-information"
  <2>1. OneArgument(c)
    BY <1>1, <1>4 DEF ArgsAccepted
  <2>2. PICK r \in Rules : r.name = c.name /\ r.arg = c.args[1].arg
    BY <2>1 DEF OneArgument
  <2>3. Len(c.args) = 1
    BY <2>1 DEF OneArgument
  <2>4. DOMAIN c.args = {1}
    BY <1>2, <2>3
  <2> QED
    BY <2>2, <2>3, <2>4, RuleFacts
<1> QED
  BY <1>3, <1>4

\* An accepted configuration command: its key is not the name of a header.
LEMMA AcceptedKey ==
  ASSUME NEW c \in Commands, c.type # "SEND_COMMAND", Judge(c) = "ok"
  PROVE  c.key # "adapter"
BY DEF Judge, JudgeKey, GetKeys, SetKeys

-----------------------------------------------------------------------------
(* The message keeps what the client asked for.                            *)

\* The params of an accepted SEND_COMMAND.
LEMMA SendParamsFaithful ==
  ASSUME NEW c \in Commands, c.type = "SEND_COMMAND", Judge(c) = "ok"
  PROVE  Faithful(c, [name |-> SendParams(c)["cmd-name"], params |-> SendParams(c)])
<1> DEFINE question == [name |-> SendParams(c)["cmd-name"], params |-> SendParams(c)]
<1>1. \A k \in HeaderNames : Setters(c, k) = {}
  BY AcceptedCommand DEF Setters
<1>2. \A k \in HeadersOf(c) : SendParams(c)[k] = HeaderValue(c, k)
  <2>1. HeadersOf(c) \subseteq HeaderNames
    BY DEF HeadersOf, Headers, HeaderNames
  <2> QED
    BY <1>1, <2>1 DEF SendParams
<1>3. "cmd-name" \in HeadersOf(c) /\ "destAddress" \in HeadersOf(c)
  BY DEF HeadersOf, Headers
<1>4. c.adapter # "" => "adapter" \in HeadersOf(c)
  BY DEF HeadersOf, Headers
<1>5. /\ HeaderValue(c, "cmd-name") = c.name
      /\ HeaderValue(c, "destAddress") = c.dest
      /\ HeaderValue(c, "adapter") = c.adapter
  BY DEF HeaderValue
<1>6. ASSUME NEW i \in DOMAIN c.args
      PROVE  SendParams(c)[c.args[i].arg] = c.args[i].value
  <2> DEFINE k == c.args[i].arg
  <2>1. k \notin HeadersOf(c)
    BY AcceptedCommand DEF HeadersOf, Headers, HeaderNames
  <2>2. CASE c.args[i].value = ""
    <3>1. Setters(c, k) = {}
      BY <2>2, AcceptedCommand DEF Setters
    <3> QED
      BY <3>1, <2>1, <2>2 DEF SendParams
  <2>3. CASE c.args[i].value # ""
    <3>1. DOMAIN c.args = {i}
      BY <2>3, AcceptedCommand
    <3>2. Setters(c, k) = {i}
      BY <3>1, <2>3 DEF Setters
    <3>3. i \in Nat
      <4>1. c.args \in Seq(ArgType)
        BY PipelineAssumption DEF PipelineAssumption, CommandType
      <4> QED
        BY <4>1
    <3>4. (CHOOSE j \in Setters(c, k) : \A l \in Setters(c, k) : l <= j) = i
      BY <3>2, <3>3
    <3> QED
      BY <3>2, <3>4 DEF SendParams
  <2> QED
    BY <2>2, <2>3
<1>7. question.name = c.name
  BY <1>2, <1>3, <1>5
<1>8. question.params = SendParams(c)
  OBVIOUS
<1>9. question.params["destAddress"] = c.dest
  BY <1>2, <1>3, <1>5, <1>8
<1>10. c.adapter # "" => question.params["adapter"] = c.adapter
  BY <1>2, <1>4, <1>5, <1>8
<1>11. \A i \in DOMAIN c.args : question.params[c.args[i].arg] = c.args[i].value
  BY <1>6, <1>8
<1> HIDE DEF question
<1> QED
  BY <1>7, <1>9, <1>10, <1>11 DEF Faithful, question

\* The one name that getConfig and setConfig find among the params.
LEMMA ConfigParamsFaithful ==
  ASSUME NEW c \in Commands, c.type # "SEND_COMMAND", Judge(c) = "ok"
  PROVE  /\ DOMAIN ConfigParams(c) \ {"adapter"} = {c.key}
         /\ DOMAIN ConfigParams(c) # {"adapter"}
         /\ c.type = "SET_CONFIG" => ConfigParams(c)[c.key] = c.value
<1>1. c.key # "adapter"
  BY AcceptedKey
<1>2. DOMAIN ConfigParams(c) = {c.key} \cup (IF c.adapter = "" THEN {} ELSE {"adapter"})
  BY DEF ConfigParams
<1>3. c.type = "SET_CONFIG" => ConfigParams(c)[c.key] = c.value
  BY <1>1 DEF ConfigParams
<1> QED
  BY <1>1, <1>2, <1>3

-----------------------------------------------------------------------------
LEMMA InitPipelineInv == Init => PipelineInv
BY DEF Init, PipelineInv

\* One step per action of Next.
LEMMA NextPipelineInv == PipelineInv /\ [Next]_vars => PipelineInv'
<1> SUFFICES ASSUME PipelineInv, [Next]_vars PROVE PipelineInv'
  OBVIOUS
<1>1. CASE Validate
  BY <1>1 DEF PipelineInv, Validate
<1>2. CASE BuildMessage
  BY <1>2 DEF PipelineInv, BuildMessage, ParamsOf
<1>3. CASE SendCommand
  <2>1. params = SendParams(command) /\ Judge(command) = "ok"
    BY <1>3 DEF PipelineInv, SendCommand, ParamsOf
  <2>2. Faithful(command, asked')
    BY <2>1, <1>3, SendParamsFaithful DEF PipelineInv, SendCommand
  <2> QED
    BY <2>2, <1>3 DEF PipelineInv, SendCommand
<1>4. ASSUME GetConfig \/ SetConfig PROVE PipelineInv'
  <2>1. /\ stage = "queued" /\ stage' = "answered" /\ command' = command
        /\ params = ConfigParams(command) /\ Judge(command) = "ok"
        /\ command.type # "SEND_COMMAND" /\ command \in Commands
    BY <1>4 DEF PipelineInv, GetConfig, SetConfig, ParamsOf
  <2>2. PICK k \in ConfigNames : AskConfig(k)
    BY <1>4 DEF GetConfig, SetConfig
  <2>3. k = command.key
    BY <2>1, <2>2, ConfigParamsFaithful DEF ConfigNames
  <2>4. asked' = [name |-> k, params |-> [n \in {k} \cap DOMAIN params |-> params[n]]]
    BY <2>2 DEF AskConfig
  <2>5. k \in DOMAIN params
    BY <2>1, <2>3, ConfigParamsFaithful
  <2>6. asked'.name = command.key /\ asked'.params[command.key] = params[command.key]
    BY <2>3, <2>4, <2>5
  <2>7. Faithful(command, asked')
    BY <2>1, <2>6, ConfigParamsFaithful DEF Faithful
  <2> QED
    BY <2>1, <2>7 DEF PipelineInv
<1>5. CASE Callback
  <2>1. command \in Commands /\ stage = "answered" /\ Judge(command) = "ok"
    BY <1>5 DEF PipelineInv, Callback
  <2>2. \/ command.type \in {"GET_CONFIG", "SET_CONFIG"}
        \/ command.type = "SEND_COMMAND"
    BY <2>1, PipelineAssumption DEF PipelineAssumption, CommandType
  <2>3. stage' = "replied"
    BY <2>1, <2>2, <1>5, AcceptedCommand DEF Callback, Reply
  <2>4. UNCHANGED <<command, params, asked>>
    BY <1>5 DEF Callback
  <2> QED
    BY <2>1, <2>3, <2>4 DEF PipelineInv
<1>6. CASE UNCHANGED vars
  BY <1>6 DEF PipelineInv, vars
<1> QED
  BY <1>1, <1>2, <1>3, <1>4, <1>5, <1>6 DEF Next

-----------------------------------------------------------------------------
\* Only validated commands are asked of nyx, and they are asked faithfully:
\* HandleCommand (src/handlers/DefaultCecHandler.cpp lines 604 to 713).
THEOREM PipelineInvariant == Spec => []PipelineInv
<1> QED
  BY InitPipelineInv, NextPipelineInv, PTL DEF Spec

\* The callback answers every command that validation accepts.
THEOREM CallbackIsTotal == Spec => []AcceptedIsAnswered
<1>1. PipelineInv => AcceptedIsAnswered
  BY DEF PipelineInv, AcceptedIsAnswered
<1> QED
  BY <1>1, PipelineInvariant, PTL

\* The callback finds an argument wherever it calls args.front().
THEOREM FrontArgIsDefined == Spec => []FrontArgDefined
<1>1. PipelineInv => FrontArgDefined
  <2> SUFFICES ASSUME PipelineInv, stage = "answered", command.type = "SEND_COMMAND",
                      command.name \in QueryNames \cup {"active", "one-touch-play"}
               PROVE  command.args # <<>>
    BY DEF FrontArgDefined
  <2>1. command.name # "system-information"
    BY DEF QueryNames
  <2>2. Len(command.args) = 1
    BY <2>1, AcceptedCommand DEF PipelineInv
  <2>3. Len(<<>>) = 0 /\ 0 # 1
    OBVIOUS
  <2> QED
    BY <2>2, <2>3, Zenon
<1> QED
  BY <1>1, PipelineInvariant, PTL

\* Whatever arguments and keys a client gives, nyx is asked for them: no header
\* and no other argument is overwritten on the way.
THEOREM QuestionIsFaithful == Spec => []AsksWhatWasRequested
<1>1. PipelineInv => AsksWhatWasRequested
  BY DEF PipelineInv, AsksWhatWasRequested, Faithful
<1> QED
  BY <1>1, PipelineInvariant, PTL

-----------------------------------------------------------------------------
(* The size of the params, and the payload.                                *)

\* A finite set of n elements at most.
AtMost(S, n) == IsFiniteSet(S) /\ Cardinality(S) <= n

\* One element more.
LEMMA AddName ==
  ASSUME NEW S, NEW x, NEW n \in Nat, AtMost(S, n)
  PROVE  AtMost(S \cup {x}, n + 1)
<1>1. IsFiniteSet(S) /\ Cardinality(S) \in Nat /\ Cardinality(S) <= n
  BY FS_CardinalityType DEF AtMost
<1>2. IsFiniteSet(S \cup {x})
  BY <1>1, FS_AddElement
<1>3. Cardinality(S \cup {x}) = IF x \in S THEN Cardinality(S) ELSE Cardinality(S) + 1
  BY <1>1, FS_AddElement
<1>4. Cardinality(S \cup {x}) <= n + 1
  BY <1>1, <1>3
<1> QED
  BY <1>2, <1>4 DEF AtMost

\* Four elements more.
LEMMA FewNames ==
  ASSUME NEW a, NEW b, NEW c, NEW d, NEW S, NEW n \in Nat, AtMost(S, n)
  PROVE  AtMost(S \cup {a, b, c, d}, n + 4)
<1>1. AtMost(S \cup {a}, n + 1)
  BY AddName, Zenon
<1>2. AtMost((S \cup {a}) \cup {b}, (n + 1) + 1)
  <2>1. n + 1 \in Nat
    OBVIOUS
  <2> QED
    BY <1>1, <2>1, AddName, Zenon
<1>3. AtMost(((S \cup {a}) \cup {b}) \cup {c}, ((n + 1) + 1) + 1)
  <2>1. (n + 1) + 1 \in Nat
    OBVIOUS
  <2> QED
    BY <1>2, <2>1, AddName, Zenon
<1>4. AtMost((((S \cup {a}) \cup {b}) \cup {c}) \cup {d}, (((n + 1) + 1) + 1) + 1)
  <2>1. ((n + 1) + 1) + 1 \in Nat
    OBVIOUS
  <2> QED
    BY <1>3, <2>1, AddName, Zenon
<1>5. (((S \cup {a}) \cup {b}) \cup {c}) \cup {d} = S \cup {a, b, c, d}
  OBVIOUS
<1>6. (((n + 1) + 1) + 1) + 1 = n + 4
  OBVIOUS
<1> QED
  BY <1>4, <1>5, <1>6, Zenon

\* Four headers, and the five arguments of system information or any other one.
LEMMA NineNames ==
  ASSUME NEW a
  PROVE  AtMost(Headers \cup InfoArgs, 9) /\ AtMost(Headers \cup {a}, 9)
<1>1. AtMost({}, 0)
  BY FS_EmptySet DEF AtMost
<1>2. AtMost({} \cup {"adapter", "destAddress", "timeout", "cmd-name"}, 0 + 4)
  BY <1>1, FewNames, Zenon
<1>3. Headers = {} \cup {"adapter", "destAddress", "timeout", "cmd-name"} /\ 0 + 4 = 4
  BY DEF Headers
<1>4. AtMost(Headers, 4)
  BY <1>2, <1>3, Zenon
<1>5. \A x : AtMost(Headers \cup {x}, 5)
  <2>1. \A x : AtMost(Headers \cup {x}, 4 + 1)
    <3>1. 4 \in Nat
      OBVIOUS
    <3> QED
      BY <1>4, <3>1, AddName, Zenon
  <2>2. 4 + 1 = 5
    OBVIOUS
  <2> QED
    BY <2>1, <2>2, Zenon
<1>6. AtMost((Headers \cup {"vendor-id"}) \cup {"version", "name", "language", "is-active"}, 5 + 4)
  <2>1. 5 \in Nat
    OBVIOUS
  <2> QED
    BY <1>5, <2>1, FewNames, Zenon
<1>7. /\ (Headers \cup {"vendor-id"}) \cup {"version", "name", "language", "is-active"}
         = Headers \cup InfoArgs
      /\ 5 + 4 = 9
  BY DEF InfoArgs
<1>8. AtMost(Headers \cup {a}, 9)
  <2> DEFINE T == Headers \cup {a}
  <2>1. AtMost(T, 5)
    BY <1>5, Zenon
  <2> HIDE DEF T
  <2>2. IsFiniteSet(T) /\ Cardinality(T) <= 5
    BY <2>1 DEF AtMost
  <2>3. Cardinality(T) \in Nat
    BY <2>2, FS_CardinalityType
  <2>4. AtMost(T, 9)
    BY <2>2, <2>3 DEF AtMost
  <2> QED
    BY <2>4 DEF T
<1> QED
  BY <1>6, <1>7, <1>8, Zenon

\* A subset of nine names or fewer.
LEMMA SmallSubset ==
  ASSUME NEW S, NEW T, S \subseteq T, AtMost(T, 9)
  PROVE  Cardinality(S) <= 9
<1>1. IsFiniteSet(T) /\ Cardinality(T) <= 9
  BY DEF AtMost
<1>2. IsFiniteSet(S) /\ Cardinality(S) <= Cardinality(T)
  BY <1>1, FS_Subset
<1>3. Cardinality(S) \in Nat /\ Cardinality(T) \in Nat
  BY <1>1, <1>2, FS_CardinalityType
<1> QED
  BY <1>1, <1>2, <1>3

\* The names among the params of an accepted command.
LEMMA ParamsOfAccepted ==
  ASSUME NEW c \in Commands, Judge(c) = "ok"
  PROVE  Cardinality(DOMAIN ParamsOf(c)) <= 9
<1>1. CASE c.type = "SEND_COMMAND"
  <2>1. DOMAIN ParamsOf(c) \subseteq Headers \cup {c.args[i].arg : i \in DOMAIN c.args}
    BY <1>1 DEF ParamsOf, SendParams, HeadersOf
  <2>2. CASE c.name = "system-information"
    <3>1. {c.args[i].arg : i \in DOMAIN c.args} \subseteq InfoArgs
      BY <1>1, <2>2 DEF Judge, JudgeArgs, ArgsAccepted, OnlyQueries
    <3>2. DOMAIN ParamsOf(c) \subseteq Headers \cup InfoArgs
      BY <2>1, <3>1
    <3> QED
      BY <3>2, NineNames, SmallSubset
  <2>3. CASE c.name # "system-information"
    <3>1. Len(c.args) = 1
      BY <1>1, <2>3, AcceptedCommand
    <3>2. c.args \in Seq(ArgType)
      BY PipelineAssumption DEF PipelineAssumption, CommandType
    <3>3. DOMAIN c.args = {1}
      BY <3>1, <3>2
    <3>4. DOMAIN ParamsOf(c) \subseteq Headers \cup {c.args[1].arg}
      BY <2>1, <3>3
    <3> QED
      BY <3>4, NineNames, SmallSubset
  <2> QED
    BY <2>2, <2>3
<1>2. CASE c.type # "SEND_COMMAND"
  <2>1. DOMAIN ParamsOf(c) \subseteq Headers \cup {c.key}
    BY <1>2 DEF ParamsOf, ConfigParams, Headers
  <2> QED
    BY <2>1, NineNames, SmallSubset
<1> QED
  BY <1>1, <1>2

\* The arrays of nyx_cec_command_t, lines 79 to 98 of src/MessageQueue.cpp, get
\* nine entries at most, whatever list of arguments a client sends.
THEOREM ParamsFit == Spec => []ParamsBounded
<1>1. Init => ParamsBounded
  <2>1. DOMAIN NoParams = {}
    BY DEF NoParams
  <2>2. Cardinality({}) <= 9
    BY FS_EmptySet
  <2>3. ASSUME Init PROVE params = NoParams
    BY <2>3 DEF Init
  <2> QED
    BY <2>1, <2>2, <2>3, Zenon DEF ParamsBounded
<1>2. PipelineInv /\ ParamsBounded /\ [Next]_vars => ParamsBounded'
  <2> SUFFICES ASSUME PipelineInv, ParamsBounded, [Next]_vars PROVE ParamsBounded'
    OBVIOUS
  <2>1. CASE BuildMessage
    <3>1. params' = ParamsOf(command) /\ command \in Commands /\ Judge(command) = "ok"
      BY <2>1 DEF PipelineInv, BuildMessage, ParamsOf
    <3> QED
      BY <3>1, ParamsOfAccepted DEF ParamsBounded
  <2>2. CASE ~BuildMessage
    <3>1. params' = params
      BY <2>2 DEF Next, Validate, SendCommand, GetConfig, SetConfig, Callback, vars
    <3> QED
      BY <3>1 DEF ParamsBounded
  <2> QED
    BY <2>1, <2>2
<1> QED
  BY <1>1, <1>2, PipelineInvariant, PTL DEF Spec

\* The names that a command asks for.
AskedNames(c) ==
  IF c.type = "SEND_COMMAND" THEN {c.args[i].arg : i \in DOMAIN c.args} ELSE {c.key}

\* There is no payload before the reply, and by then nyx has been asked for
\* all that the command names.
PayloadInv ==
  /\ stage # "replied" => payload = <<>>
  /\ stage \in {"answered", "replied"} => AskedNames(command) \subseteq DOMAIN asked.params
  /\ PayloadWasAsked

\* The payload that the callback makes of an accepted command names nothing
\* that the command did not.
LEMMA PayloadOfCallback ==
  ASSUME Callback, command \in Commands, Judge(command) = "ok", stage' = "replied"
  PROVE  \A i \in DOMAIN payload' : payload'[i].key \in AskedNames(command)
<1>1. \A k, v : Entry(k, v).key = k
  BY DEF Entry
<1>2. \A k, v : LET p == <<Entry(k, v)>> IN \A i \in DOMAIN p : p[i].key = k
  BY <1>1
<1>3. CASE payload' = <<>>
  BY <1>3
<1>4. CASE payload' = ConfigPayload /\ command.type = "GET_CONFIG"
  BY <1>2, <1>4 DEF ConfigPayload, AskedNames
<1>5. CASE payload' = InfoPayload /\ command.type = "SEND_COMMAND"
  <2>1. DOMAIN payload' = DOMAIN command.args
    BY <1>5 DEF InfoPayload
  <2>2. \A i \in DOMAIN payload' : payload'[i].key = command.args[i].arg
    BY <1>1, <1>5 DEF InfoPayload
  <2> QED
    BY <1>5, <2>1, <2>2 DEF AskedNames
<1>6. CASE /\ payload' \in {QueryPayload, ActionPayload}
           /\ command.type = "SEND_COMMAND" /\ command.name # "system-information"
  <2>1. Len(command.args) = 1
    BY <1>6, AcceptedCommand
  <2>2. command.args \in Seq(ArgType)
    BY PipelineAssumption DEF PipelineAssumption, CommandType
  <2>3. 1 \in DOMAIN command.args
    BY <2>1, <2>2
  <2>4. payload' = <<>> \/ \E v : payload' = <<Entry(command.args[1].arg, v)>>
    BY <1>6 DEF QueryPayload, ActionPayload
  <2>5. CASE payload' = <<>>
    BY <2>5
  <2>6. CASE \E v : payload' = <<Entry(command.args[1].arg, v)>>
    BY <1>2, <1>6, <2>3, <2>6 DEF AskedNames
  <2> QED
    BY <2>4, <2>5, <2>6
<1>7. command.type \in {"SEND_COMMAND", "GET_CONFIG", "SET_CONFIG"}
  BY PipelineAssumption DEF PipelineAssumption, CommandType
<1>8. "system-information" \notin QueryNames
  BY DEF QueryNames
<1> QED
  BY <1>3, <1>4, <1>5, <1>6, <1>7, <1>8 DEF Callback, Reply

\* Once a command has been put to nyx, what it names is among what nyx was
\* asked for.
LEMMA QuestionNames ==
  ASSUME PipelineInv, SendCommand \/ GetConfig \/ SetConfig
  PROVE  AskedNames(command) \subseteq DOMAIN asked'.params
<1>1. /\ stage = "queued" /\ params = ParamsOf(command)
      /\ command \in Commands /\ Judge(command) = "ok"
  BY DEF PipelineInv, SendCommand, GetConfig, SetConfig
<1>2. CASE SendCommand
  <2>1. asked'.params = params
    BY <1>2 DEF SendCommand
  <2> QED
    BY <1>1, <1>2, <2>1 DEF SendCommand, ParamsOf, SendParams, AskedNames
<1>3. CASE GetConfig \/ SetConfig
  <2>1. PICK k \in ConfigNames : AskConfig(k)
    BY <1>3 DEF GetConfig, SetConfig
  <2>2. command.type # "SEND_COMMAND" /\ params = ConfigParams(command)
    BY <1>1, <1>3 DEF GetConfig, SetConfig, ParamsOf
  <2>3. k = command.key /\ k \in DOMAIN params
    BY <1>1, <2>1, <2>2, ConfigParamsFaithful DEF ConfigNames
  <2>4. asked' = [name |-> k, params |-> [n \in {k} \cap DOMAIN params |-> params[n]]]
    BY <2>1 DEF AskConfig
  <2>5. DOMAIN asked'.params = {k}
    BY <2>3, <2>4
  <2> QED
    BY <2>2, <2>3, <2>5 DEF AskedNames
<1> QED
  BY <1>2, <1>3

\* The reply speaks only of what nyx was asked for: the tables of the callbacks
\* add nothing to those of the validation.
THEOREM ReplyIsOnTopic == Spec => []PayloadWasAsked
<1>1. Init => PayloadInv
  <2> SUFFICES ASSUME Init PROVE PayloadInv
    OBVIOUS
  <2>1. stage = "received" /\ payload = <<>>
    BY DEF Init
  <2>2. DOMAIN payload = {}
    BY <2>1
  <2> QED
    BY <2>1, <2>2 DEF PayloadInv, PayloadWasAsked
<1>2. PipelineInv /\ PipelineInv' /\ PayloadInv /\ [Next]_vars => PayloadInv'
  <2> SUFFICES ASSUME PipelineInv, PipelineInv', PayloadInv, [Next]_vars
               PROVE  PayloadInv'
    OBVIOUS
  <2>1. CASE Validate \/ BuildMessage
    BY <2>1 DEF PayloadInv, PayloadWasAsked, Validate, BuildMessage
  <2>2. CASE SendCommand \/ GetConfig \/ SetConfig
    <3>1. /\ payload' = payload /\ stage' = "answered" /\ stage = "queued"
          /\ command' = command
      BY <2>2 DEF SendCommand, GetConfig, SetConfig
    <3>2. AskedNames(command) \subseteq DOMAIN asked'.params
      BY <2>2, QuestionNames
    <3> QED
      BY <3>1, <3>2 DEF PayloadInv, PayloadWasAsked, AskedNames
  <2>3. CASE Callback
    <3>1. stage = "answered" /\ stage' # "dropped" /\ UNCHANGED <<command, asked>>
      BY <2>3 DEF Callback, PipelineInv
    <3>2. stage' = "replied"
      BY <2>3, <3>1 DEF Callback, Reply
    <3>3. command \in Commands /\ Judge(command) = "ok"
      BY <3>1 DEF PipelineInv
    <3>4. AskedNames(command) \subseteq DOMAIN asked.params
      BY <3>1 DEF PayloadInv
    <3>5. \A i \in DOMAIN payload' : payload'[i].key \in AskedNames(command)
      BY <2>3, <3>2, <3>3, PayloadOfCallback
    <3> QED
      BY <3>1, <3>2, <3>4, <3>5 DEF PayloadInv, PayloadWasAsked, AskedNames
  <2>4. CASE UNCHANGED vars
    BY <2>4 DEF PayloadInv, PayloadWasAsked, AskedNames, vars
  <2> QED
    BY <2>1, <2>2, <2>3, <2>4 DEF Next
<1>3. PayloadInv => PayloadWasAsked
  BY DEF PayloadInv
<1> QED
  BY <1>1, <1>2, <1>3, PipelineInvariant, PTL DEF Spec
=============================================================================
