------------------------- MODULE MCCommandPipeline --------------------------
(* Every command name and key the code tests for, one it does not, up to   *)
(* two arguments (six queries), and answers of up to two lines.          *)
EXTENDS CommandPipeline

ArgNames == {"pwr-state", "volume", "osd", "set-active", "payload", "vendor-id", "is-active",
             "adapter"}
MCNames == ArgNames \cup Headers \cup GetKeys
             \cup {"aud-mute-status", "active-source", "version", "name", "language"}
MCValues == {"", "on", "standby", "off", "up", "down", "success", "failed",
             "true", "false", "cec0", "d1"}

Arg(name, value) == [arg |-> name, value |-> value]
SendNames == {r.name : r \in Rules} \cup {"system-information", "standby"}

\* For each command: its argument with and without values, none, twice, that
\* of another command, the name of a header; and lists of queries.
OneArgs == {<<Arg(r.arg, v)>> : r \in Rules, v \in {"", "on", "up"}}
             \cup {<<Arg("adapter", "d1")>>, <<Arg("vendor-id", "")>>}
ArgLists ==
  OneArgs \cup {<<>>, <<Arg("volume", "up"), Arg("volume", "down")>>,
                <<Arg("vendor-id", ""), Arg("vendor-id", ""), Arg("is-active", "")>>,
                <<Arg("name", ""), Arg("adapter", "d1")>>,
                <<Arg("vendor-id", ""), Arg("version", ""), Arg("name", ""),
                  Arg("language", ""), Arg("is-active", ""), Arg("volume", "")>>,
                <<Arg("vendor-id", ""), Arg("version", ""), Arg("name", ""),
                  Arg("language", ""), Arg("is-active", ""), Arg("version", "")>>}

MCCommands ==
  [type: {"SEND_COMMAND"}, adapter: {"", "cec0"}, dest: {"d1"}, name: SendNames,
   args: ArgLists, key: {"adapter"}, value: {""}]
  \cup [type: {"GET_CONFIG", "SET_CONFIG"}, adapter: {"", "cec0"}, dest: {""},
        name: {""}, args: {<<>>}, key: GetKeys \cup {"adapter"}, value: {"on"}]

Line(words, value) == [words |-> words, value |-> value]
MCLines == {Line({"power status"}, "on"), Line({"volume"}, "up"),
            Line({"response"}, "failed"), Line({"not active"}, ""),
            Line({"address", "logical address"}, "d1"), Line({"address"}, "on"),
            Line({"vendor id"}, "true")}
MCResponses == {<<>>} \cup {<<l>> : l \in MCLines} \cup {<<k, l>> : k, l \in MCLines}
=============================================================================
