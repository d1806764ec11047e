--------------------------- MODULE AnonymousPolicy ---------------------------
(***************************************************************************)
(* What an MCP client without an Authorization header may do: the setting  *)
(* ANONYMOUS_PUBLIC_TOOLS, oauthcore.AnonymousMCPPolicy on the way to the  *)
(* backend and the filter of oauthproxy on the way back.  A body is the    *)
(* sequence of its messages, one or a batch; what does not parse is a      *)
(* message of its own kind.                                                *)
(***************************************************************************)
EXTENDS Integers, Sequences, SequencesExt

CONSTANTS
    ToolNames,   \* tools of the backend
    NoName       \* the empty name

ASSUME NoNameAssumption == NoName \notin ToolNames

Names == ToolNames \cup {NoName}

\* A message: setup stands for initialize, notifications/initialized and ping;
\* a call may have no or an empty name; other is any other method, invalid
\* what does not parse, a call's params included.
Messages ==
    {[method |-> "tools/call", name |-> n] : n \in Names}
    \cup {[method |-> m, name |-> NoName] :
             m \in {"setup", "tools/list", "other", "invalid"}}

\* A response as the backend sends it: the tools it lists, whether it is one
\* JSON value (or an array of them), lines of which some begin with "data: ",
\* or neither, and whether it is longer than anonymousInspectionLimitBytes.
Responses == [form : {"json", "data_lines", "other"},
              tools : SUBSET ToolNames,
              long : BOOLEAN]

-----------------------------------------------------------------------------
\* The variable: not set, or a text of names between commas, of which there is
\* one at least: an empty one in the empty text and after a last comma.
Settings == {[isSet |-> FALSE, names |-> {}]} \cup
            [isSet : {TRUE}, names : (SUBSET Names) \ {{}}]

\* bindEnv of a []string: empty names stay in the list.
bindEnv(setting) == IF setting.isSet THEN setting.names ELSE {}

\* Validate, as far as the anonymous mode goes.
Validate(enabled, tools) == enabled => tools # {}

IsPublicTool(name, tools) == name \in tools

\* Mutation: the name is looked up before it is known not to be empty.
messageAllowedByName(m, tools) ==
    \/ m.method \in {"setup", "tools/list"}
    \/ m.method = "tools/call" /\ IsPublicTool(m.name, tools)

messageAllowed(m, tools) ==
    \/ m.method \in {"setup", "tools/list"}
    \/ m.method = "tools/call" /\ m.name # NoName /\ IsPublicTool(m.name, tools)

PayloadAllowed(body, tools) ==
    body # <<>> /\ \A i \in DOMAIN body : messageAllowed(body[i], tools)

\* Mutation: the last message of a batch decides.
containsToolsListLast(body) == body # <<>> /\ Last(body).method = "tools/list"

containsToolsList(body) ==
    \E i \in DOMAIN body : body[i].method = "tools/list"

\* filterAnonymousToolsListBody and filterAnonymousToolsListJSON.
filterAnonymousToolsList(response, tools) ==
    IF response.form \in {"json", "data_lines"}
    THEN {n \in response.tools : IsPublicTool(n, tools)}
    ELSE response.tools
=============================================================================
