------------------------------ MODULE ToolTable ------------------------------
(***************************************************************************)
(* The tools a hub offers (hub/src/mcp/tools.ts) as the sets the code tells *)
(* them apart by, and the model declaration gate (hub/src/mcp/model-gate.ts)*)
(***************************************************************************)
CodeReads == {"code_read_file", "code_list_dir", "code_find_file", "code_search_for_pattern",
              "code_get_symbols_overview", "code_find_symbol", "code_find_referencing_symbols"}

\* Answered by the hub itself.
Discovery == {"projects_list", "workspaces_list", "sessions_list", "agents_list",
              "supervisor_health", "nodes_list", "node_get", "route_explain"}

Presence == {"presence_claim", "presence_release"}

\* Mutant of WriteTools: a tool that was added to the table only.
WriteToolsForgets == {"code_use_workspace", "sessions_create", "sessions_prompt", "sessions_resume"} \cup Presence

\* What only the leader does.
WriteTools == {"code_use_workspace", "sessions_create", "sessions_resume", "sessions_prompt",
               "sessions_cancel"} \cup Presence

\* The danger of the table: what changes a node or the hub.
WriteDanger == {"code_use_workspace", "sessions_create", "sessions_resume", "sessions_prompt",
                "sessions_cancel"} \cup Presence

Tools == CodeReads \cup Discovery \cup WriteDanger \cup {"sessions_get", "sessions_wait"}

\* Tools whose schema has a message for a model.
Messages == {"sessions_create", "sessions_prompt"}

\* Mutant of Gated: the first message of a session is forgotten.
GatedPromptOnly == {"sessions_prompt"}

\* Tools whose message the gate reads.
Gated == {"sessions_create", "sessions_prompt"}

\* What a message declares: an allowed model, a rejected one, none; "blank" is no message.
Declarations == {"allowed", "rejected", "none", "blank"}

\* callTool: the gate reads the message of a gated tool that has one.
GateRefuses(tool, decl) == tool \in Gated /\ decl \in {"rejected", "none"}
==============================================================================
