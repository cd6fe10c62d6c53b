-------------------------- MODULE ExecutionPolicy --------------------------
(***************************************************************************)
(* The two static gates a tool call passes before anything is recorded: the *)
(* ExecutionPolicyGate (policy.py) and the DefaultRuntimeBoundary           *)
(* (runtime.py).  Both look at the envelope's tool only.                    *)
(***************************************************************************)
CONSTANTS
    Rules,          \* the gate's rules, each a function from tools to decisions
    HasBoundary,    \* a RuntimeBoundary was injected
    AllowedTools,   \* its constructor's allowed_tools ({} also stands for None)
    DeniedTools     \* its constructor's denied_tools  ({} also stands for None)

Tool == {"filesystem.write", "filesystem.read", "filesystem.mkdir", "shell.execute",
         "network.http_get", "todo.create"}

FilesystemTools == {"filesystem.write", "filesystem.mkdir"}

PolicyDecision == {"allow", "deny", "require_approval"}

ASSUME RulesAssumption == Rules \subseteq [Tool -> PolicyDecision]

ASSUME BoundaryAssumption == /\ HasBoundary \in BOOLEAN
                             /\ AllowedTools \subseteq Tool
                             /\ DeniedTools \subseteq Tool

DefaultAllowedTools == Tool \ {"shell.execute"}
DefaultDeniedTools == {"shell.execute"}

\* Mutant: the first rule that answers "allow" settles the question.
FirstAllowWins(tool) == Rules # {} /\ \A rule \in Rules : rule[tool] = "deny"

\* ExecutionPolicyGate.evaluate: the loop stops at the first DENY; every other
\* decision, require_approval included, lets the loop go on to ALLOW.
PolicyDenies(tool) == \E rule \in Rules : rule[tool] = "deny"

\* `allowed_tools or default`: an empty set is falsy, so it means the default.
Allowed == IF AllowedTools = {} THEN DefaultAllowedTools ELSE AllowedTools
Denied  == IF DeniedTools = {} THEN DefaultDeniedTools ELSE DeniedTools

\* DefaultRuntimeBoundary.evaluate_tool: denied wins, then the allowed list.
evaluate_tool(tool) == tool \notin Denied /\ tool \in Allowed

\* ToolProxy asks the gate first, then the boundary; either may be absent.
GateRejects(tool) == PolicyDenies(tool) \/ (HasBoundary /\ ~ evaluate_tool(tool))

=============================================================================
