-------------------------------- MODULE Delivery --------------------------------
(***************************************************************************)
(* How secrets reach other programs: one process of fnox serves a proxy    *)
(* session, runs a command, is an MCP server, is called by a shell or is   *)
(* the dashboard.  Each has its module; here one of them is started, and   *)
(* the others are not there.  They share ChildEnv and Redaction, never a   *)
(* state.                                                                  *)
(***************************************************************************)
EXTENDS CredentialProxy, ExecSession, McpServer, ShellHook, SecretViewer

vars == <<proxyVars, execVars, mcpVars, hookVars, viewVars>>

Init ==
  \/ ProxyInit /\ ExecIdle /\ McpIdle /\ HookIdle /\ ViewIdle
  \/ ProxyIdle /\ ExecInit /\ McpIdle /\ HookIdle /\ ViewIdle
  \/ ProxyIdle /\ ExecIdle /\ McpInit /\ HookIdle /\ ViewIdle
  \/ ProxyIdle /\ ExecIdle /\ McpIdle /\ HookInit /\ ViewIdle
  \/ ProxyIdle /\ ExecIdle /\ McpIdle /\ HookIdle /\ ViewInit

Next ==
  \/ ProxyNext /\ UNCHANGED <<execVars, mcpVars, hookVars, viewVars>>
  \/ ExecNext /\ UNCHANGED <<proxyVars, mcpVars, hookVars, viewVars>>
  \/ McpNext /\ UNCHANGED <<proxyVars, execVars, hookVars, viewVars>>
  \/ HookNext /\ UNCHANGED <<proxyVars, execVars, mcpVars, viewVars>>
  \/ ViewNext /\ UNCHANGED <<proxyVars, execVars, mcpVars, hookVars>>

Spec == Init /\ [][Next]_vars /\ ExecFair /\ McpFair /\ HookFair

\* What was written to disk for a program is there while the program needs it, and gone when
\* the proxy, the command or the shell's session has ended.
CleanedUp == ProxyCleaned /\ FilesBracket /\ HookFiles

\* Commands, calls and prompts do not wait for ever.
DeliveryEnds == ExecEnds /\ CallsEnd /\ HookRetries
================================================================================
