-------------------------- MODULE MC_HookForward --------------------------
(* Small instances of HookForward for TLC. *)
EXTENDS HookForward

\* Two daemons the shims may start, one of them with a daemon of another version,
\* or an MCP server's forwarder.
CONSTANTS a, b, h, f
Pairs == {{a, b}, {a, f}, {h}}

Both == {{a, b}}
=============================================================================
