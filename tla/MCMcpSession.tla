---------------------------- MODULE MCMcpSession ----------------------------
(* A small session for McpSession: one bundle's path, one output path.       *)
EXTENDS McpSession, TLC

CONSTANTS in, out, made, c1, c2

R(tool, path, deep) == [tool |-> tool, path |-> path, deep |-> deep]

\* A patch may write over the bundle it was loaded from.
MCRequests ==
  {R("load", in, FALSE), R("load", out, FALSE), R("light", in, FALSE),
   R("full", in, TRUE), R("modules", in, FALSE), R("all", in, TRUE),
   R("patch", in, FALSE), R("patch", out, FALSE), R("create", made, FALSE)}

AnyCall == Permutations(Calls)
=============================================================================
