----------------------------- MODULE MCMcpGate -----------------------------
EXTENDS McpGate
\* Write access with and without the confirmation, and MCP switched off with
\* the other flag left as it was.
MCBodies == {Change(Policy(TRUE, TRUE), TRUE), Change(Policy(TRUE, TRUE), FALSE),
             Change(Policy(FALSE, TRUE), FALSE)}
=============================================================================
