----------------------------- MODULE MCPushPath -----------------------------
EXTENDS PushPath
============================================================================
