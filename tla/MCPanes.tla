------------------------------- MODULE MCPanes -------------------------------
EXTENDS Panes

CONSTANTS query, renamed, net

MCConversations == <<query, renamed>>
MCNetworkOf == (query :> net) @@ (renamed :> net)
=============================================================================
