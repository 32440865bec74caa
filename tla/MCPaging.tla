------------------------------- MODULE MCPaging -------------------------------
EXTENDS Paging

MCIds == 1..4
MCAt == [m \in MCIds |-> m]

MCFewIds == 1..3
MCFewAt == [m \in MCFewIds |-> m]
=============================================================================
