-------------------------- MODULE MC_TcpConnection --------------------------
EXTENDS TcpConnection

CONSTANTS x1

MCOthers == {x1}
MCNoOthers == {}

=============================================================================
