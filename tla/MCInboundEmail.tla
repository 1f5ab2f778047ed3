--------------------------- MODULE MCInboundEmail ---------------------------
EXTENDS InboundEmail, TLC

=============================================================================
