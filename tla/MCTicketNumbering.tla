-------------------------- MODULE MCTicketNumbering --------------------------
EXTENDS TicketNumbering, TLC

=============================================================================
