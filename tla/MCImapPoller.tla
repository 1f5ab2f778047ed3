---------------------------- MODULE MCImapPoller ----------------------------
EXTENDS ImapPoller, TLC

=============================================================================
