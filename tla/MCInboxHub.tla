------------------------------ MODULE MCInboxHub ------------------------------
EXTENDS InboxHub, TLC

\* One department, of which every agent is a member.
Pools == [e \in Email |-> Agent]

\* Every process, agent and conversation can do what the others can.
Alike == Permutations(Process) \cup Permutations(Email) \cup Permutations(Agent)
=============================================================================
