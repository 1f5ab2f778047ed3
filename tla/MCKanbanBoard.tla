--------------------------- MODULE MCKanbanBoard ---------------------------
(* KanbanBoard on three tickets, two columns and a status without a        *)
(* column; the second column takes two cards.                              *)
EXTENDS KanbanBoard, TLC

CONSTANTS t1, t2, t3, c1, c2, open, waiting, done, r1, r2

TicketSet == {t1, t2, t3}
ColumnSet == {c1, c2}
StatusSet == {open, waiting, done}
Mapping == c1 :> open @@ c2 :> done
Limits == c1 :> 0 @@ c2 :> 2
Requests == {r1, r2}

Symmetry == Permutations(TicketSet) \union Permutations(Requests)
=============================================================================
