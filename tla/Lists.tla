--------------------------------- MODULE Lists ---------------------------------
(***************************************************************************)
(* What the code does to a Python list with a comprehension: the elements  *)
(* of q that are in S stay, in their order.                                *)
(***************************************************************************)
EXTENDS Naturals, Sequences

Kept(q, S) ==
    LET upTo[i \in 0..Len(q)] ==
           IF i = 0 THEN <<>>
           ELSE IF q[i] \in S THEN Append(upTo[i - 1], q[i]) ELSE upTo[i - 1]
    IN  upTo[Len(q)]

================================================================================
