------------------------------ MODULE BlockPool ------------------------------
(***************************************************************************)
(* What a caller may expect of a pool of fixed-size blocks, whatever the   *)
(* list it is kept in: a block is handed to one caller at a time, and a    *)
(* call is refused only when every block is out.                           *)
(***************************************************************************)
CONSTANTS Blocks, Null

VARIABLES
    held,       \* the blocks that are out
    answer      \* what the last call of allocate returned

Init == held = {} /\ answer = Null

Hand == \E b \in Blocks \ held : held' = held \cup {b} /\ answer' = b

Refuse == held = Blocks /\ answer' = Null /\ UNCHANGED held

TakeBack == \E b \in held : held' = held \ {b} /\ UNCHANGED answer

Next == Hand \/ Refuse \/ TakeBack

Spec == Init /\ [][Next]_<<held, answer>>
=============================================================================
