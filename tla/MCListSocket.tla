---------------------------- MODULE MCListSocket ----------------------------
(* Instances of ListSocket: the agent's own assignments, of the pages of the *)
(* assignments or of other pages.  Nothing tells two assignments apart.     *)
EXTENDS ListSocket

Mine == {"mine"}
MCPages == {Mine, {}}

Symmetry == Permutations(Ids)
=============================================================================
