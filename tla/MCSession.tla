------------------------------ MODULE MCSession ------------------------------
(***************************************************************************)
(* Instances of Session for TLC.  Connections are interchangeable, and so  *)
(* are users.                                                              *)
(***************************************************************************)
EXTENDS Session, TLC

\* Frames cut down to the shortest that still have a middle: what the locks
\* protect shows with two elements; "AC" keeps a third, because its first two
\* and its last ones treat a failed send differently.
ShortFrames == [L |-> 2, AC |-> 3, AL |-> 2, RM |-> 2, QU |-> 2]

Symmetry == Permutations(Conn) \cup Permutations(User)
=============================================================================
