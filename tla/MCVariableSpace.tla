-------------------------- MODULE MCVariableSpace --------------------------
(* A graph of two nodes in a chain behind one external variable. *)
EXTENDS VariableSpace, TLC

MCExtIds == {-1}
MCNodeIds == {1, 2}
MCInput == 1 :> <<-1, 0>> @@ 2 :> <<1, 0>>
MCNameOf == (-1) :> "x" @@ 1 :> "y" @@ 2 :> "noname"
MCKinds == 1 :> {"single", "double"} @@ 2 :> {"single", "dynamic"}
MCWhile == 1 :> {"single", "while"} @@ 2 :> {"single"}
===========================================================================
