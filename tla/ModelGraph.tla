----------------------------- MODULE ModelGraph -----------------------------
(***************************************************************************)
(* What composing a model promises: operations are recorded one by one,    *)
(* the ends of the model are named once, and Finish either publishes       *)
(* exactly what was recorded, for good, or closes the model without a      *)
(* graph.  Tensors are named by their own index, never by a position in    *)
(* the graph.                                                              *)
(***************************************************************************)
EXTENDS Naturals, Sequences

VARIABLES
  recorded,  \* the operations accepted so far, in order
  ends,      \* <<inputs, outputs>> of the model, each <<>> until it is named
  published, \* <<>>, or <<[nodes, inputs, outputs]>> once the graph is complete
  closed     \* composition is over, with or without a graph

vars == <<recorded, ends, published, closed>>

Unnamed == <<<<>>, <<>>>>

Init == recorded = <<>> /\ ends = Unnamed /\ published = <<>> /\ closed = FALSE

Record == /\ ~closed
          /\ Len(recorded') = Len(recorded) + 1
          /\ \A i \in DOMAIN recorded : recorded'[i] = recorded[i]
          /\ UNCHANGED <<ends, published, closed>>

NameEnds == /\ ~closed /\ ends = Unnamed
            /\ UNCHANGED <<recorded, published, closed>>

Publish == /\ ~closed /\ recorded # <<>> /\ ends[1] # <<>> /\ ends[2] # <<>>
           /\ published' = <<[nodes |-> recorded, inputs |-> ends[1], outputs |-> ends[2]]>>
           /\ closed' = TRUE
           /\ UNCHANGED <<recorded, ends>>

Close == ~closed /\ closed' = TRUE /\ UNCHANGED <<recorded, ends, published>>

Next == Record \/ NameEnds \/ Publish \/ Close

Spec == Init /\ [][Next]_vars
=============================================================================
