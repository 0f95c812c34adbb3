-------------------------- MODULE MCCycleCollector --------------------------
(* Instances of CycleCollector for TLC, one heap for each question: two    *)
(* components of one class and a struct of the class; two components whose *)
(* class has a closure among its methods; one of them with a class that is *)
(* published to other requests; one whose scope is copied; a container, an *)
(* environment and a closure.                                              *)
EXTENDS CycleCollector, TLC

CONSTANTS s, e, i1, i2, b, m, f

Components == {s, i1, i2, b, m}
Methods    == {e, i1, i2, b, m, f}
Published  == {e, i1, b, m, f}
Copies     == {s, e, i1, b, m, f}
Functions  == {s, e, f}

AllHeaps     == {Components, Methods, Published, Copies, Functions}
FunctionHeap == {Functions}

MCLogFull(h)  == IF h = Components THEN 2 ELSE Cardinality(Node) + 1
MCMaxRefs(h)  == IF h \in {Copies, Published} THEN 1 ELSE 2
MCMaxScope(h) == IF h \in {Published, Functions} THEN 1 ELSE 0
MCMaxHolders(h) == IF h = Published THEN 1 ELSE 2

Symmetry == Permutations(Inst)
=============================================================================
