-------------------------- MODULE MCPersistentKernel --------------------------
(* The instance of PersistentKernel for TLC: a small task graph in the form  *)
(* of the builder's output.                                                  *)
EXTENDS PersistentKernel

(* A fork and a join: 2 triggers event 2, which 3 and 4 await; they        *)
(* trigger event 3, which the leaves 5 and 6 await.                        *)
ForkTrigger == <<1, 2, 3, 3, 4, 4>>
ForkDependent == <<0, 0, 2, 2, 3, 3>>
===============================================================================
