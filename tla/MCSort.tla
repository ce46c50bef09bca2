-------------------------------- MODULE MCSort --------------------------------
(* All arrays of six elements of three values: two tasks, one of which has *)
(* tasks of its own, work at the same time.                                *)
EXTENDS QuickSort
===============================================================================
