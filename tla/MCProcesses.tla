----------------------------- MODULE MCProcesses ------------------------------
(* Two starts of a worker and a collector, and one fault.                  *)
EXTENDS EmrakulProcesses
===============================================================================
