-------------------------------- MODULE Sums ---------------------------------
(* Sums over finite sets of rows, as the services and the properties take them. *)
EXTENDS Integers, FiniteSetsExt

\* The values of the function f at the elements of S, added up.
SumOver(f, S) == MapThenSumSet(LAMBDA x : f[x], S)
===============================================================================
