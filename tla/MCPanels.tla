------------------------------ MODULE MCPanels ------------------------------
EXTENDS Panels, TLC

\* The panels share no state, so one name may stand for a ticket, a text and a load: what is
\* told apart by its name alone is swapped in all of them together.
Swaps == Permutations(Tickets) \cup Permutations(Chatters)
=============================================================================
