---------------------------- MODULE MCTicTacToe ----------------------------
(* Small instances of TicTacToeNet for TLC: what the players type. *)
EXTENDS TicTacToeNet

\* Every cell, a pair off the board (3 is in no row), and a pair that two
\* chars turn into the cell in row 1 and column 0.
CellsAndOff == Cells \cup {<<3, 0>>, <<257, 256>>}
=============================================================================
