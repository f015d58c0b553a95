----------------------------- MODULE BoundaryBank -----------------------------
(***************************************************************************)
(* The tables of boundaryBank.sv: the walls and the coins of the one level *)
(* there is, word by word.  The most significant bit of a word is the      *)
(* leftmost line (levelY) or column (levelX, levelCoins).                  *)
(***************************************************************************)
EXTENDS Integers

BankCols == 12
BankRows == 12

LOCAL Bit(word, width, i) == (word \div 2^(width - 1 - i)) % 2 = 1

LOCAL levelYWords == << \h1803, \h1fff, \h1843, \h1fff, \h1803, \h1000,
                        \h1000, \h1803, \h1fff, \h1843, \h1fff, \h1803 >>

LOCAL levelXWords == << \hfff, \ha95, \ha95, \ha95, \ha95, \hb0d, \h000,
                        \h000, \ha95, \ha95, \ha95, \ha95, \hfff >>

LOCAL levelCoinsWords == << \h7fe, \h56a, \h7fe, \h56a, \h7fe, \h492,
                            \h492, \h7fe, \h56a, \h7fe, \h56a, \h7fe >>

BankLevelX == [line \in 0..BankRows |-> [col \in 1..BankCols |->
                  Bit(levelXWords[line + 1], BankCols, col - 1)]]

BankLevelY == [row \in 1..BankRows |-> [line \in 0..BankCols |->
                  Bit(levelYWords[row], BankCols + 1, line)]]

BankLevelCoins == {t \in (1..BankCols) \X (1..BankRows) :
                      Bit(levelCoinsWords[t[2]], BankCols, t[1] - 1)}
=============================================================================
