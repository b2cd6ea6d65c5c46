----------------------------- MODULE MCTreasury -----------------------------
(* Instances of Treasury for TLC.                                          *)
EXTENDS Treasury, TLC

CONSTANTS bank, vt, l1, l2

(* One amount a user enters, half of the entries' first amount and of the  *)
(* lines': enough for a part, a tax and an edit; a commission of 50 %.     *)
MCAmount == {1}
MCBps == {0, 5000}
MCLineAmount == [l \in Line |-> IF l = l1 THEN 1 ELSE -2]
MCLineMonth == [l \in Line |-> 1]
MCFirstEntries == {<<Due("RECEIVABLE", 2, 0, NoAccount)>>, <<Due("PAYABLE", 2, 5000, NoAccount)>>}

AllHandlers == LedgerHandlers \cup LineHandlers

RequestSymmetry == Permutations(Request)
=============================================================================
