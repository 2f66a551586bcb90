---------------------------- MODULE MCYamaMaster ----------------------------
EXTENDS YamaMaster
(* NODE_AVAIL and ALGORITMO_BALANCEO.                                      *)
WRR == [algoritm |-> "WRR", availBase |-> 2]
RR == [algoritm |-> "RR", availBase |-> 1]
MCConfig == {WRR}
MCConfigs == {WRR, RR}

(* One file of two blocks, on two nodes and on three, and two files whose  *)
(* blocks have the same numbers.                                           *)
MCOneFile == [f \in Files |-> <<<<1, 2>>, <<2, 1>>>>]
MCChain == [f \in Files |-> <<<<1, 2>>, <<2, 3>>>>]
MCTwoFiles == [f \in Files |-> IF f = CHOOSE g \in Files : TRUE
                               THEN <<<<1, 2>>, <<2, 1>>>> ELSE <<<<2, 3>>>>]
=============================================================================
