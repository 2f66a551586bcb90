---------------------------- MODULE MCYamaPlanner ----------------------------
(* Layouts of files over two and three nodes for the runs of the planner.  *)
EXTENDS YamaPlanner

(* One block, two blocks that share a node so that no node holds           *)
(* everything, and blocks that both of two nodes hold.                     *)
MCFiles ==
    {<<<<1, 2>>>>, <<<<2, 3>>, <<1, 3>>>>, <<<<2, 1>>, <<1, 2>>, <<2, 1>>>>}
=============================================================================
