------------------------------- MODULE Models -------------------------------
(***************************************************************************)
(* Which machine is emulated: the flags pc1000mode, nc1020mode, nc2000mode *)
(* and nc3000mode of comm.cpp, of which one is set before the start.       *)
(***************************************************************************)
VARIABLE machine

Machines == {"pc1000", "nc1020", "nc2000", "nc3000"}
pc1000mode == machine = "pc1000"
nc1020mode == machine = "nc1020"
nc2000mode == machine = "nc2000"
nc3000mode == machine = "nc3000"
=============================================================================
