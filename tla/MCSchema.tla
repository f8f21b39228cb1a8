------------------------------ MODULE MCSchema ------------------------------
(* Five migrations: columns of two tables, an index that is dropped, and a  *)
(* rebuild that copies the columns the others added.                        *)
EXTENDS Schema

FiveTables ==
    [v \in 1 .. 5 |-> CASE v = 1 -> "agents" [] v = 3 -> "seed_pool"
                        [] OTHER -> "trajectory_bests"]
=============================================================================
