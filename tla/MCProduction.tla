---------------------------- MODULE MCProduction ----------------------------
(***************************************************************************)
(* Production of three trajectories, with every way of saving: the default *)
(* (each one), none but at the end, and stored configurations that fall on *)
(* or between the running ones.                                            *)
(***************************************************************************)
EXTENDS Production

Input(n, running_each, stored_each, meas, traits) ==
  [ntraj_tot |-> n, store_running |-> running_each, store_each |-> stored_each,
   meas_each |-> meas, hot |-> "hot" \in traits,
   quenched |-> "quenched" \in traits, meta |-> "meta" \in traits]

MCInputs ==
  {Input(3, 1, 2, 1, {}), Input(3, 1, 0, 2, {"quenched"}),
   Input(3, 0, 0, 1, {"hot"}), Input(3, 2, 1, 2, {"hot", "quenched"}),
   Input(2, 1, 1, 1, {"meta"}), Input(3, 2, 0, 0, {"meta"}),
   Input(4, 3, 2, 1, {})}
=============================================================================
