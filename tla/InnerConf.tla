----------------------------- MODULE InnerConf -----------------------------
(***************************************************************************)
(* The configuration that projects/ib works on: get_updated_conf keeps, in *)
(* inner_conf, a copy of the loaded or of the smeared configuration with   *)
(* the boundary conditions theta and the photon field for a charge, and    *)
(* makes it again only if what it was made from has changed.  It compares  *)
(* its arguments with those of the last call, and relies on those who      *)
(* change the content of a configuration or of the photon field to clear   *)
(* inner_conf_valid.                                                       *)
(*                                                                         *)
(* It is called by the master alone (generate_source, get_qprop) or, in    *)
(* compute_handcuffs_contr, by all the threads, which share its static     *)
(* variables with no lock: the team of a call.  Contents are numbered by   *)
(* the conf or by the hit that made them.                                  *)
(***************************************************************************)
EXTENDS Integers

CONSTANTS
  Threads, Master,
  Thetas, Charges,   \* the boundary conditions and the charges in use
  MaxConfs, MaxHits, \* bounds: configurations, and hits of each
  MaxCalls,          \* bound: calls in a hit
  NONE               \* the NULL pointer

InConfs == {"glb_conf", "ape_smeared_conf"}
Args == [conf : InConfs, charge : Charges, theta : Thetas]
Contents ==
  [conf : InConfs, of : Nat, theta : Thetas, charge : Charges, photon : Nat]

InnerConfAssumption ==
  /\ Master \in Threads
  /\ 0 \in Charges
  /\ MaxConfs \in Nat /\ MaxHits \in Nat /\ MaxCalls \in Nat
  /\ NONE \notin InConfs \cup Args \cup Contents

VARIABLES
  nconf, nhit,        \* configurations loaded and photon fields made so far
  ncalls,             \* calls in this hit
  inner_conf_valid,
  stored,             \* stored_conf, stored_charge and stored_theta
  inner_conf,         \* what the copy has been made from
  team, args,         \* who makes the present call, and with what
  pc, update          \* of each thread; what it has found

vars == <<nconf, nhit, ncalls, inner_conf_valid, stored, inner_conf, team,
          args, pc, update>>

\* What a copy depends on: which configuration, and which photon field if any.
Content(a) == [conf |-> a.conf, of |-> nconf, theta |-> a.theta,
               charge |-> a.charge,
               photon |-> IF a.charge = 0 THEN 0 ELSE nhit]

Init ==
  /\ nconf = 0 /\ nhit = 0
  /\ ncalls = MaxCalls            \* no call before the first hit
  /\ inner_conf_valid = FALSE
  /\ \E th \in Thetas : stored = [conf |-> NONE, charge |-> 0, theta |-> th]
  /\ inner_conf = NONE
  /\ team = {}
  /\ args = NONE
  /\ pc = [t \in Threads |-> "idle"]
  /\ update = [t \in Threads |-> FALSE]

Idle == \A t \in Threads : pc[t] = "idle"

-----------------------------------------------------------------------------
\* setup_conf: the loaded and the smeared configuration change together.
SetupConf ==
  /\ Idle
  /\ nconf < MaxConfs
  /\ nconf' = nconf + 1
  /\ inner_conf_valid' = FALSE
  /\ ncalls' = MaxCalls
  /\ UNCHANGED <<nhit, stored, inner_conf, team, args, pc, update>>

\* Mutant: the copy stays valid with the photon field of the last hit.
GeneratePhotonsKeep ==
  /\ Idle
  /\ nconf > 0 /\ nhit < nconf * MaxHits
  /\ nhit' = nhit + 1
  /\ ncalls' = 0
  /\ UNCHANGED <<nconf, inner_conf_valid, stored, inner_conf, team, args, pc,
                 update>>

\* generate_photon_stochastic_propagator, which begins the work on a hit.
GeneratePhotons ==
  /\ Idle
  /\ nconf > 0 /\ nhit < nconf * MaxHits
  /\ nhit' = nhit + 1
  /\ ncalls' = 0
  /\ inner_conf_valid' = FALSE
  /\ UNCHANGED <<nconf, stored, inner_conf, team, args, pc, update>>

\* generate_source and get_qprop call it by the master; smearing uses the
\* smeared configuration, and no charge.  local_or_conserved_vector_current_mel
\* calls it by all threads.
Call ==
  /\ Idle
  /\ ncalls < MaxCalls
  /\ ncalls' = ncalls + 1
  /\ args' \in Args
  /\ args'.conf = "ape_smeared_conf" => args'.charge = 0
  /\ team' \in IF args'.conf = "glb_conf" THEN {{Master}, Threads} ELSE {{Master}}
  /\ pc' = [t \in Threads |-> IF t \in team' THEN "test" ELSE "idle"]
  /\ UNCHANGED <<nconf, nhit, inner_conf_valid, stored, inner_conf, update>>

\* What the arguments tell of the copy.
Differs(a) == a # stored

\* The comparisons, each of which clears the flag.
Test(t) ==
  /\ pc[t] = "test"
  /\ inner_conf_valid' = (inner_conf_valid /\ ~ Differs(args))
  /\ pc' = [pc EXCEPT ![t] = "decide"]
  /\ UNCHANGED <<nconf, nhit, ncalls, stored, inner_conf, team, args, update>>

\* The flag is read again, after the comparisons.
Decide(t) ==
  /\ pc[t] = "decide"
  /\ update' = [update EXCEPT ![t] = ~ inner_conf_valid]
  /\ pc' = [pc EXCEPT ![t] = IF inner_conf_valid THEN "store" ELSE "copy"]
  /\ UNCHANGED <<nconf, nhit, ncalls, inner_conf_valid, stored, inner_conf,
                 team, args>>

\* Mutant: the copy is made without waiting for the others.
CopyAlone ==
  \E t \in team :
    /\ pc[t] = "copy"
    /\ inner_conf' = Content(args)
    /\ pc' = [pc EXCEPT ![t] = "store"]
    /\ UNCHANGED <<nconf, nhit, ncalls, inner_conf_valid, stored, team, args,
                   update>>

\* vector_copy, adapt_theta and add_photon_field_to_conf, work of the whole
\* team that ends at a barrier.
Copy ==
  /\ team # {}
  /\ \A t \in team : pc[t] = "copy"
  /\ inner_conf' = Content(args)
  /\ pc' = [t \in Threads |-> IF t \in team THEN "store" ELSE pc[t]]
  /\ UNCHANGED <<nconf, nhit, ncalls, inner_conf_valid, stored, team, args,
                 update>>

\* Update value and set valid.
Store(t) ==
  /\ pc[t] = "store"
  /\ stored' = args
  /\ inner_conf_valid' = TRUE
  /\ pc' = [pc EXCEPT ![t] = "use"]
  /\ UNCHANGED <<nconf, nhit, ncalls, inner_conf, team, args, update>>

\* The caller works with inner_conf, all the team up to a barrier.
Use ==
  /\ team # {}
  /\ \A t \in team : pc[t] = "use"
  /\ pc' = [t \in Threads |-> "idle"]
  /\ update' = [t \in Threads |-> FALSE]
  /\ team' = {} /\ args' = NONE
  /\ UNCHANGED <<nconf, nhit, ncalls, inner_conf_valid, stored, inner_conf>>

Done == Idle /\ nconf = MaxConfs /\ nhit = nconf * MaxHits /\ ncalls = MaxCalls

Next ==
  \/ SetupConf \/ GeneratePhotons \/ Call \/ Copy \/ Use
  \/ \E t \in Threads : Test(t) \/ Decide(t) \/ Store(t)
  \/ Done /\ UNCHANGED vars

Spec == Init /\ [][Next]_vars

-----------------------------------------------------------------------------
\* The type invariant; a copy that is valid has been made from something.
TypeOK ==
  /\ nconf \in 0 .. MaxConfs /\ nhit \in 0 .. MaxConfs * MaxHits
  /\ ncalls \in 0 .. MaxCalls
  /\ inner_conf_valid \in BOOLEAN
  /\ stored \in [conf : InConfs \cup {NONE}, charge : Charges, theta : Thetas]
  /\ inner_conf = NONE \/
       inner_conf \in [conf : InConfs, of : 1 .. nconf, theta : Thetas,
                       charge : Charges, photon : 0 .. nhit]
  /\ team \subseteq Threads
  /\ args \in Args \cup {NONE}
  /\ pc \in [Threads -> {"idle", "test", "decide", "copy", "store", "use"}]
  /\ update \in [Threads -> BOOLEAN]
  /\ inner_conf_valid => stored.conf # NONE /\ inner_conf # NONE

\* Whoever works with inner_conf finds what it asked for: the configuration
\* that is loaded, the boundary conditions, the charge and the photon field of
\* this hit, whatever was asked before and by whomever.
RightConf ==
  \A t \in Threads : pc[t] = "use" => inner_conf = Content(args)

\* The threads of a call agree whether the copy is made again: that takes all
\* of them, and one that skipped it would leave the others at its barrier.
SameDecision ==
  \A t, u \in team : pc[t] \in {"copy", "store", "use"} /\ pc[u] \in {"copy", "store", "use"}
                       => update[t] = update[u]

=============================================================================
