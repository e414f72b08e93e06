---------------------------- MODULE GaugeFixing ----------------------------
(***************************************************************************)
(* Landau_or_Coulomb_gauge_fix: the loops around the two methods.           *)
(*                                                                         *)
(* fixer is the transformation found so far; all transformations are told   *)
(* apart by a number, and by how many have been multiplied since it was     *)
(* last put back on the group.  A configuration is modelled by the fixer it *)
(* is the transform of, at the near and at the far end of the links that    *)
(* cross a border.                                                         *)
(***************************************************************************)
EXTENDS Integers

CONSTANTS NMAX,       \* the largest nmax_iterations
          NUMBERS     \* bound: transformations are told apart modulo this

GaugeFixingAssumption == NMAX \in Nat \ {0} /\ NUMBERS \in Nat \ {0, 1}

VARIABLES pars,
          pc,         \* "start", "fix", "check", "unitarize", "recheck", "done"
          iter, use_adapt, nskipped_adapt, use_GCG,
          fixer,      \* its value, that of its copies in the borders, their flag
          fixed_conf, \* the same
          F_offset,   \* the configuration it is the functional of
          fixed       \* prec <= target_precision

vars == <<pars, pc, iter, use_adapt, nskipped_adapt, use_GCG, fixer, fixed_conf, F_offset, fixed>>

Pars == [method : {"overrelax", "exponentiate"}, adapt : BOOLEAN, gcg : BOOLEAN,
         nmax_iterations : 1 .. NMAX, unitarize_each : 1 .. NMAX]

Value == [n : 0 .. NUMBERS - 1, drift : 0 .. NMAX]
Identity == [n |-> 0, drift |-> 0]
More(v) == [n |-> (v.n + 1) % NUMBERS, drift |-> v.drift + 1]
OnGroup(v) == [v EXCEPT !.drift = 0]

Vector(v) == [val |-> v, bord |-> v, valid |-> FALSE]
Communicated(w) == IF w.valid THEN w ELSE [w EXCEPT !.bord = w.val, !.valid = TRUE]
\* set_borders_invalid after the sites have been written.
Written(w, v) == [w EXCEPT !.val = v, !.valid = FALSE]

-----------------------------------------------------------------------------
Init ==
  /\ pars \in Pars
  /\ pc = "start"
  /\ iter = 0 /\ nskipped_adapt = 0
  /\ use_adapt = pars.adapt /\ use_GCG = pars.gcg
  /\ fixer = Vector(Identity)
  /\ fixed_conf = Vector(<<Identity, Identity>>)
  /\ F_offset = <<Identity, Identity>>
  /\ fixed = FALSE

\* Mutant: the functional of the sites is not kept.
OffsetOld(c) == F_offset
Offset(c) == c.val
\* check_Landau_or_Coulomb_gauge_fixed: the quality needs the borders.
CheckFixed ==
  /\ fixed_conf' = Communicated(fixed_conf)
  /\ F_offset' = Offset(fixed_conf)
  /\ fixed' \in BOOLEAN

\* Its result is not used before the first iteration.
FirstCheck ==
  /\ pc = "start" /\ pc' = "fix"
  /\ CheckFixed
  /\ UNCHANGED <<pars, iter, use_adapt, nskipped_adapt, use_GCG, fixer>>

\* gauge_transform_conf, of the original configuration.
Transformed(c, f) == Written(c, <<f.val, Communicated(f).bord>>)
gauge_transform_conf(f) ==
  /\ fixer' = Communicated(f)
  /\ fixed_conf' = Transformed(fixed_conf, f)

\* adapt_alpha tries transformations on fixer and on the configuration, and puts
\* back fixer alone; it finds a value of alpha or gives up.
adapt_alpha(found) ==
  nskipped_adapt' = IF found THEN 0 ELSE nskipped_adapt + 1

Exponentiate ==
  /\ pc = "fix" /\ pars.method = "exponentiate"
  /\ gauge_transform_conf(Written(fixer, More(fixer.val)))
  /\ IF use_adapt THEN \E found \in BOOLEAN : adapt_alpha(found) ELSE UNCHANGED nskipped_adapt
  /\ IF use_GCG /\ iter > 1 THEN use_GCG' \in BOOLEAN ELSE UNCHANGED use_GCG
  /\ iter' = iter + 1
  /\ pc' = "check"
  /\ UNCHANGED <<pars, use_adapt, F_offset, fixed>>

\* Fixer and configuration are multiplied site by site; the borders of fixer,
\* not needed by this method, keep their flag.
Overrelax ==
  /\ pc = "fix" /\ pars.method = "overrelax"
  /\ fixer' = [fixer EXCEPT !.val = More(@)]
  /\ fixed_conf' = Written(fixed_conf, <<More(fixed_conf.val[1]), More(fixed_conf.val[2])>>)
  /\ iter' = iter + 1
  /\ pc' = "check"
  /\ UNCHANGED <<pars, use_adapt, nskipped_adapt, use_GCG, F_offset, fixed>>

Exhausted == iter >= pars.nmax_iterations

\* The adaptive search is switched off when it has failed too often, or when the
\* precision is beyond its reach.
Check ==
  /\ pc = "check"
  /\ CheckFixed
  /\ pc' = IF fixed' \/ Exhausted \/ iter % pars.unitarize_each # 0 THEN "unitarize" ELSE "fix"
  /\ use_adapt' \in IF use_adapt /\ nskipped_adapt < 5 THEN BOOLEAN ELSE {FALSE}
  /\ UNCHANGED <<pars, iter, nskipped_adapt, use_GCG, fixer>>

\* Mutant: the copies in the borders of the old fixer are taken for valid.
UnitarizedOnly(f) == [f EXCEPT !.val = OnGroup(@)]
Unitarized(f) == Written(f, OnGroup(f.val))
Unitarize ==
  /\ pc = "unitarize" /\ pc' = "recheck"
  /\ gauge_transform_conf(Unitarized(fixer))
  /\ UNCHANGED <<pars, iter, use_adapt, nskipped_adapt, use_GCG, F_offset, fixed>>

IterAfter == iter
Recheck ==
  /\ pc = "recheck"
  /\ CheckFixed
  /\ pc' = IF fixed' \/ Exhausted THEN "done" ELSE "fix"
  /\ iter' = IterAfter
  /\ UNCHANGED <<pars, use_adapt, nskipped_adapt, use_GCG, fixer>>

Done == pc = "done" /\ UNCHANGED vars

Next == FirstCheck \/ Exponentiate \/ Overrelax \/ Check \/ Unitarize \/ Recheck \/ Done

\* Every step takes the loops further: none can be left before done.
Spec == Init /\ [][Next]_vars

-----------------------------------------------------------------------------
(***************************************************************************)
(* Properties.                                                             *)
(***************************************************************************)

TypeOK ==
  /\ pars \in Pars
  /\ pc \in {"start", "fix", "check", "unitarize", "recheck", "done"}
  /\ iter \in 0 .. pars.nmax_iterations
  /\ nskipped_adapt \in 0 .. 5 /\ (use_adapt /\ pc = "fix" => nskipped_adapt < 5)
  /\ fixer.val \in Value /\ fixer.bord \in Value
  /\ fixed_conf.val \in Value \X Value /\ fixed_conf.bord \in Value \X Value
  /\ F_offset \in Value \X Value

\* Whatever the method and however often it is put back on the group, the
\* configuration is the transform of the original one by fixer, at both ends of
\* the links that cross a border, and it is handed back with fixer on the group.
ConfOfFixer ==
  /\ fixed_conf.val = <<fixer.val, fixer.val>>
  /\ fixed_conf.valid => fixed_conf.bord = fixed_conf.val
  /\ pc = "done" => fixer.val.drift = 0

\* The adaptive search starts from the functional of the present configuration.
OffsetOfConf == pc = "fix" => F_offset = fixed_conf.val

\* "unable to fix to precision" (gauge_fixing.cpp:720): the program does not go
\* on with a configuration that could not be fixed.
FixedAtEnd == pc = "done" => fixed

\* "iterations between reunitarization" (gauge_fixing.hpp:44): when it is put back
\* on the group without being fixed or out of iterations, that many have been made.
UnitarizedEach ==
  pc = "unitarize" /\ ~fixed /\ ~Exhausted => fixer.val.drift = pars.unitarize_each
=============================================================================
