----------------------------- MODULE MCCampaign -----------------------------
(***************************************************************************)
(* projects/ib: campaigns of two jobs on two configurations, with a crash  *)
(* and a second submission or with signals and shortage of time, and of    *)
(* three jobs that race for one configuration; and, by itself, what one    *)
(* job does to its configurations, which it fixes to Landau gauge, with up *)
(* to eight iterations, enough for the adaptive search to be given up      *)
(* after five; and its work on them: three threads, two boundary           *)
(* conditions, two charges, two configurations of two hits with two calls  *)
(* each.  Which of the three is told by part.                              *)
(***************************************************************************)
EXTENDS Campaign

CONSTANTS
  Threads, Master, Thetas, Charges,  \* the team of a job, and what it works with
  MaxConfs, MaxHits, MaxCalls,       \* bounds of its work
  NMAX, NUMBERS                      \* and of the gauge fixing

VARIABLES part, nconf, nhit, ncalls, inner_conf_valid, stored_args, inner_conf,
          team, args, thread_pc, update,
          pars, fix_pc, iteration, use_adapt, nskipped_adapt, use_GCG, fixer, fixed_conf,
          F_offset, fixed

I == INSTANCE InnerConf WITH stored <- stored_args, pc <- thread_pc
F == INSTANCE GaugeFixing WITH pc <- fix_pc, iter <- iteration

ASSUME InnerAssumption == I!InnerConfAssumption
ASSUME FixingAssumption == F!GaugeFixingAssumption

inner == <<nconf, nhit, ncalls, inner_conf_valid, stored_args, inner_conf, team,
           args, thread_pc, update>>
fixing == <<pars, fix_pc, iteration, use_adapt, nskipped_adapt, use_GCG, fixer,
            fixed_conf, F_offset, fixed>>
MCVars == <<part, vars, inner, fixing>>

Of(j, c, traits, crashes, rounds) ==
  [njobs |-> j, nconfs |-> c, store |-> "store" \in traits,
   transform |-> "transform" \in traits, short |-> "short" \in traits,
   prompt |-> "hasty" \notin traits, crashes |-> crashes, rounds |-> rounds]

MCCampaigns ==
  {Of(2, 2, {"store"}, 1, 2), Of(2, 2, {"short"}, 0, 1), Of(3, 1, {}, 0, 1),
   Of(2, 2, {"hasty"}, 0, 1), Of(2, 1, {"transform", "store"}, 1, 2),
   Of(3, 2, {}, 0, 1)}

NoInnerConf ==
  /\ nconf = 0 /\ nhit = 0 /\ ncalls = 0 /\ inner_conf_valid = FALSE
  /\ stored_args = NONE /\ inner_conf = NONE /\ team = {} /\ args = NONE
  /\ thread_pc = [t \in Threads |-> "idle"] /\ update = [t \in Threads |-> FALSE]

NoFixing ==
  /\ pars = NONE /\ fix_pc = "none" /\ iteration = 0 /\ use_adapt = FALSE
  /\ nskipped_adapt = 0 /\ use_GCG = FALSE /\ fixer = NONE /\ fixed_conf = NONE
  /\ F_offset = NONE /\ fixed = FALSE

NoCampaign == camp = Of(3, 1, {}, 0, 1) /\ Init

MCInit ==
  \/ part = "campaign" /\ Init /\ NoInnerConf /\ NoFixing
  \/ part = "gauge_fixing" /\ F!Init /\ NoCampaign /\ NoInnerConf
  \/ part = "inner_conf" /\ I!Init /\ NoCampaign /\ NoFixing

MCNext ==
  \/ part = "campaign" /\ Next /\ UNCHANGED <<part, inner, fixing>>
  \/ part = "gauge_fixing" /\ F!Next /\ UNCHANGED <<part, vars, inner>>
  \/ part = "inner_conf" /\ I!Next /\ UNCHANGED <<part, vars, fixing>>

MCSpec == MCInit /\ [][MCNext]_MCVars

\* A job that is not dead goes on.
MCFairSpec ==
  /\ MCSpec
  /\ \A j \in 1 .. MaxJobs :
       WF_MCVars(/\ part = "campaign" /\ j \in Jobs /\ JobStep(j)
                 /\ UNCHANGED <<part, inner, fixing>>)

-----------------------------------------------------------------------------
\* Every job of projects/ib comes to its end, or dies, whatever the others do;
\* and if nothing goes wrong every configuration gets analysed.
CampaignEnds == part = "campaign" => []TypeOK /\ JobsEnd /\ AllAnalysed

\* get_updated_conf: the threads of a call decide alike whether the copy is
\* made again, and whoever works with it finds what it asked for.
InnerConfRight == part = "inner_conf" => I!TypeOK /\ I!SameDecision /\ I!RightConf

\* setup_conf calls Landau_or_Coulomb_gauge_fix: the fixed configuration is the
\* transform of the original one by fixer, and the adaptive search starts from its
\* functional.
FixerRight == part = "gauge_fixing" => F!TypeOK /\ F!ConfOfFixer /\ F!OffsetOfConf
=============================================================================
