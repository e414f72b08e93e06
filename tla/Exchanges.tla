----------------------------- MODULE Exchanges ------------------------------
(***************************************************************************)
(* all_to_all_comm_t by itself, and as the sweeper uses it; which of the   *)
(* two is told by part.  Nothing is composed but their runs.               *)
(***************************************************************************)
EXTENDS Integers, Sequences

CONSTANTS NDIM, glb_size, nrank_dir, Jobs, Worlds, Buffered,   \* of AllToAll
          Sweepers, TablesOf(_)                                \* of GaugeSweeper

VARIABLES part,
          job, world, k, pc, delta_rank, to, fr, made, data, net, unasked,
          name, sweep_pc, sweep, class, through, conf, gathered, links_inbox, bord_valid

all_to_all_vars == <<job, world, k, pc, delta_rank, to, fr, made, data, net, unasked>>
sweep_vars == <<name, sweep_pc, sweep, class, through, conf, gathered, links_inbox, bord_valid>>
ExchangesVars == <<part, all_to_all_vars, sweep_vars>>

A == INSTANCE AllToAll
H == INSTANCE GaugeSweeper WITH pc <- sweep_pc, inbox <- links_inbox

\* The ranks are not numbered anew when the grid is made.
ASSUME ListsAssumption ==
  /\ A!nranks \in Nat \ {0} /\ Worlds \subseteq {[r \in A!Ranks |-> r]}
  /\ A!AllToAllAssumption /\ A!JobsAssumption
ASSUME SweepersAssumption == H!GaugeSweeperAssumption

NoAllToAll ==
  /\ job = <<>> /\ world = <<>> /\ k = <<>> /\ pc = <<>> /\ delta_rank = <<>> /\ to = <<>>
  /\ fr = <<>> /\ made = <<>> /\ data = <<>> /\ net = <<>> /\ unasked = <<>>
NoSweep ==
  /\ name = "none" /\ sweep_pc = <<>> /\ sweep = <<>> /\ class = <<>> /\ through = <<>>
  /\ conf = <<>> /\ gathered = <<>> /\ links_inbox = <<>> /\ bord_valid = <<>>

ExchangesInit ==
  \/ part = "all_to_all" /\ A!Init /\ NoSweep
  \/ part = "sweep" /\ H!Init /\ NoAllToAll
  \/ part \notin {"all_to_all", "sweep"} /\ NoAllToAll /\ NoSweep

ExchangesNext ==
  /\ UNCHANGED part
  /\ \/ part = "all_to_all" /\ A!Next /\ UNCHANGED sweep_vars
     \/ part = "sweep" /\ H!Next /\ UNCHANGED all_to_all_vars

\* Every step takes a rank further: without a deadlock all of them end.
ExchangesSpec == ExchangesInit /\ [][ExchangesNext]_ExchangesVars

-----------------------------------------------------------------------------
\* all_to_all.cpp: each rank ends up with the elements the lists mean it to have,
\* of messages of the lengths that were announced, in the order it waits for them,
\* and no message is left.
AllDelivered == part = "all_to_all" => A!TypeOK /\ A!Delivered /\ A!RightMessage /\ A!NothingLeft

\* gauge_sweeper.cpp: a sweep by all threads of all ranks is a sweep of one process,
\* link after link in the order of the classes, and no class is refused.
SweepRight == part = "sweep" =>
  /\ H!TypeOK /\ H!NotRefused
  /\ H!SequentialSweep /\ H!EachOncePerSweep /\ H!BorderNotTaken
=============================================================================
