------------------------------ MODULE MCGauge -------------------------------
(***************************************************************************)
(* What is done to a gauge configuration; which of it is told by part.       *)
(*                                                                         *)
(* staples     The staples of all links, with no edges, and again with them. *)
(* overrelax   Two sweeps of the overrelaxation, with two threads per rank.  *)
(*                                                                         *)
(* The lattice has two directions, both divided between two ranks, so that   *)
(* every site is on the surface of its rank and each rank is the neighbour   *)
(* of another on both sides.                                               *)
(***************************************************************************)
EXTENDS Tables

VARIABLES part,
          ip, conf, sq, rect, block_out, block_in, blocks,
          sweep, rank_pc, eo, ieo, der, site_fixer, copies, send_buf, recv_buf, inbox

staples_vars == <<ip, conf, sq, rect, block_out, block_in, blocks>>
overrelax_vars ==
  <<sweep, rank_pc, eo, ieo, der, site_fixer, copies, send_buf, recv_buf, inbox>>
MCVars == <<part, staples_vars, overrelax_vars>>

MCSize == [mu \in 0 .. 1 |-> 4]
MCRanks == [mu \in 0 .. 1 |-> 2]

S == INSTANCE Staples WITH
       NThreads <- 1, send_buf <- block_out, recv_buf <- block_in, inbox <- blocks
O == INSTANCE Overrelax WITH
       gauge <- 0, NThreads <- 2, NSweeps <- 2,
       pc <- rank_pc, fixer <- site_fixer, fixed_conf <- copies

ASSUME S!StaplesAssumption
ASSUME O!OverrelaxAssumption

-----------------------------------------------------------------------------
NoStaples ==
  /\ ip = <<>> /\ conf = <<>> /\ sq = <<>> /\ rect = <<>>
  /\ block_out = <<>> /\ block_in = <<>> /\ blocks = <<>>
NoOverrelax ==
  /\ sweep = 0 /\ rank_pc = <<>> /\ eo = <<>> /\ ieo = <<>> /\ der = <<>> /\ site_fixer = <<>>
  /\ copies = <<>> /\ send_buf = <<>> /\ recv_buf = <<>> /\ inbox = <<>>

MCInit ==
  \/ part = "staples" /\ S!Init /\ NoOverrelax
  \/ part = "overrelax" /\ O!Init /\ NoStaples

MCNext ==
  /\ UNCHANGED part
  /\ \/ part = "staples" /\ S!Next /\ UNCHANGED overrelax_vars
     \/ part = "overrelax" /\ O!Next /\ UNCHANGED staples_vars

\* Every step takes a thread further: without a deadlock all end.
MCSpec == MCInit /\ [][MCNext]_MCVars

-----------------------------------------------------------------------------
\* squared_staples.cpp, rectangular_staples.cpp: each link gets its staples, in
\* their places, from blocks taken in the right order, and their sum is that
\* which is computed with the edges.
StaplesRight ==
  part = "staples" =>
    S!TypeOK /\ S!RightBlock /\ S!SquaresRight /\ S!RectanglesRight /\ S!SumsAgree

\* gauge_fixing.cpp: a thread takes the derivative at a site from links that no one
\* changes meanwhile and that are up to date, on both sides of a border, and all copies
\* agree after a sweep.
OverrelaxRight == part = "overrelax" => O!TypeOK /\ O!DerivativeRight /\ O!CopiesAgree
=============================================================================
