----------------------------- MODULE MCBorders ------------------------------
(***************************************************************************)
(* The exchanges of borders and of edges, which of the two is told by part. *)
(*                                                                         *)
(* Borders on one rank, on two ranks (both neighbours are the same rank)   *)
(* and on three; with one and two threads.  The two vectors are alike, so  *)
(* only EVN is communicated alone.  Edges on two ranks in each direction,   *)
(* on three in the second one, and on a grid with no edges.                 *)
(***************************************************************************)
EXTENDS Borders

VARIABLES part, layout, edge_prog, edge_ip, edge_pc, corner, bord, edge,
          bord_valid, edge_valid, wants, edge_sends

edges_vars == <<layout, edge_prog, edge_ip, edge_pc, corner, bord, edge,
                bord_valid, edge_valid, wants, edge_sends>>
MCVars == <<part, vars, edges_vars>>

MCGroups == {<<EVN>>, <<EVN, ODD>>}
Layout(r, t, b, n) ==
  [nranks |-> r, nthreads |-> t, buffering |-> b, nops |-> n]

\* Buffering only lets ranks go further apart; a rank that waits for its
\* messages to leave may wait forever.
MCLayouts ==
  {Layout(1, 2, FALSE, 3), Layout(2, 1, TRUE, 3), Layout(2, 1, FALSE, 3),
   Layout(2, 2, TRUE, 2), Layout(3, 1, TRUE, 1), Layout(3, 1, FALSE, 1)}

OnGrid(a, b, eo, n, kinds) ==
  [size |-> [mu \in 0 .. 1 |-> IF mu = 0 THEN a ELSE b], eo |-> eo, nops |-> n, kinds |-> kinds]
AllKinds == {"update", "theta", "copy", "bords", "edges"}
\* Three operations of kinds that may spoil one another, and all of them by twos.
EdgesLayouts ==
  {OnGrid(2, 2, FALSE, 3, {"theta", "edges"}), OnGrid(2, 2, FALSE, 3, {"update", "copy", "edges"}),
   OnGrid(2, 2, FALSE, 2, AllKinds), OnGrid(2, 2, TRUE, 3, {"update", "edges"}),
   OnGrid(1, 2, FALSE, 2, AllKinds), OnGrid(2, 3, FALSE, 1, AllKinds)}

E == INSTANCE Edges WITH
       Layouts <- EdgesLayouts, prog <- edge_prog, ip <- edge_ip, pc <- edge_pc,
       sends <- edge_sends

ASSUME E!EdgesAssumption

NoEdges ==
  /\ layout = <<>> /\ edge_prog = <<>> /\ edge_ip = <<>> /\ edge_pc = <<>>
  /\ corner = <<>> /\ bord = <<>> /\ edge = <<>>
  /\ bord_valid = <<>> /\ edge_valid = <<>> /\ wants = <<>> /\ edge_sends = <<>>

MCInit ==
  \/ part = "borders" /\ Init /\ NoEdges
  \/ part = "edges" /\ nranks = 1 /\ Init /\ E!Init

MCNext ==
  \/ part = "borders" /\ Next /\ UNCHANGED <<part, edges_vars>>
  \/ part = "edges" /\ E!Next /\ UNCHANGED <<part, vars>>

\* Whenever some thread or message can move, one does.
MCFairSpec ==
  /\ MCInit /\ [][MCNext]_MCVars
  /\ WF_MCVars(part = "borders" /\ Progress /\ UNCHANGED <<part, edges_vars>>)

-----------------------------------------------------------------------------
\* The buffers of borders.cpp are shared by all vectors: what is in send_buf is
\* kept until MPI has taken it, and recv_buf is unpacked when all has come.
BuffersHeld == [](TypeOK /\ UnpackComplete) /\ SendBufHeld

\* Ranks and threads never wait for one another forever: they all decide alike
\* whether to communicate, and every message meets its receive.
BordersEnd == part = "borders" => ProgramEnds

\* edges.cpp: who has communicated the edges has those of all ranks beside him,
\* edges flagged as valid are what those ranks have now, and though borders and
\* edges are sent with tags that coincide, each message gets to the cells it is for.
EdgesRight == part = "edges" =>
  E!TypeOK /\ E!ValidAreRight /\ E!EdgesCommunicated /\ E!RightMessage
=============================================================================
