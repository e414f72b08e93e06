------------------------------- MODULE Edges --------------------------------
(***************************************************************************)
(* The edges of gauge configurations on a two dimensional grid of ranks:      *)
(* src/src/communicate/edges.cpp, on top of the exchange of the borders and    *)
(* of the flags of src/src/base/vectors.cpp.                                *)
(*                                                                         *)
(* A rank has four corners, beside each of them a cell of two borders, and     *)
(* out of it an edge, which belongs to a rank it never talks to: it comes       *)
(* from the border of a neighbour.  The ranks execute one program, of the      *)
(* operations that touch the borders and the edges of a configuration:        *)
(*                                                                         *)
(*   update  compute it                                                     *)
(*   theta   adapt its boundary conditions, with the borders and the edges     *)
(*           or without                                                     *)
(*   copy    copy a configuration over another, with vector_copy              *)
(*   bords   communicate the borders                                        *)
(*   edges   communicate the edges                                          *)
(*                                                                         *)
(* for a configuration in one vector, or in one for each parity.  The threads  *)
(* of a rank are one here: Borders and Vectors have them.                    *)
(***************************************************************************)
EXTENDS Integers, Sequences, SequencesExt, FiniteSetsExt

CONSTANT
  Layouts  \* how the program is started: the grid of ranks, the layout of the
           \* configuration and, as bounds, how many operations and which
Kinds == {"update", "theta", "copy", "bords", "edges"}
EdgesAssumption ==
  Layouts \subseteq [size : [0 .. 1 -> Nat \ {0}], eo : BOOLEAN, nops : Nat,
                     kinds : SUBSET Kinds]

VARIABLES
  layout,
  prog,           \* the program, as far as it has been needed
  ip, pc,         \* per rank
  corner, bord, edge,   \* per rank and vector: the data of each cell
  bord_valid, edge_valid,
  wants,          \* per rank: MPI_Irecvs, in order
  sends           \* per receiver and sender: messages, in order

where == <<prog, ip>>
data == <<corner, bord, edge>>
flags == <<bord_valid, edge_valid>>
net == <<wants, sends>>
vars == <<layout, where, pc, data, flags, net>>

Dirs == 0 .. 1
Verses == 0 .. 1
size == layout.size
Ranks == (0 .. size[0] - 1) \X (0 .. size[1] - 1)
paral_dir(mu) == size[mu] > 1
rank_neigh(r, v, mu) ==
  [r EXCEPT ![mu + 1] = (@ + (IF v = 0 THEN size[mu] - 1 ELSE 1)) % size[mu]]

\* A corner by its side in each direction; a cell of a border by its direction,
\* its side, and the side of the other direction; an edge by its sides.
Corners == Verses \X Verses
Cells == Dirs \X Verses \X Verses
CornerOf(mu, a, b) == IF mu = 0 THEN <<a, b>> ELSE <<b, a>>

Conf == IF layout.eo THEN <<"evn", "odd">> ELSE <<"lx">>
\* The copy of the configuration, if there is one.
Vects == ToSet(Conf) \cup IF layout.eo THEN {} ELSE {"copy"}

Junk == [from |-> <<>>, at |-> <<>>, ver |-> 0, theta |-> 0]

AllOps ==
  IF layout.eo
  THEN {[kind |-> "update", vs |-> <<v>>] : v \in Vects}
         \cup [kind : {"bords", "edges"}, vs : {Conf}]
  ELSE [kind : {"update", "bords"}, vs : {Conf}] \cup [kind : {"edges"}, vs : {Conf, <<"copy">>}]
         \cup [kind : {"copy"}, vs : {<<"lx", "copy">>}]
         \cup [kind : {"theta"}, vs : {Conf}, on : {{}, {"bords"}, {"bords", "edges"}}]
Ops == {o \in AllOps : o.kind \in layout.kinds}

Init ==
  /\ layout \in Layouts
  /\ prog = <<>>
  /\ ip = [r \in Ranks |-> 0]
  /\ pc = [r \in Ranks |-> "next"]
  /\ corner = [r \in Ranks |-> [v \in Vects |-> [c \in Corners |->
                 [from |-> r, at |-> c, ver |-> 0, theta |-> 0]]]]
  /\ bord = [r \in Ranks |-> [v \in Vects |-> [c \in Cells |-> Junk]]]
  /\ edge = [r \in Ranks |-> [v \in Vects |-> [c \in Corners |-> Junk]]]
  /\ bord_valid = [r \in Ranks |-> [v \in Vects |-> FALSE]]
  /\ edge_valid = bord_valid
  /\ wants = [r \in Ranks |-> <<>>]
  /\ sends = [r \in Ranks |-> [s \in Ranks |-> <<>>]]

-----------------------------------------------------------------------------
op(r) == prog[ip[r]]
Goto(r, l) == pc' = [pc EXCEPT ![r] = l]

\* Rank r comes to o, the next operation of the program; the first rank to come to
\* an operation decides which one it is.
Comes(r, o) ==
  /\ pc[r] = "next"
  /\ ip[r] < layout.nops
  /\ IF ip[r] < Len(prog) THEN o = prog[ip[r] + 1] /\ prog' = prog ELSE prog' = Append(prog, o)
  /\ ip' = [ip EXCEPT ![r] = @ + 1]

\* set_borders_invalid is for both.
Update(r, o) ==
  /\ o.kind = "update"
  /\ Comes(r, o)
  /\ LET v == o.vs[1] IN
     /\ corner' = [corner EXCEPT ![r][v] = [c \in Corners |->
                     [from |-> r, at |-> c, ver |-> ip[r] + 1, theta |-> 0]]]
     /\ bord_valid' = [bord_valid EXCEPT ![r][v] = FALSE]
     /\ edge_valid' = [edge_valid EXCEPT ![r][v] = FALSE]
  /\ UNCHANGED <<layout, pc, bord, edge, net>>

\* Mutant: the flag of the edges stays as it is.
PutThetaValid(r, o) ==
  /\ o.kind = "theta"
  /\ Comes(r, o)
  /\ LET v == o.vs[1]
         on == o.on
         Put(u) == [c \in DOMAIN u |-> [u[c] EXCEPT !.theta = @ + 1]]
     IN /\ corner' = [corner EXCEPT ![r][v] = Put(@)]
        /\ bord' = IF "bords" \in on THEN [bord EXCEPT ![r][v] = Put(@)] ELSE bord
        /\ edge' = IF "edges" \in on THEN [edge EXCEPT ![r][v] = Put(@)] ELSE edge
        /\ bord_valid' = [bord_valid EXCEPT ![r][v] = @ /\ "bords" \in on]
        /\ UNCHANGED edge_valid
  /\ UNCHANGED <<layout, pc, net>>
\* put_boundaries_conditions: the copies of the links of others are multiplied as
\* the links are, or they are no longer valid, the edges either way.
PutTheta(r, o) ==
  /\ o.kind = "theta"
  /\ Comes(r, o)
  /\ LET v == o.vs[1]
         on == o.on
         Put(u) == [c \in DOMAIN u |-> [u[c] EXCEPT !.theta = @ + 1]]
     IN /\ corner' = [corner EXCEPT ![r][v] = Put(@)]
        /\ bord' = IF "bords" \in on THEN [bord EXCEPT ![r][v] = Put(@)] ELSE bord
        /\ edge' = IF "edges" \in on THEN [edge EXCEPT ![r][v] = Put(@)] ELSE edge
        /\ bord_valid' = [bord_valid EXCEPT ![r][v] = @ /\ "bords" \in on]
        /\ edge_valid' = [edge_valid EXCEPT ![r][v] = @ /\ {"bords", "edges"} \subseteq on]
  /\ UNCHANGED <<layout, pc, net>>

\* vector_copy: all that is allocated, and the flags.
Copy(r, o) ==
  /\ o.kind = "copy"
  /\ Comes(r, o)
  /\ LET b == o.vs[1]
         a == o.vs[2]
         Over(f) == [f EXCEPT ![r][a] = f[r][b]]
     IN /\ corner' = Over(corner) /\ bord' = Over(bord) /\ edge' = Over(edge)
        /\ bord_valid' = Over(bord_valid) /\ edge_valid' = Over(edge_valid)
  /\ UNCHANGED <<layout, pc, net>>

-----------------------------------------------------------------------------
(***************************************************************************)
(* Messages.  MPI keeps the order of those of two ranks on a tag.            *)
(***************************************************************************)
Sides == SetToSeq({s \in Dirs \X Verses : paral_dir(s[1])})
BordTag == 1

\* The n-th MPI_Irecv with its sender and its tag gets the n-th message.
Before(r, j) ==
  {i \in 1 .. j - 1 : wants[r][i].from = wants[r][j].from /\ wants[r][i].tag = wants[r][j].tag}
Tagged(r, s, tag) == SelectSeq(sends[r][s], LAMBDA m : m.tag = tag)
Matching(r, j) == Tagged(r, wants[r][j].from, wants[r][j].tag)
Arrived(r, j) == Cardinality(Before(r, j)) < Len(Matching(r, j))
Received(r, j) == Matching(r, j)[Cardinality(Before(r, j)) + 1]

Filling(r, cells) == {j \in DOMAIN wants[r] : wants[r][j].cells = cells}
\* What is left of the messages of s once all that r wants has come.
Unwanted(r, s) ==
  LET Taken(i) == LET m == sends[r][s][i]
                      rank == Cardinality({k \in 1 .. i : sends[r][s][k].tag = m.tag})
                      wanted == Cardinality({j \in DOMAIN wants[r] :
                                               wants[r][j].from = s /\ wants[r][j].tag = m.tag})
                  IN  rank <= wanted
      left == SelectSeq([i \in DOMAIN sends[r][s] |-> i], LAMBDA i : ~Taken(i))
  IN  [k \in DOMAIN left |-> sends[r][s][left[k]]]

\* MPI_Irecv and MPI_Isend one after the other.
PostAll(r, receives, messages) ==
  /\ wants' = [wants EXCEPT ![r] = receives]
  /\ sends' = [s \in Ranks |-> [sends[s] EXCEPT ![r] = @ \o
                 LET mine == SelectSeq(messages, LAMBDA m : m.to = s)
                 IN  [i \in DOMAIN mine |-> [tag |-> mine[i].tag, cells |-> mine[i].cells,
                                             data |-> mine[i].data]]]]
\* MPI_Waitall
AllArrived(r) ==
  /\ \A j \in DOMAIN wants[r] : Arrived(r, j)
  /\ wants' = [wants EXCEPT ![r] = <<>>]
  /\ sends' = [sends EXCEPT ![r] = [s \in Ranks |-> Unwanted(r, s)]]

-----------------------------------------------------------------------------
(***************************************************************************)
(* Borders.                                                                *)
(***************************************************************************)
BordsValid(r, vs) == \A v \in ToSet(vs) : bord_valid[r][v]
EdgesValid(r, vs) == \A v \in ToSet(vs) : edge_valid[r][v]
Divided == \E mu \in Dirs : paral_dir(mu)

\* Mutant: the exchange is started only.
AfterPostNoWait(r) == IF op(r).kind = "edges" THEN "edges_post" ELSE "next"
\* The communication is synchronous: what has been posted is waited for.
AfterPost(r) == "bords_wait"
AfterBords(r) == IF op(r).kind = "edges" THEN "edges_post" ELSE "next"

BordsStart(r, o) ==
  /\ o.kind = "bords"
  /\ Comes(r, o)
  /\ Goto(r, "bords")
  /\ UNCHANGED <<layout, data, flags, net>>

\* communicate_lx_borders, communicate_ev_and_od_borders: start, if needed.
BordsPost(r) ==
  /\ pc[r] = "bords"
  /\ LET Beyond(i) == rank_neigh(r, Sides[i][2], Sides[i][1])
         cells(mu, h) == {<<mu, h, e>> : e \in Verses}
     IN  IF BordsValid(r, op(r).vs) \/ ~Divided
         THEN Goto(r, AfterBords(r)) /\ UNCHANGED net
         ELSE /\ PostAll(r,
                   [i \in DOMAIN Sides |-> [from |-> Beyond(i), tag |-> BordTag,
                      cells |-> cells(Sides[i][1], Sides[i][2])]],
                   [i \in DOMAIN Sides |->
                      LET mu == Sides[i][1]
                          h == 1 - Sides[i][2]
                      IN  [to |-> rank_neigh(r, h, mu), tag |-> BordTag, cells |-> cells(mu, 1 - h),
                           data |-> [v \in ToSet(op(r).vs) |-> [e \in Verses |->
                                       corner[r][v][CornerOf(mu, h, e)]]]]])
              /\ Goto(r, AfterPost(r))
  /\ UNCHANGED <<layout, where, data, flags>>

BordsWait(r) ==
  /\ pc[r] = "bords_wait"
  /\ AllArrived(r)
  /\ bord' = [bord EXCEPT ![r] = [v \in Vects |-> [c \in Cells |->
       LET from == Filling(r, {<<c[1], c[2], e>> : e \in Verses})
       IN  IF v \in ToSet(op(r).vs) /\ from # {}
           THEN Received(r, CHOOSE j \in from : TRUE).data[v][c[3]] ELSE @[v][c]]]]
  /\ bord_valid' = [bord_valid EXCEPT ![r] = [v \in Vects |-> @[v] \/ v \in ToSet(op(r).vs)]]
  /\ Goto(r, AfterBords(r))
  /\ UNCHANGED <<layout, where, corner, edge, edge_valid>>

-----------------------------------------------------------------------------
(***************************************************************************)
(* Edges.                                                                  *)
(***************************************************************************)
\* Mutant: the edges that are there are used if those of one parity are valid.
EdgesStartEither(r, o) ==
  /\ o.kind = "edges"
  /\ Comes(r, o)
  /\ Goto(r, IF layout.eo /\ \E v \in ToSet(o.vs) : edge_valid[r][v] THEN "next" ELSE "bords")
  /\ UNCHANGED <<layout, data, flags, net>>
\* communicate_lx_edges has the borders communicated in any case,
\* communicate_eo_edges if the edges are not valid.
EdgesStart(r, o) ==
  /\ o.kind = "edges"
  /\ Comes(r, o)
  /\ Goto(r, IF layout.eo /\ EdgesValid(r, o.vs) THEN "next" ELSE "bords")
  /\ UNCHANGED <<layout, data, flags, net>>

\* The internal edges, in the order in which the messages are numbered: of each
\* vector, by their sides.
Internal(r) ==
  LET n == Len(op(r).vs)
  IN  [i \in 1 .. 4 * n |-> <<op(r).vs[(i - 1) \div 4 + 1], ((i - 1) \div 2) % 2, (i - 1) % 2>>]

\* An edge goes to the rank on its side in the second direction, from the border
\* in the first one.
EdgesPost(r) ==
  /\ pc[r] = "edges_post"
  /\ IF EdgesValid(r, op(r).vs) THEN Goto(r, "next") /\ UNCHANGED net
     ELSE LET inner == IF paral_dir(0) /\ paral_dir(1) THEN Internal(r) ELSE <<>>
          IN  /\ PostAll(r,
                   [i \in DOMAIN inner |->
                      LET h == inner[i][2]
                          k == inner[i][3]
                      IN  [from |-> rank_neigh(r, 1 - k, 1), tag |-> i - 1,
                           cells |-> {<<inner[i][1], h, 1 - k>>}]],
                   [i \in DOMAIN inner |->
                      LET h == inner[i][2]
                          k == inner[i][3]
                      IN  [to |-> rank_neigh(r, k, 1), tag |-> i - 1,
                           cells |-> {<<inner[i][1], h, 1 - k>>},
                           data |-> bord[r][inner[i][1]][<<0, h, k>>]]])
              /\ Goto(r, "edges_wait")
  /\ UNCHANGED <<layout, where, data, flags>>

EdgesWait(r) ==
  /\ pc[r] = "edges_wait"
  /\ AllArrived(r)
  /\ edge' = [edge EXCEPT ![r] = [v \in Vects |-> [c \in Corners |->
       LET from == Filling(r, {<<v, c[1], c[2]>>})
       IN  IF from # {} THEN Received(r, CHOOSE j \in from : TRUE).data ELSE @[v][c]]]]
  /\ edge_valid' = [edge_valid EXCEPT ![r] = [v \in Vects |-> @[v] \/ v \in ToSet(op(r).vs)]]
  /\ Goto(r, "next")
  /\ UNCHANGED <<layout, where, corner, bord, bord_valid>>

-----------------------------------------------------------------------------
Advance(r) ==
  \/ \E o \in Ops : \/ Update(r, o) \/ PutTheta(r, o) \/ Copy(r, o)
                     \/ BordsStart(r, o) \/ EdgesStart(r, o)
  \/ BordsPost(r) \/ BordsWait(r) \/ EdgesPost(r) \/ EdgesWait(r)
Over == \A r \in Ranks : pc[r] = "next" /\ ip[r] = layout.nops
Next == (\E r \in Ranks : Advance(r)) \/ (Over /\ UNCHANGED vars)

\* Every step takes a rank further: without a deadlock all end.
Spec == Init /\ [][Next]_vars

-----------------------------------------------------------------------------
\* What the first i operations make of each vector.
History(i) ==
  LET h[k \in 0 .. i] ==
        IF k = 0 THEN [v \in Vects |-> [ver |-> 0, theta |-> 0]]
        ELSE LET o == prog[k]
                 v == o.vs[1]
             IN  CASE o.kind = "update" -> [h[k - 1] EXCEPT ![v] = [ver |-> k, theta |-> 0]]
                   [] o.kind = "theta" -> [h[k - 1] EXCEPT ![v].theta = @ + 1]
                   [] o.kind = "copy" -> [h[k - 1] EXCEPT ![o.vs[2]] = h[k - 1][v]]
                   [] OTHER -> h[k - 1]
  IN  h[i]
Value(h, s, c) == [from |-> s, at |-> c, ver |-> h.ver, theta |-> h.theta]

BordsRight(r, v) ==
  LET h == History(ip[r])[v]
  IN  \A c \in Cells : paral_dir(c[1]) =>
        bord[r][v][c] = Value(h, rank_neigh(r, c[2], c[1]), CornerOf(c[1], 1 - c[2], c[3]))
\* The edge is the corner that touches, of the rank beyond two borders.
EdgesRight(r, v) ==
  LET h == History(ip[r])[v]
      Beyond(c) == rank_neigh(rank_neigh(r, c[1], 0), c[2], 1)
  IN  paral_dir(0) /\ paral_dir(1) =>
        \A c \in Corners : edge[r][v][c] = Value(h, Beyond(c), <<1 - c[1], 1 - c[2]>>)

PCs == {"next", "bords", "bords_wait", "edges_post", "edges_wait"}
Data == [from : Ranks \cup {<<>>}, at : Corners \cup {<<>>}, ver : Nat, theta : Nat]
\* The type invariant.  A rank waits for nothing unless it waits.
TypeOK ==
  /\ ip \in [Ranks -> 0 .. layout.nops] /\ pc \in [Ranks -> PCs]
  /\ corner \in [Ranks -> [Vects -> [Corners -> Data]]]
  /\ bord \in [Ranks -> [Vects -> [Cells -> Data]]]
  /\ edge \in [Ranks -> [Vects -> [Corners -> Data]]]
  /\ bord_valid \in [Ranks -> [Vects -> BOOLEAN]] /\ edge_valid \in [Ranks -> [Vects -> BOOLEAN]]
  /\ \A r \in Ranks : wants[r] # <<>> => pc[r] \in {"bords_wait", "edges_wait"}

\* Between two operations borders and edges flagged as valid are copies of what
\* the other ranks have after the same operations, however far those ranks are.
ValidAreRight ==
  \A r \in Ranks, v \in Vects :
    pc[r] = "next" =>
      /\ bord_valid[r][v] => BordsRight(r, v)
      /\ edge_valid[r][v] => EdgesRight(r, v)

\* Who has communicated the edges has them all, and the borders.
EdgesCommunicated ==
  \A r \in Ranks :
    pc[r] = "next" /\ ip[r] > 0 /\ op(r).kind = "edges" =>
      \A v \in ToSet(op(r).vs) : BordsRight(r, v) /\ EdgesRight(r, v)

\* The messages of edges are numbered from 0, and one of these numbers is that of
\* the messages of borders: each gets to the cells it has been sent for.
RightMessage ==
  \A r \in Ranks : \A j \in DOMAIN wants[r] :
    Arrived(r, j) => Received(r, j).cells = wants[r][j].cells
=============================================================================
