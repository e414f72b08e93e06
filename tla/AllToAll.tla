------------------------------ MODULE AllToAll ------------------------------
(***************************************************************************)
(* all_to_all_comm_t: how each rank learns what to send to which rank and   *)
(* where to put what it receives, and how the elements are then exchanged.  *)
(*                                                                         *)
(* A list says where each element goes (scatter: the sender knows) or where *)
(* it comes from (gather: the receiver knows).  Of the two the program sets *)
(* up buffers in order of rank; what the other side must know is sent to    *)
(* it: first the numbers of elements, in a ring, then their places.  All    *)
(* messages after those have the same tag, those of different communicators *)
(* and the explanations too: only their order tells them apart.             *)
(***************************************************************************)
EXTENDS Lattice, SequencesExt

CONSTANTS Jobs,       \* programs: names of communicators used one after another
          Worlds,     \* the numberings of the ranks in MPI_COMM_WORLD
          Buffered    \* whether a send may complete before it is received

AllToAllAssumption ==
  /\ Buffered \in BOOLEAN
  /\ Worlds \subseteq [Ranks -> Ranks]
  /\ \A j \in DOMAIN Jobs : \A c \in DOMAIN Jobs[j].list :
       /\ Jobs[j].list[c].kind \in {"scatter", "gather"}
       /\ Jobs[j].list[c].list \in [Ranks -> Seq([rank : Ranks, loc : Int, dest : Int])]

\* What a list means: which element of which rank goes to which place of which.
Move(c, r, i) ==
  LET e == c.list[r][i]
  IN  IF c.kind = "scatter" THEN [from |-> r, loc |-> e.loc, to |-> e.rank, dest |-> e.dest]
      ELSE [from |-> e.rank, loc |-> e.loc, to |-> r, dest |-> e.dest]
Moves(c) == UNION {{Move(c, r, i) : i \in DOMAIN c.list[r]} : r \in Ranks}

\* What was never written is read as garbage.
ElementOf(d, el) == IF el \in DOMAIN d THEN d[el] ELSE <<"garbage">>
\* A gather leaves the rest of a vector as it is.
Moved(c, d) ==
  [r \in Ranks |->
     LET coming == {m \in Moves(c) : m.to = r}
     IN  [el \in {m.dest : m \in coming} \union (IF c.kind = "scatter" THEN {} ELSE DOMAIN d[r]) |->
            IF \E m \in coming : m.dest = el
            THEN LET m == CHOOSE x \in coming : x.dest = el IN ElementOf(d[m.from], m.loc)
            ELSE d[r][el]]]

\* The elements of a list go to places of their own, and each exchange of a job gives
\* what the job wants if the elements go where the list says.
JobsAssumption ==
  \A j \in DOMAIN Jobs :
    LET J == Jobs[j]
        Had(n) == IF n = 1 THEN J.start ELSE J.want[n - 1]
    IN  /\ J.program \in Seq(DOMAIN J.list) /\ DOMAIN J.start = Ranks
        /\ \A c \in DOMAIN J.list, r, q \in Ranks :
             \A i \in DOMAIN J.list[c].list[r], k \in DOMAIN J.list[c].list[q] :
               LET m == Move(J.list[c], r, i)
                   n == Move(J.list[c], q, k)
               IN  m.to = n.to /\ m.dest = n.dest => r = q /\ i = k
        /\ \A n \in DOMAIN J.program : J.want[n] = Moved(J.list[J.program[n]], Had(n))

VARIABLES job, world,
          k,          \* per rank: how far it is in the program
          pc,         \* "idle", "ring", "ringing", "explain", "learn", "send", "receive"
          delta_rank,
          to, fr,     \* elements for each rank and from each rank, in order of the
                      \* buffers: only their numbers where the rank is not told yet
          made,       \* per rank: the communicators made before, by name
          data,       \* the vector that is exchanged
          net,        \* messages between two ranks, in order
          unasked     \* messages sent, less the receives posted for them

vars == <<job, world, k, pc, delta_rank, to, fr, made, data, net, unasked>>

Name(r) == Jobs[job].program[k[r]]
Op(r) == Jobs[job].list[Name(r)]
Scatter(r) == Op(r).kind = "scatter"
Active(r) == k[r] <= Len(Jobs[job].program)
\* rank: the number in MPI_COMM_WORLD of the process whose place in the grid is r.
Process(w) == CHOOSE r \in Ranks : world[r] = w

\* Communicators of a program are made when they are first used.
Inited(r) == Name(r) \in DOMAIN made[r]

-----------------------------------------------------------------------------
(***************************************************************************)
(* Messages.                                                               *)
(***************************************************************************)
Channels == {"world", "cart"}
Post(r, ch, msgs) == [net EXCEPT ![ch] = [s \in Ranks |-> [q \in Ranks |->
                        IF s = r THEN net[ch][s][q] \o msgs[q] ELSE net[ch][s][q]]]]
Take(r, ch, from) == [net EXCEPT ![ch] = [s \in Ranks |-> [q \in Ranks |->
                        IF q = r /\ s \in from THEN Tail(net[ch][s][q]) ELSE net[ch][s][q]]]]
Posted(r, recvs, sends) ==
  unasked' = [s \in Ranks |-> [q \in Ranks |->
    unasked[s][q] + (IF s = r /\ q \in sends THEN 1 ELSE 0) - (IF q = r /\ s \in recvs THEN 1 ELSE 0)]]
\* MPI_Waitall: all receives have their message, and the sends their receiver.
Complete(r, ch, from) ==
  /\ \A s \in from : net[ch][s][r] # <<>>
  /\ Buffered \/ \A q \in Ranks : unasked[r][q] <= 0

-----------------------------------------------------------------------------
(***************************************************************************)
(* Setting up a communicator.                                              *)
(***************************************************************************)
Init ==
  /\ job \in DOMAIN Jobs
  /\ world \in Worlds
  /\ k = [r \in Ranks |-> 1]
  /\ pc = [r \in Ranks |-> "idle"]
  /\ delta_rank = [r \in Ranks |-> 0]
  /\ to = [r \in Ranks |-> <<>>] /\ fr = [r \in Ranks |-> <<>>]
  /\ made = [r \in Ranks |-> <<>>]
  /\ data = Jobs[job].start
  /\ net = [ch \in Channels |-> [s \in Ranks |-> [q \in Ranks |-> <<>>]]]
  /\ unasked = [s \in Ranks |-> [q \in Ranks |-> 0]]

\* The elements of a list that concern rank q, in the order of the list: they
\* are together in the buffers, after those of lower ranks.
Of(list, q) ==
  LET of[n \in 0 .. Len(list)] ==
        IF n = 0 THEN <<>> ELSE IF list[n].rank = q THEN Append(of[n - 1], list[n]) ELSE of[n - 1]
  IN  of[Len(list)]
Fields(list, f) == [q \in Ranks |-> [i \in 1 .. Len(Of(list, q)) |-> Of(list, q)[i][f]]]

\* setup_knowing_where_to_send, setup_knowing_what_to_ask: count.
Begin(r) ==
  /\ Active(r) /\ pc[r] = "idle" /\ ~Inited(r)
  /\ IF Scatter(r)
     THEN /\ to' = [to EXCEPT ![r] = Fields(Op(r).list[r], "loc")]
          /\ fr' = [fr EXCEPT ![r] = [q \in Ranks |-> <<>>]]
     ELSE /\ fr' = [fr EXCEPT ![r] = Fields(Op(r).list[r], "dest")]
          /\ to' = [to EXCEPT ![r] = [q \in Ranks |-> <<>>]]
  /\ delta_rank' = [delta_rank EXCEPT ![r] = 0]
  /\ pc' = [pc EXCEPT ![r] = "ring"]
  /\ UNCHANGED <<job, world, k, made, data, net, unasked>>

Known(r) == IF Scatter(r) THEN to[r] ELSE fr[r]

\* setup_nper_rank_other_temp: a rank sends to the one delta ahead and receives
\* from the one delta behind.
dest_rank(r) == (world[r] + delta_rank[r]) % nranks
recv_rank(r) == (world[r] - delta_rank[r]) % nranks
RingPost(r) ==
  /\ pc[r] = "ring"
  /\ LET q == Process(dest_rank(r))
     IN  /\ net' = Post(r, "world", [s \in Ranks |-> IF s = q THEN <<Len(Known(r)[dest_rank(r)])>> ELSE <<>>])
         /\ Posted(r, {Process(recv_rank(r))}, {q})
  /\ pc' = [pc EXCEPT ![r] = "ringing"]
  /\ UNCHANGED <<job, world, k, delta_rank, to, fr, made, data>>

\* Places for that many elements, to be filled.
Blank(n) == [i \in 1 .. n |-> -1]
\* Mutant: noted as of the rank that is sent to.
RingDoneAhead(r) ==
  /\ pc[r] = "ringing"
  /\ LET s == Process(recv_rank(r))
         n == Head(net["world"][s][r])
     IN  /\ Complete(r, "world", {s})
         /\ net' = Take(r, "world", {s})
         /\ IF Scatter(r) THEN fr' = [fr EXCEPT ![r][dest_rank(r)] = Blank(n)] /\ UNCHANGED to
            ELSE to' = [to EXCEPT ![r][dest_rank(r)] = Blank(n)] /\ UNCHANGED fr
  /\ IF delta_rank[r] = nranks - 1
     THEN pc' = [pc EXCEPT ![r] = "explain"] /\ UNCHANGED delta_rank
     ELSE pc' = [pc EXCEPT ![r] = "ring"] /\ delta_rank' = [delta_rank EXCEPT ![r] = @ + 1]
  /\ UNCHANGED <<job, world, k, made, data, unasked>>
RingDone(r) ==
  /\ pc[r] = "ringing"
  /\ LET s == Process(recv_rank(r))
         n == Head(net["world"][s][r])
     IN  /\ Complete(r, "world", {s})
         /\ net' = Take(r, "world", {s})
         /\ IF Scatter(r) THEN fr' = [fr EXCEPT ![r][recv_rank(r)] = Blank(n)] /\ UNCHANGED to
            ELSE to' = [to EXCEPT ![r][recv_rank(r)] = Blank(n)] /\ UNCHANGED fr
  /\ IF delta_rank[r] = nranks - 1
     THEN pc' = [pc EXCEPT ![r] = "explain"] /\ UNCHANGED delta_rank
     ELSE pc' = [pc EXCEPT ![r] = "ring"] /\ delta_rank' = [delta_rank EXCEPT ![r] = @ + 1]
  /\ UNCHANGED <<job, world, k, made, data, unasked>>

\* common_setup_part1, the list of the ranks to communicate with.
Ranked(places) == {q \in Ranks : places[q] # <<>>}
\* Mutant: nothing awaited from itself.
NoteFromOthers(r) == Ranked(IF Scatter(r) THEN fr[r] ELSE to[r]) \ {r}
NoteFrom(r) == Ranked(IF Scatter(r) THEN fr[r] ELSE to[r])

\* Mutant: not in the order of the buffer.
ExplanationReversed(r) ==
  [q \in Ranks |-> Reverse(Fields(Op(r).list[r], IF Scatter(r) THEN "dest" ELSE "loc")[q])]
\* What the other ranks must know: where to put what the rank sends, or where to
\* take what it asks.
Explanation(r) == Fields(Op(r).list[r], IF Scatter(r) THEN "dest" ELSE "loc")

\* common_setup_part2.
Explain(r) ==
  /\ pc[r] = "explain"
  /\ net' = Post(r, "cart", [q \in Ranks |-> IF Explanation(r)[q] = <<>> THEN <<>>
                                             ELSE <<[about |-> "places", of |-> k[r], body |-> Explanation(r)[q]]>>])
  /\ Posted(r, NoteFrom(r), Ranked(Explanation(r)))
  /\ pc' = [pc EXCEPT ![r] = "learn"]
  /\ UNCHANGED <<job, world, k, delta_rank, to, fr, made, data>>

\* The check stops the program if two elements are put to one place.
MultiplyAssigned(places) ==
  \E q, s \in Ranks : \E i \in DOMAIN places[q], j \in DOMAIN places[s] :
    <<q, i>> # <<s, j>> /\ places[q][i] = places[s][j]
Learn(r) ==
  /\ pc[r] = "learn"
  /\ Complete(r, "cart", NoteFrom(r))
  /\ LET note == [q \in Ranks |-> IF q \in NoteFrom(r) THEN Head(net["cart"][q][r]).body ELSE <<>>]
     IN  /\ IF Scatter(r) THEN fr' = [fr EXCEPT ![r] = note] /\ UNCHANGED to
            ELSE to' = [to EXCEPT ![r] = note] /\ UNCHANGED fr
         /\ pc' = [pc EXCEPT ![r] = IF MultiplyAssigned(fr'[r]) THEN "crash" ELSE "send"]
  /\ net' = Take(r, "cart", NoteFrom(r))
  /\ made' = [made EXCEPT ![r] = [c \in DOMAIN made[r] \union {Name(r)} |->
                                    IF c = Name(r) THEN [to |-> to'[r], fr |-> fr'[r]] ELSE made[r][c]]]
  /\ UNCHANGED <<job, world, k, delta_rank, data, unasked>>

-----------------------------------------------------------------------------
(***************************************************************************)
(* communicate.                                                            *)
(***************************************************************************)
\* A communicator made before is used again.
Reuse(r) ==
  /\ Active(r) /\ pc[r] = "idle" /\ Inited(r)
  /\ to' = [to EXCEPT ![r] = made[r][Name(r)].to]
  /\ fr' = [fr EXCEPT ![r] = made[r][Name(r)].fr]
  /\ pc' = [pc EXCEPT ![r] = "send"]
  /\ UNCHANGED <<job, world, k, delta_rank, made, data, net, unasked>>

Element(r, el) == ElementOf(data[r], el)
Send(r) ==
  /\ pc[r] = "send"
  /\ net' = Post(r, "cart", [q \in Ranks |->
       IF to[r][q] = <<>> THEN <<>>
       ELSE <<[about |-> "data", of |-> k[r], body |-> [i \in 1 .. Len(to[r][q]) |-> Element(r, to[r][q][i])]]>>])
  /\ Posted(r, Ranked(fr[r]), Ranked(to[r]))
  /\ pc' = [pc EXCEPT ![r] = "receive"]
  /\ UNCHANGED <<job, world, k, delta_rank, made, to, fr, data>>

\* The elements of the buffer are put to their places: a gather leaves the rest
\* of the vector as it is.
Placed(places) == UNION {{<<q, i>> : i \in DOMAIN places[q]} : q \in DOMAIN places}
Unpacked(r, block) ==
  LET Place(x) == fr[r][x[1]][x[2]]
      kept == IF Scatter(r) THEN {} ELSE DOMAIN data[r]
  IN  [el \in kept \union {Place(x) : x \in Placed(fr[r])} |->
         IF \E x \in Placed(fr[r]) : Place(x) = el
         THEN LET x == CHOOSE y \in Placed(fr[r]) : Place(y) = el IN block[x[1]][x[2]]
         ELSE data[r][el]]

Receive(r) ==
  /\ pc[r] = "receive"
  /\ Complete(r, "cart", Ranked(fr[r]))
  /\ data' = [data EXCEPT ![r] =
       Unpacked(r, [q \in Ranked(fr[r]) |-> Head(net["cart"][q][r]).body])]
  /\ net' = Take(r, "cart", Ranked(fr[r]))
  /\ k' = [k EXCEPT ![r] = @ + 1]
  /\ pc' = [pc EXCEPT ![r] = "idle"]
  /\ UNCHANGED <<job, world, delta_rank, made, to, fr, unasked>>

End == (\A r \in Ranks : ~Active(r)) /\ UNCHANGED vars

RankStep(r) ==
  \/ Begin(r) \/ RingPost(r) \/ RingDone(r) \/ Explain(r) \/ Learn(r)
  \/ Reuse(r) \/ Send(r) \/ Receive(r)
Next == (\E r \in Ranks : RankStep(r)) \/ End

\* Every step takes a rank further: without a deadlock all of them end.
Spec == Init /\ [][Next]_vars

-----------------------------------------------------------------------------
(***************************************************************************)
(* Properties.                                                             *)
(***************************************************************************)

TypeOK ==
  /\ world \in Worlds
  /\ k \in [Ranks -> 1 .. Len(Jobs[job].program) + 1]
  /\ pc \in [Ranks -> {"idle", "ring", "ringing", "explain", "learn", "send", "receive", "crash"}]
  /\ delta_rank \in [Ranks -> Ranks]
  /\ \A r \in Ranks : pc[r] # "crash"

\* After each exchange every rank holds what the program means it to hold.
Delivered ==
  \A r \in Ranks :
    pc[r] = "idle" => data[r] = IF k[r] = 1 THEN Jobs[job].start[r] ELSE Jobs[job].want[k[r] - 1][r]

\* The message a rank takes is the one it waits for, although explanations and
\* data of all communicators have one tag, and it has the length that was
\* announced.
RightMessage ==
  \A r, s \in Ranks :
    /\ pc[r] = "learn" /\ s \in NoteFrom(r) /\ net["cart"][s][r] # <<>> =>
         LET m == Head(net["cart"][s][r])
         IN  /\ m.about = "places" /\ m.of = k[r]
             /\ Len(m.body) = Len(IF Scatter(r) THEN fr[r][s] ELSE to[r][s])
    /\ pc[r] = "receive" /\ s \in Ranked(fr[r]) /\ net["cart"][s][r] # <<>> =>
         LET m == Head(net["cart"][s][r])
         IN  m.about = "data" /\ m.of = k[r] /\ Len(m.body) = Len(fr[r][s])

\* When all ranks have ended no message is left.
NothingLeft ==
  (\A r \in Ranks : ~Active(r)) =>
    \A ch \in Channels, r, s \in Ranks : net[ch][r][s] = <<>>

\* "find (communicating) the complementary info" (all_to_all.cpp:31): when the
\* ring is over a rank knows how many elements each other rank has for it.
ComplementaryInfo ==
  \A r, s \in Ranks :
    pc[r] = "explain" =>
      IF Scatter(r) THEN Len(fr[r][s]) = Len(Of(Op(r).list[s], r))
      ELSE Len(to[r][s]) = Len(Of(Op(r).list[s], r))
=============================================================================
