---------------------------- MODULE GaugeSweeper ----------------------------
(***************************************************************************)
(* sweep_conf of gauge_sweeper_t: a configuration is swept by heatbath,      *)
(* overrelaxation or cooling.  A link is replaced by one that depends on     *)
(* its staples, so on links of other threads and other ranks.  The links     *)
(* of other ranks are gathered once per box, with all_to_all_comm_t; within   *)
(* the box there is a barrier of threads after each class, and nothing       *)
(* keeps the ranks together.                                               *)
(*                                                                         *)
(* A link is modelled by how many times it has been updated.                *)
(***************************************************************************)
EXTENDS Integers, Sequences, FiniteSets

CONSTANTS Sweepers,     \* names of sweepers
          TablesOf(_)   \* the Tables of each, with the number of threads
                      \* and, as a bound, of sweeps

\* The lists of a sweeper that is not refused: each link is in one class of its
\* rank, once (check_hit_exactly_once); its staples have no link of that class
\* (check_hit_in_the_exact_order) and, as a side is no shorter than two staples,
\* of other ranks only links whose turn is in another box.
GoodTables(S) ==
  LET Links == DOMAIN S.needs
      BoxOf(l) == S.class[l] \div S.per_box
  IN  /\ S.owner \in [Links -> S.ranks] /\ S.class \in [Links -> 0 .. S.nclasses - 1]
      /\ \A r \in S.ranks, c \in 0 .. S.nclasses - 1 :
           LET all == S.classes[r][c]
           IN  /\ all \in Seq(Links)
               /\ \A i, j \in 1 .. Len(all) : all[i] = all[j] => i = j
               /\ \A l \in Links : (\E i \in 1 .. Len(all) : all[i] = l)
                                    <=> S.owner[l] = r /\ S.class[l] = c
      /\ \A l \in Links : \A s \in S.needs[l] :
           /\ s \in Links
           /\ S.owner[s] = S.owner[l] => S.class[s] # S.class[l]
           /\ S.owner[s] # S.owner[l] =>
                BoxOf(s) # BoxOf(l) /\ s \in S.gathered[S.owner[l]][BoxOf(l)]
      /\ \A r \in S.ranks, b \in 0 .. (S.nclasses - 1) \div S.per_box :
           \A l \in S.gathered[r][b] : l \in Links /\ S.owner[l] # r

GaugeSweeperAssumption ==
  \A s \in Sweepers :
    LET S == TablesOf(s)
    IN  /\ S.nthreads \in Nat \ {0} /\ S.nsweeps \in Nat \ {0}
        /\ S.nclasses \in Nat \ {0} /\ S.per_box \in Nat \ {0}
        /\ S.refused \in BOOLEAN
        /\ ~ S.refused => GoodTables(S)

VARIABLES name,       \* of the sweeper
          pc,         \* per rank: "gather", "wait", "update", "end", "crash"
          sweep, class,
          through,    \* per rank: the threads that wait at the barrier
          conf,       \* times each link has been updated
          gathered,   \* per rank: the links of others, kept in the memory of the border
          inbox,      \* per rank and sender: messages on their way
          bord_valid

vars == <<name, pc, sweep, class, through, conf, gathered, inbox, bord_valid>>

T == TablesOf(name)
Ranks == T.ranks
Threads == 0 .. T.nthreads - 1
Box(r) == class[r] \div T.per_box

\* NISSA_PARALLEL_LOOP: as many for each thread, the last get fewer.
Load(n) == (n + T.nthreads - 1) \div T.nthreads
Least(a, b) == IF a < b THEN a ELSE b
Chunk(t, n) == Least(n, Load(n) * t) + 1 .. Least(n, Load(n) * (t + 1))
LinksOf(r, t) ==
  LET all == T.classes[r][class[r]] IN {all[n] : n \in Chunk(t, Len(all))}

Init ==
  /\ name \in Sweepers
  /\ pc = [r \in Ranks |-> IF T.refused THEN "crash" ELSE "gather"]
  /\ sweep = [r \in Ranks |-> 0] /\ class = [r \in Ranks |-> 0]
  /\ through = [r \in Ranks |-> {}]
  /\ conf = [l \in DOMAIN T.needs |-> 0]
  /\ gathered = [r \in Ranks |-> <<>>]
  /\ inbox = [r \in Ranks |-> [s \in Ranks |-> <<>>]]
  /\ bord_valid = [r \in Ranks |-> TRUE]

-----------------------------------------------------------------------------
\* The links rank q asks of r for a box.
Asked(r, q, box) == {l \in T.gathered[q][box] : T.owner[l] = r}

\* box_comm[ibox]->communicate, first half.
Gather(r) ==
  /\ pc[r] = "gather"
  /\ inbox' = [q \in Ranks |-> [s \in Ranks |->
       IF s = r /\ Asked(r, q, Box(r)) # {}
       THEN Append(inbox[q][s], [l \in Asked(r, q, Box(r)) |-> conf[l]]) ELSE inbox[q][s]]]
  /\ pc' = [pc EXCEPT ![r] = "wait"]
  /\ UNCHANGED <<name, sweep, class, through, conf, gathered, bord_valid>>

\* Second half: the first message of each rank is taken, and the links written
\* where the borders are otherwise.
From(r) == {s \in Ranks : Asked(s, r, Box(r)) # {}}
Merged(r) ==
  [l \in UNION {DOMAIN Head(inbox[r][s]) : s \in From(r)} |-> Head(inbox[r][T.owner[l]])[l]]
\* Mutant: the flag is left.
WaitFlagLeft(r) ==
  /\ pc[r] = "wait"
  /\ \A s \in From(r) : inbox[r][s] # <<>>
  /\ gathered' = [gathered EXCEPT ![r] = Merged(r)]
  /\ inbox' = [inbox EXCEPT ![r] = [s \in Ranks |-> IF s \in From(r) THEN Tail(@[s]) ELSE @[s]]]
  /\ pc' = [pc EXCEPT ![r] = "update"]
  /\ UNCHANGED <<name, sweep, class, through, conf, bord_valid>>
Wait(r) ==
  /\ pc[r] = "wait"
  /\ \A s \in From(r) : inbox[r][s] # <<>>
  /\ gathered' = [gathered EXCEPT ![r] = Merged(r)]
  /\ inbox' = [inbox EXCEPT ![r] = [s \in Ranks |-> IF s \in From(r) THEN Tail(@[s]) ELSE @[s]]]
  /\ bord_valid' = [bord_valid EXCEPT ![r] = FALSE]
  /\ pc' = [pc EXCEPT ![r] = "update"]
  /\ UNCHANGED <<name, sweep, class, through, conf>>

\* Heatbath, overrelaxation or cooling of the links of a thread.
Updated(r, t) ==
  LET links == LinksOf(r, t)
  IN  [l \in DOMAIN conf |-> IF l \in links THEN conf[l] + 1 ELSE conf[l]]

\* After the last thread the barrier opens.
Onward(r) ==
  IF class[r] + 1 < T.nclasses
  THEN /\ class' = [class EXCEPT ![r] = @ + 1]
       /\ pc' = [pc EXCEPT ![r] = IF (class[r] + 1) % T.per_box = 0 THEN "gather" ELSE "update"]
       /\ UNCHANGED <<sweep, bord_valid>>
  ELSE /\ class' = [class EXCEPT ![r] = 0]
       /\ sweep' = [sweep EXCEPT ![r] = @ + 1]
       /\ pc' = [pc EXCEPT ![r] = IF sweep[r] + 1 = T.nsweeps THEN "end" ELSE "gather"]
       /\ bord_valid' = [bord_valid EXCEPT ![r] = FALSE]
\* Mutant: no barrier between the classes of a box.
UpdateNoBarrier(r, t) ==
  /\ pc[r] = "update" /\ t \notin through[r]
  /\ conf' = Updated(r, t)
  /\ IF t = 0 THEN Onward(r) /\ through' = [through EXCEPT ![r] = {}]
     ELSE through' = [through EXCEPT ![r] = @ \union {t}] /\ UNCHANGED <<pc, sweep, class, bord_valid>>
  /\ UNCHANGED <<name, gathered, inbox>>
Update(r, t) ==
  /\ pc[r] = "update" /\ t \notin through[r]
  /\ conf' = Updated(r, t)
  /\ IF through[r] \union {t} = Threads
     THEN Onward(r) /\ through' = [through EXCEPT ![r] = {}]
     ELSE through' = [through EXCEPT ![r] = @ \union {t}] /\ UNCHANGED <<pc, sweep, class, bord_valid>>
  /\ UNCHANGED <<name, gathered, inbox>>

End == (\A r \in Ranks : pc[r] = "end") /\ UNCHANGED vars

Next ==
  \/ \E r \in Ranks : Gather(r) \/ Wait(r) \/ \E t \in Threads : Update(r, t)
  \/ End

\* Every step takes a rank further: without a deadlock all of them end.
Spec == Init /\ [][Next]_vars

-----------------------------------------------------------------------------
(***************************************************************************)
(* Properties.                                                             *)
(***************************************************************************)
TypeOK ==
  /\ name \in Sweepers
  /\ pc \in [Ranks -> {"gather", "wait", "update", "end", "crash"}]
  /\ sweep \in [Ranks -> 0 .. T.nsweeps]
  /\ class \in [Ranks -> 0 .. T.nclasses - 1]
  /\ \A r \in Ranks : through[r] \subseteq Threads

\* Whatever threads and ranks do meanwhile, a link is updated from staples that
\* are those of a sweep by one process: of links after the present sweep's update if
\* their class is before, of the one before if it is after, and never of its own class.
SequentialSweep ==
  \A r \in Ranks : pc[r] = "update" =>
    \A t \in Threads \ through[r] : \A l \in LinksOf(r, t) :
      /\ conf[l] = sweep[r]
      /\ \A s \in T.needs[l] :
           LET c == T.class[s]
           IN  /\ c # class[r]
               /\ T.owner[s] # r => s \in DOMAIN gathered[r]
               /\ (IF T.owner[s] = r THEN conf[s] ELSE gathered[r][s])
                    = sweep[r] + IF c < class[r] THEN 1 ELSE 0

\* After its last sweep a rank has updated each of its links once per sweep.
EachOncePerSweep ==
  \A r \in Ranks : pc[r] = "end" =>
    \A l \in DOMAIN conf : T.owner[l] = r => conf[l] = T.nsweeps

\* The classes of the actions pass the checks of their order.
NotRefused == \A r \in Ranks : pc[r] # "crash"

\* The gathered links are where the borders were.
BorderNotTaken == \A r \in Ranks : gathered[r] # <<>> => ~bord_valid[r]
=============================================================================
