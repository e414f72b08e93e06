------------------------- MODULE ExchangesProofs -------------------------
(***************************************************************************)
(* What the messages of two exchanges carry is what was sent for the step    *)
(* that takes it, though nothing keeps the ranks together but the messages   *)
(* themselves.                                                               *)
(*                                                                         *)
(* A sweep by all ranks and threads is a sweep of one process, for any       *)
(* number of ranks, threads, classes, boxes and sweeps, and any lists that   *)
(* GaugeSweeperAssumption admits.  The gatherings are put in order, as       *)
(* rounds; the messages on their way from one rank to another are those of   *)
(* the rounds the first has given and the second has not got, in that order, *)
(* each with the links as they are when its round begins.  So what a rank    *)
(* gathers is of its own round, however far the others are.                  *)
(*                                                                         *)
(* all_to_all_comm_t takes the elements to where the list says, for any      *)
(* number of ranks and any jobs that JobsAssumption admits.  What is on its  *)
(* way on a channel is a stream: the numbers of the rounds that send there,  *)
(* in order, from the first not yet taken to the last already sent.  On the  *)
(* ring a number is a round that makes a communicator, on the other channel  *)
(* a round has two, the places it tells and the elements it moves.           *)
(***************************************************************************)
EXTENDS Exchanges, SequenceTheorems, WellFoundedInduction, TLAPS

-----------------------------------------------------------------------------
\* A round is one gathering: a box of a sweep.  They follow one another.
Links == DOMAIN H!T.needs
BoxOf(l) == H!T.class[l] \div H!T.per_box
LastBox == (H!T.nclasses - 1) \div H!T.per_box
Boxes == 0 .. LastBox
Rounds == [sweep : Nat, box : Boxes]
Round(w, b) == [sweep |-> w, box |-> b]
Before(g, h) == g.sweep < h.sweep \/ (g.sweep = h.sweep /\ g.box < h.box)
Following(g) == IF g.box = LastBox THEN Round(g.sweep + 1, 0) ELSE Round(g.sweep, g.box + 1)

\* The round a rank is in, the first whose links it has not given away, and the
\* first whose links it has not got.
Now(r) == Round(sweep[r], H!Box(r))
Given(r) == IF sweep_pc[r] \in {"gather", "end"} THEN Now(r) ELSE Following(Now(r))
Got(r) == IF sweep_pc[r] = "update" THEN Following(Now(r)) ELSE Now(r)

\* How many times a link has been updated when a round begins.
Value(l, g) == g.sweep + IF BoxOf(l) < g.box THEN 1 ELSE 0
Message(r, s, g) == [l \in H!Asked(s, r, g.box) |-> Value(l, g)]

\* A link has been updated once more from the time its thread has done so.
Reached(l) ==
  LET r == H!T.owner[l]
  IN  \/ H!T.class[l] < class[r]
      \/ H!T.class[l] = class[r] /\ \E t \in through[r] : l \in H!LinksOf(r, t)
ConfInv == \A l \in Links : conf[l] = sweep[H!T.owner[l]] + IF Reached(l) THEN 1 ELSE 0

\* What is on its way from s to r are the rounds that s has given and r has not
\* got, of those in which r asks for something, in their order.
Listing(f, S) ==
  /\ \A j, n \in 1 .. Len(f) : j < n => Before(f[j], f[n])
  /\ \A g \in Rounds : (\E n \in 1 .. Len(f) : f[n] = g) <=> g \in S
Due(r, s) == {g \in Rounds : ~ Before(g, Got(r)) /\ Before(g, Given(s)) /\ H!Asked(s, r, g.box) # {}}
QueueOf(r, s) ==
  /\ \E f \in Seq(Rounds) :
       /\ Len(links_inbox[r][s]) = Len(f) /\ Listing(f, Due(r, s))
       /\ \A n \in 1 .. Len(f) : links_inbox[r][s][n] = Message(r, s, f[n])
  /\ \A g \in Rounds : H!Asked(s, r, g.box) # {} /\ Before(g, Got(r)) => Before(g, Given(s))
QueueInv == \A r, s \in H!Ranks : QueueOf(r, s)

\* The links of others that a rank works with are those of its box.
GatheredOf(r) ==
  /\ DOMAIN gathered[r] = H!T.gathered[r][H!Box(r)]
  /\ \A l \in H!T.gathered[r][H!Box(r)] : gathered[r][l] = Value(l, Now(r))
GatheredInv == \A r \in H!Ranks : sweep_pc[r] = "update" => GatheredOf(r)

PlaceInv ==
  \A r \in H!Ranks :
    /\ sweep_pc[r] # "crash"
    /\ through[r] # {} => sweep_pc[r] = "update"
    /\ through[r] # H!Threads
    /\ sweep_pc[r] \in {"gather", "wait"} => class[r] % H!T.per_box = 0
    /\ sweep_pc[r] = "end" => class[r] = 0 /\ sweep[r] = H!T.nsweeps
    /\ sweep_pc[r] # "end" => sweep[r] < H!T.nsweeps

Messages == UNION {[S -> Nat] : S \in SUBSET Links}
Typed ==
  /\ name \in Sweepers
  /\ sweep_pc \in [H!Ranks -> {"gather", "wait", "update", "end", "crash"}]
  /\ sweep \in [H!Ranks -> Nat] /\ class \in [H!Ranks -> 0 .. H!T.nclasses - 1]
  /\ through \in [H!Ranks -> SUBSET H!Threads]
  /\ conf \in [Links -> Nat]
  /\ DOMAIN gathered = H!Ranks /\ DOMAIN links_inbox = H!Ranks /\ bord_valid \in [H!Ranks -> BOOLEAN]
  /\ \A r \in H!Ranks : links_inbox[r] \in [H!Ranks -> Seq(Messages)]

SweepInv ==
  /\ H!GaugeSweeperAssumption /\ Typed
  /\ H!T.refused => \A r \in H!Ranks : sweep_pc[r] = "crash" /\ sweep[r] = 0
  /\ ~ H!T.refused => PlaceInv /\ ConfInv /\ QueueInv /\ GatheredInv

-----------------------------------------------------------------------------
\* Division: the boxes of classes that follow one another.
LEMMA Division ==
  ASSUME NEW p \in Nat \ {0}, NEW c \in Nat
  PROVE  /\ c \div p \in Nat
         /\ (c + 1) % p = 0 => (c + 1) \div p = c \div p + 1
         /\ (c + 1) % p # 0 => (c + 1) \div p = c \div p
<1>1. c \div p \in Nat
  OBVIOUS
<1>2. ASSUME (c + 1) % p = 0 PROVE (c + 1) \div p = c \div p + 1
  BY <1>2
<1>3. ASSUME (c + 1) % p # 0 PROVE (c + 1) \div p = c \div p
  BY <1>3
<1> QED BY <1>1, <1>2, <1>3

\* Division keeps the order, strictly where a box begins.
LEMMA DivisionOrder ==
  ASSUME NEW p \in Nat \ {0}, NEW c \in Nat, NEW d \in Nat
  PROVE  /\ c <= d => c \div p <= d \div p
         /\ c < d /\ d % p = 0 => c \div p < d \div p
<1>1. ASSUME c <= d PROVE c \div p <= d \div p
  BY <1>1
<1>2. ASSUME c < d, d % p = 0 PROVE c \div p < d \div p
  BY <1>2
<1> QED BY <1>1, <1>2

\* What is known of the lists.
LEMMA Sizes ==
  ASSUME H!GaugeSweeperAssumption, name \in Sweepers
  PROVE  /\ H!T.nthreads \in Nat \ {0} /\ H!T.nsweeps \in Nat \ {0} /\ H!T.nclasses \in Nat \ {0}
         /\ H!T.per_box \in Nat \ {0} /\ H!T.refused \in BOOLEAN /\ LastBox \in Nat
<1>1. /\ H!T.nthreads \in Nat \ {0} /\ H!T.nsweeps \in Nat \ {0} /\ H!T.nclasses \in Nat \ {0}
      /\ H!T.per_box \in Nat \ {0} /\ H!T.refused \in BOOLEAN
  BY DEF H!GaugeSweeperAssumption, H!T
<1>2. H!T.nclasses - 1 \in Nat
  BY <1>1
<1>3. LastBox \in Nat
  BY <1>1, <1>2, Division DEF LastBox
<1> QED BY <1>1, <1>3

\* The lists of a sweeper that is not refused: what GoodTables says of them.
LEMMA Lists ==
  ASSUME H!GaugeSweeperAssumption, name \in Sweepers, ~ H!T.refused
  PROVE  /\ H!T.owner \in [Links -> H!Ranks] /\ H!T.class \in [Links -> 0 .. H!T.nclasses - 1]
         /\ \A r \in H!Ranks, c \in 0 .. H!T.nclasses - 1 :
              /\ H!T.classes[r][c] \in Seq(Links)
              /\ \A i, j \in 1 .. Len(H!T.classes[r][c]) : H!T.classes[r][c][i] = H!T.classes[r][c][j] => i = j
              /\ \A l \in Links : (\E i \in 1 .. Len(H!T.classes[r][c]) : H!T.classes[r][c][i] = l)
                                    <=> H!T.owner[l] = r /\ H!T.class[l] = c
         /\ \A l \in Links : \A s \in H!T.needs[l] :
              /\ s \in Links
              /\ H!T.owner[s] = H!T.owner[l] => H!T.class[s] # H!T.class[l]
              /\ H!T.owner[s] # H!T.owner[l] =>
                   BoxOf(s) # BoxOf(l) /\ s \in H!T.gathered[H!T.owner[l]][BoxOf(l)]
         /\ \A r \in H!Ranks, b \in Boxes : \A l \in H!T.gathered[r][b] : l \in Links /\ H!T.owner[l] # r
<1>1. H!GoodTables(H!T)
  BY DEF H!GaugeSweeperAssumption, H!T
<1> QED BY <1>1 DEF H!GoodTables, Links, H!Ranks, BoxOf, Boxes, LastBox

\* Where a rank is: its class, its box and its rounds are what they are called.
LEMMA BoxIs ==
  ASSUME H!GaugeSweeperAssumption, Typed, NEW r \in H!Ranks
  PROVE  /\ class[r] \in Nat /\ class[r] < H!T.nclasses /\ H!Box(r) \in Boxes
         /\ sweep[r] \in Nat /\ Now(r) \in Rounds /\ Given(r) \in Rounds /\ Got(r) \in Rounds
         /\ Following(Now(r)) \in Rounds /\ Now(r).sweep = sweep[r] /\ Now(r).box = H!Box(r)
<1>1. /\ class[r] \in Nat /\ class[r] <= H!T.nclasses - 1 /\ H!T.nclasses - 1 \in Nat
      /\ sweep[r] \in Nat /\ H!T.per_box \in Nat \ {0} /\ LastBox \in Nat
  BY Sizes DEF Typed
<1>2. class[r] \div H!T.per_box \in Nat /\ class[r] \div H!T.per_box <= LastBox
  BY <1>1, Division, DivisionOrder DEF LastBox
<1>3. H!Box(r) \in Boxes
  BY <1>1, <1>2 DEF H!Box, Boxes
<1>4. Now(r) \in Rounds /\ Now(r).sweep = sweep[r] /\ Now(r).box = H!Box(r)
  BY <1>1, <1>3 DEF Now, Round, Rounds
<1>5. Following(Now(r)) \in Rounds
  BY <1>1, <1>3, <1>4 DEF Following, Round, Rounds, Boxes
<1>6. class[r] < H!T.nclasses
  <2>1. H!T.nclasses \in Int
    BY Sizes DEF Typed
  <2> QED BY <1>1, <2>1
<1>7. Given(r) \in Rounds
  BY <1>4, <1>5 DEF Given
<1>8. Got(r) \in Rounds
  BY <1>4, <1>5 DEF Got
<1> QED BY <1>1, <1>3, <1>4, <1>5, <1>6, <1>7, <1>8

\* The order of rounds.
LEMMA Order ==
  ASSUME LastBox \in Nat, NEW g \in Rounds, NEW h \in Rounds
  PROVE  /\ Following(h) \in Rounds /\ ~ Before(g, g) /\ ~ (Before(g, h) /\ Before(h, g))
         /\ Before(g, h) \/ g = h \/ Before(h, g)
         /\ Before(g, Following(h)) <=> Before(g, h) \/ g = h
         /\ \A i \in Rounds : Before(g, h) /\ Before(h, i) => Before(g, i)
<1>1. /\ g.sweep \in Nat /\ g.box \in Nat /\ g.box <= LastBox /\ g = [sweep |-> g.sweep, box |-> g.box]
      /\ h.sweep \in Nat /\ h.box \in Nat /\ h.box <= LastBox /\ h = [sweep |-> h.sweep, box |-> h.box]
  BY DEF Rounds, Boxes
<1>2. Following(h) \in Rounds
  BY <1>1 DEF Following, Round, Rounds, Boxes
<1>3. Before(g, h) \/ g = h \/ Before(h, g)
  BY <1>1 DEF Before
<1>4. Before(g, Following(h)) <=> Before(g, h) \/ g = h
  <2>1. CASE h.box = LastBox
    <3>1. Following(h).sweep = h.sweep + 1 /\ Following(h).box = 0
      BY <2>1 DEF Following, Round
    <3> QED BY <1>1, <2>1, <3>1 DEF Before
  <2>2. CASE h.box # LastBox
    <3>1. Following(h).sweep = h.sweep /\ Following(h).box = h.box + 1
      BY <2>2 DEF Following, Round
    <3> QED BY <1>1, <2>2, <3>1 DEF Before
  <2> QED BY <2>1, <2>2
<1>5. ASSUME NEW i \in Rounds, Before(g, h), Before(h, i) PROVE Before(g, i)
  <2>1. i.sweep \in Nat /\ i.box \in Nat
    BY DEF Rounds, Boxes
  <2> QED BY <1>1, <1>5, <2>1 DEF Before
<1>6. ~ Before(g, g) /\ ~ (Before(g, h) /\ Before(h, g))
  BY <1>1 DEF Before
<1> QED BY <1>2, <1>3, <1>4, <1>5, <1>6

-----------------------------------------------------------------------------
\* NISSA_PARALLEL_LOOP: each of n things has one thread.
LEMMA ChunkIs ==
  ASSUME H!T.nthreads \in Nat \ {0}, NEW n \in Nat, NEW t \in Nat
  PROVE  /\ H!Load(n) \in Nat /\ H!Load(n) * t \in Nat /\ H!Load(n) * (t + 1) = H!Load(n) * t + H!Load(n)
         /\ \A m \in Int : m \in H!Chunk(t, n) <=> 1 <= m /\ m <= n /\ H!Load(n) * t < m /\ m <= H!Load(n) * t + H!Load(n)
<1>1. H!Load(n) \in Nat
  BY DEF H!Load
<1> DEFINE x == H!Load(n) * t
           y == H!Load(n) * (t + 1)
<1>2. x \in Nat /\ y = x + H!Load(n)
  BY <1>1
<1> HIDE DEF x, y
<1>3. \A m \in Int : m \in H!Chunk(t, n) <=> H!Least(n, x) + 1 <= m /\ m <= H!Least(n, y)
  <2>1. H!Chunk(t, n) = H!Least(n, x) + 1 .. H!Least(n, y)
    BY DEF H!Chunk, x, y
  <2>2. H!Least(n, x) \in Nat /\ H!Least(n, y) \in Nat
    BY <1>1, <1>2 DEF H!Least
  <2> QED BY <2>1, <2>2
<1>4. \A m \in Int : m \in H!Chunk(t, n) <=> 1 <= m /\ m <= n /\ x < m /\ m <= x + H!Load(n)
  BY <1>1, <1>2, <1>3 DEF H!Least
<1> QED BY <1>1, <1>2, <1>4 DEF x, y

\* Each thing has a thread, ...
LEMMA ChunkHas ==
  ASSUME H!T.nthreads \in Nat \ {0}, NEW n \in Nat, NEW m \in 1 .. n
  PROVE  \E t \in H!Threads : m \in H!Chunk(t, n)
<1>0. PICK N \in Nat \ {0} : N = H!T.nthreads
  OBVIOUS
<1> DEFINE L == H!Load(n)
           t == (m - 1) \div L
<1>1. L \in Nat \ {0} /\ L * N >= n
  BY <1>0 DEF H!Load
<1>2. H!Load(n) = L
  OBVIOUS
<1> HIDE DEF L
<1>3. t \in Nat /\ L * t <= m - 1 /\ m - 1 < L * t + L
  BY <1>1
<1> HIDE DEF t
<1>4. t < N
  <2> SUFFICES ASSUME t >= N PROVE FALSE
    BY <1>0, <1>3
  <2>1. L * t >= L * N
    BY <1>0, <1>1, <1>3
  <2> QED BY <2>1, <1>0, <1>1, <1>3
<1>5. m \in H!Chunk(t, n)
  <2>1. L * t \in Nat /\ L * t < m /\ m <= L * t + L
    BY <1>1, <1>3
  <2> QED BY <1>2, <1>3, <2>1, ChunkIs
<1> QED BY <1>0, <1>3, <1>4, <1>5 DEF H!Threads

\* ... and no more than one.
LEMMA ChunksApart ==
  ASSUME H!T.nthreads \in Nat \ {0}, NEW n \in Nat, NEW t \in Nat, NEW u \in Nat, t < u, NEW m \in Int
  PROVE  ~ (m \in H!Chunk(t, n) /\ m \in H!Chunk(u, n))
<1> SUFFICES ASSUME m \in H!Chunk(t, n), m \in H!Chunk(u, n) PROVE FALSE
  OBVIOUS
<1> DEFINE L == H!Load(n)
<1>1. L \in Nat /\ m <= L * t + L /\ L * u < m /\ L * (t + 1) = L * t + L
  BY ChunkIs
<1> HIDE DEF L
<1>2. L * (t + 1) <= L * u
  BY <1>1
<1>3. L * u \in Int /\ L * t \in Int
  BY <1>1
<1> QED BY <1>1, <1>2, <1>3

\* The links of a class are divided among the threads of its rank.
LEMMA LinksAre ==
  ASSUME H!GaugeSweeperAssumption, Typed, ~ H!T.refused, NEW r \in H!Ranks
  PROVE  /\ \A t \in H!Threads : \A l \in H!LinksOf(r, t) : l \in Links /\ H!T.owner[l] = r /\ H!T.class[l] = class[r]
         /\ \A t, u \in H!Threads : t # u => H!LinksOf(r, t) \cap H!LinksOf(r, u) = {}
         /\ \A l \in Links : H!T.owner[l] = r /\ H!T.class[l] = class[r] => \E t \in H!Threads : l \in H!LinksOf(r, t)
<1> DEFINE all == H!T.classes[r][class[r]]
           n == Len(all)
<1>1. /\ all \in Seq(Links) /\ n \in Nat
      /\ \A i, j \in 1 .. n : all[i] = all[j] => i = j
      /\ \A l \in Links : (\E i \in 1 .. n : all[i] = l) <=> H!T.owner[l] = r /\ H!T.class[l] = class[r]
  <2>1. class[r] \in 0 .. H!T.nclasses - 1
    BY DEF Typed
  <2>2. /\ all \in Seq(Links)
        /\ \A i, j \in 1 .. Len(all) : all[i] = all[j] => i = j
        /\ \A l \in Links : (\E i \in 1 .. Len(all) : all[i] = l) <=> H!T.owner[l] = r /\ H!T.class[l] = class[r]
    <3>1. name \in Sweepers
      BY DEF Typed
    <3>2. \A q \in H!Ranks, c \in 0 .. H!T.nclasses - 1 :
            /\ H!T.classes[q][c] \in Seq(Links)
            /\ \A i, j \in 1 .. Len(H!T.classes[q][c]) : H!T.classes[q][c][i] = H!T.classes[q][c][j] => i = j
            /\ \A l \in Links : (\E i \in 1 .. Len(H!T.classes[q][c]) : H!T.classes[q][c][i] = l)
                                  <=> H!T.owner[l] = q /\ H!T.class[l] = c
      BY <3>1, Lists
    <3>3. \A c \in 0 .. H!T.nclasses - 1 :
            /\ H!T.classes[r][c] \in Seq(Links)
            /\ \A i, j \in 1 .. Len(H!T.classes[r][c]) : H!T.classes[r][c][i] = H!T.classes[r][c][j] => i = j
            /\ \A l \in Links : (\E i \in 1 .. Len(H!T.classes[r][c]) : H!T.classes[r][c][i] = l)
                                  <=> H!T.owner[l] = r /\ H!T.class[l] = c
      BY <3>2
    <3> QED BY <2>1, <3>3
  <2>3. n = Len(all) /\ Len(all) \in Nat
    BY <2>2
  <2> HIDE DEF all, n
  <2> QED BY <2>2, <2>3
<1>2. H!T.nthreads \in Nat \ {0}
  BY Sizes DEF Typed
<1>3. \A t \in H!Threads : \A l : l \in H!LinksOf(r, t) <=> \E m \in 1 .. n : m \in H!Chunk(t, n) /\ all[m] = l
  <2>1. \A t \in H!Threads : t \in Nat
    BY <1>2 DEF H!Threads
  <2>2. \A t \in H!Threads : \A m \in H!Chunk(t, n) : m \in 1 .. n
    <3> HIDE DEF all, n
    <3> SUFFICES ASSUME NEW t \in H!Threads, NEW m \in H!Chunk(t, n) PROVE m \in 1 .. n
      OBVIOUS
    <3>1. m \in Int
      BY DEF H!Chunk
    <3>2. n \in Nat /\ t \in Nat
      BY <1>1, <2>1
    <3>3. 1 <= m /\ m <= n
      BY <1>2, <3>1, <3>2, ChunkIs
    <3> QED BY <3>1, <3>2, <3>3
  <2>3. \A t : H!LinksOf(r, t) = {all[m] : m \in H!Chunk(t, n)}
    BY DEF H!LinksOf
  <2> HIDE DEF all, n
  <2> QED BY <2>2, <2>3
<1> HIDE DEF all, n
<1>4. ASSUME NEW t \in H!Threads, NEW l \in H!LinksOf(r, t)
      PROVE  l \in Links /\ H!T.owner[l] = r /\ H!T.class[l] = class[r]
  <2>1. PICK m \in 1 .. n : all[m] = l
    BY <1>3
  <2>2. l \in Links
    BY <1>1, <2>1 DEF n
  <2> QED BY <1>1, <2>1, <2>2
<1>5. ASSUME NEW t \in H!Threads, NEW u \in H!Threads, t # u, NEW l, l \in H!LinksOf(r, t), l \in H!LinksOf(r, u)
      PROVE  FALSE
  <2>1. PICK i \in 1 .. n : i \in H!Chunk(t, n) /\ all[i] = l
    BY <1>3, <1>5
  <2>2. PICK j \in 1 .. n : j \in H!Chunk(u, n) /\ all[j] = l
    BY <1>3, <1>5
  <2>3. i = j
    BY <1>1, <2>1, <2>2
  <2>4. t \in Nat /\ u \in Nat /\ (t < u \/ u < t) /\ i \in Int
    BY <1>1, <1>2, <1>5 DEF H!Threads
  <2>5. i \in H!Chunk(t, n) /\ i \in H!Chunk(u, n)
    BY <2>1, <2>2, <2>3
  <2> QED BY <1>1, <1>2, <2>4, <2>5, ChunksApart
<1>6. ASSUME NEW l \in Links, H!T.owner[l] = r, H!T.class[l] = class[r]
      PROVE  \E t \in H!Threads : l \in H!LinksOf(r, t)
  <2>1. PICK m \in 1 .. n : all[m] = l
    BY <1>1, <1>6
  <2>2. PICK t \in H!Threads : m \in H!Chunk(t, n)
    BY <1>1, <1>2, ChunkHas
  <2> QED BY <1>3, <2>1, <2>2
<1> QED BY <1>4, <1>5, <1>6

-----------------------------------------------------------------------------
\* Rounds in their order: one more after all of them, ...
LEMMA OneMore ==
  ASSUME NEW f \in Seq(Rounds), NEW S, S \subseteq Rounds, Listing(f, S), NEW g \in Rounds,
         \A h \in S : Before(h, g)
  PROVE  Listing(Append(f, g), S \cup {g})
<1> DEFINE e == Append(f, g)
<1>1. /\ e \in Seq(Rounds) /\ Len(e) = Len(f) + 1 /\ Len(f) \in Nat /\ e[Len(f) + 1] = g
      /\ \A n \in 1 .. Len(f) : e[n] = f[n] /\ f[n] \in Rounds
  OBVIOUS
<1> HIDE DEF e
<1>2. \A n \in 1 .. Len(f) : f[n] \in S
  BY <1>1 DEF Listing
<1>3. ASSUME NEW j \in 1 .. Len(e), NEW n \in 1 .. Len(e), j < n PROVE Before(e[j], e[n])
  <2>1. CASE n = Len(f) + 1
    BY <1>1, <1>2, <1>3, <2>1
  <2>2. CASE n # Len(f) + 1
    BY <1>1, <1>3, <2>2 DEF Listing
  <2> QED BY <2>1, <2>2
<1>4. ASSUME NEW h \in Rounds PROVE (\E n \in 1 .. Len(e) : e[n] = h) <=> h \in S \cup {g}
  <2>1. ASSUME NEW n \in 1 .. Len(e), e[n] = h PROVE h \in S \cup {g}
    BY <1>1, <1>2, <2>1
  <2>2. ASSUME h \in S PROVE \E n \in 1 .. Len(e) : e[n] = h
    <3>1. PICK n \in 1 .. Len(f) : f[n] = h
      BY <2>2 DEF Listing
    <3> QED BY <1>1, <3>1
  <2>3. Len(f) + 1 \in 1 .. Len(e) /\ e[Len(f) + 1] = g
    BY <1>1
  <2> QED BY <2>1, <2>2, <2>3
<1> QED BY <1>3, <1>4 DEF Listing, e

\* ... and the first of them taken.
LEMMA OneLess ==
  ASSUME LastBox \in Nat, NEW f \in Seq(Rounds), NEW S, S \subseteq Rounds, Listing(f, S), NEW g \in S,
         \A h \in S : ~ Before(h, g)
  PROVE  Len(f) > 0 /\ f[1] = g /\ Listing(Tail(f), S \ {g})
<1>1. PICK n \in 1 .. Len(f) : f[n] = g
  BY DEF Listing
<1>2. Len(f) \in Nat /\ Len(f) > 0 /\ f[1] \in Rounds /\ 1 \in 1 .. Len(f)
  BY <1>1
<1>3. f[1] \in S
  BY <1>2 DEF Listing
<1>4. n = 1
  <2> SUFFICES ASSUME n # 1 PROVE FALSE
    OBVIOUS
  <2>1. Before(f[1], f[n])
    BY <1>1, <1>2 DEF Listing
  <2> QED BY <1>1, <1>3, <2>1
<1> DEFINE e == Tail(f)
<1>5. e \in Seq(Rounds) /\ Len(e) = Len(f) - 1 /\ \A i \in 1 .. Len(e) : e[i] = f[i + 1] /\ i + 1 \in 1 .. Len(f)
  BY <1>2
<1> HIDE DEF e
<1>6. \A i, j \in 1 .. Len(e) : i < j => Before(e[i], e[j])
  <2> SUFFICES ASSUME NEW i \in 1 .. Len(e), NEW j \in 1 .. Len(e), i < j PROVE Before(e[i], e[j])
    OBVIOUS
  <2>1. i + 1 \in 1 .. Len(f) /\ j + 1 \in 1 .. Len(f) /\ i + 1 < j + 1
    BY <1>5
  <2>2. Before(f[i + 1], f[j + 1])
    BY <2>1 DEF Listing
  <2> QED BY <1>5, <2>2
<1>7. ASSUME NEW h \in Rounds PROVE (\E i \in 1 .. Len(e) : e[i] = h) <=> h \in S \ {g}
  <2>1. ASSUME NEW i \in 1 .. Len(e), e[i] = h PROVE h \in S \ {g}
    <3>1. i + 1 \in 1 .. Len(f) /\ f[i + 1] = h /\ 1 < i + 1
      BY <1>2, <1>5, <2>1
    <3>2. h \in S
      BY <3>1 DEF Listing
    <3>3. Before(g, h)
      BY <1>1, <1>2, <1>4, <3>1 DEF Listing
    <3>4. ~ Before(g, g)
      BY Order
    <3> QED BY <3>2, <3>3, <3>4
  <2>2. ASSUME h \in S \ {g} PROVE \E i \in 1 .. Len(e) : e[i] = h
    <3>1. PICK j \in 1 .. Len(f) : f[j] = h
      BY <2>2 DEF Listing
    <3>2. j # 1
      BY <1>1, <1>4, <2>2, <3>1
    <3>3. j - 1 \in 1 .. Len(e) /\ (j - 1) + 1 = j
      BY <1>2, <1>5, <3>2
    <3>4. e[j - 1] = h
      BY <1>5, <3>1, <3>3
    <3> QED BY <3>3, <3>4
  <2> QED BY <2>1, <2>2
<1> QED BY <1>1, <1>2, <1>4, <1>6, <1>7 DEF Listing, e

-----------------------------------------------------------------------------
\* A rank that does not move stays in its round, ...
LEMMA RoundKept ==
  ASSUME name' = name, NEW r, sweep_pc'[r] = sweep_pc[r], sweep'[r] = sweep[r], class'[r] = class[r]
  PROVE  Now(r)' = Now(r) /\ Given(r)' = Given(r) /\ Got(r)' = Got(r) /\ H!Box(r)' = H!Box(r)
<1>1. Now(r)' = Now(r) /\ H!Box(r)' = H!Box(r)
  BY DEF Now, H!Box, H!T, Round
<1>2. Following(Now(r))' = Following(Now(r))
  BY <1>1 DEF Following, LastBox, H!T, Round
<1> QED BY <1>1, <1>2 DEF Given, Got

\* ... and the messages between two ranks stay due if neither moves.
LEMMA QueueKept ==
  ASSUME name' = name, NEW r, NEW s, QueueOf(r, s), links_inbox'[r][s] = links_inbox[r][s],
         Got(r)' = Got(r), Given(s)' = Given(s)
  PROVE  QueueOf(r, s)'
<1>1. Rounds' = Rounds /\ \A g : Message(r, s, g)' = Message(r, s, g) /\ H!Asked(s, r, g.box)' = H!Asked(s, r, g.box)
  BY DEF Rounds, Boxes, LastBox, H!T, Message, H!Asked, Value, BoxOf
<1>2. Due(r, s)' = Due(r, s)
  BY <1>1 DEF Due, Before
<1>3. \A f, S : Listing(f, S)' <=> Listing(f, S)
  BY <1>1 DEF Listing, Before
<1> QED BY <1>1, <1>2, <1>3 DEF QueueOf, Before

-----------------------------------------------------------------------------
\* What a rank gives away are its links as they are when its round begins.
LEMMA GatherGives ==
  ASSUME SweepInv, ~ H!T.refused, NEW r \in H!Ranks, NEW q \in H!Ranks, sweep_pc[r] = "gather"
  PROVE  [l \in H!Asked(r, q, H!Box(r)) |-> conf[l]] = Message(q, r, Now(r))
<1>1. Typed /\ Now(r).box = H!Box(r) /\ Now(r).sweep = sweep[r] /\ H!Box(r) \in Boxes /\ class[r] \in Nat
  BY BoxIs DEF SweepInv
<1>2. SUFFICES ASSUME NEW l \in H!Asked(r, q, H!Box(r)) PROVE conf[l] = Value(l, Now(r))
  BY <1>1 DEF Message
<1>3. l \in Links /\ H!T.owner[l] = r
  BY <1>1, Lists DEF H!Asked, SweepInv, Typed
<1>4. conf[l] = sweep[r] + IF Reached(l) THEN 1 ELSE 0
  BY <1>3 DEF SweepInv, ConfInv
<1>5. through[r] = {} /\ class[r] % H!T.per_box = 0
  BY DEF SweepInv, PlaceInv
<1>6. Reached(l) <=> H!T.class[l] < class[r]
  BY <1>3, <1>5 DEF Reached
<1>7. H!T.class[l] \in Nat /\ H!T.per_box \in Nat \ {0}
  BY <1>1, <1>3, Lists, Sizes DEF SweepInv, Typed
<1>8. H!T.class[l] < class[r] <=> BoxOf(l) < H!Box(r)
  <2>1. H!T.class[l] < class[r] => BoxOf(l) < H!Box(r)
    BY <1>1, <1>5, <1>7, DivisionOrder DEF BoxOf, H!Box
  <2>2. class[r] <= H!T.class[l] => H!Box(r) <= BoxOf(l)
    BY <1>1, <1>7, DivisionOrder DEF BoxOf, H!Box
  <2>3. BoxOf(l) \in Nat /\ H!Box(r) \in Nat
    BY <1>1, <1>7, Division DEF BoxOf, H!Box
  <2> QED BY <1>1, <1>7, <2>1, <2>2, <2>3
<1> QED BY <1>1, <1>4, <1>6, <1>8 DEF Value

\* all_to_all_comm_t::communicate, first half.
LEMMA GatherQueue ==
  ASSUME SweepInv, ~ H!T.refused, NEW r \in H!Ranks, H!Gather(r), NEW q \in H!Ranks, NEW s \in H!Ranks
  PROVE  QueueOf(q, s)'
<1>1. /\ H!GaugeSweeperAssumption /\ Typed /\ QueueOf(q, s) /\ name' = name /\ sweep_pc[r] = "gather" /\ sweep_pc'[r] = "wait"
      /\ sweep' = sweep /\ class' = class /\ \A x \in H!Ranks : x # r => sweep_pc'[x] = sweep_pc[x]
  BY DEF SweepInv, QueueInv, H!Gather, Typed
<1>2. links_inbox'[q][s] = IF s = r /\ H!Asked(r, q, H!Box(r)) # {}
                     THEN Append(links_inbox[q][s], [l \in H!Asked(r, q, H!Box(r)) |-> conf[l]]) ELSE links_inbox[q][s]
  BY DEF H!Gather
<1>3. Now(r)' = Now(r) /\ H!Box(r)' = H!Box(r)
  BY <1>1 DEF Now, H!Box, H!T, Round
<1>4. Following(Now(r))' = Following(Now(r))
  BY <1>1, <1>3 DEF Following, LastBox, H!T, Round
<1>5. Got(q)' = Got(q)
  <2>1. CASE q = r
    BY <1>1, <1>3, <2>1 DEF Got
  <2>2. CASE q # r
    BY <1>1, <2>2, RoundKept
  <2> QED BY <2>1, <2>2
<1>6. CASE s # r
  <2>1. Given(s)' = Given(s)
    BY <1>1, <1>6, RoundKept
  <2> QED BY <1>1, <1>2, <1>5, <1>6, <2>1, QueueKept
<1>7. CASE s = r
  <2> DEFINE g0 == Now(r)
  <2>1. Given(s) = g0 /\ Given(s)' = Following(g0) /\ g0 \in Rounds /\ g0.box = H!Box(r) /\ LastBox \in Nat /\ Got(q) \in Rounds
    BY <1>1, <1>4, <1>7, BoxIs, Sizes DEF Given, Typed
  <2> HIDE DEF g0
  <2>2. \A g \in Rounds : Before(g, Following(g0)) <=> Before(g, g0) \/ g = g0
    BY <2>1, Order
  <2>3. \A g \in Rounds : H!Asked(s, q, g.box) # {} /\ Before(g, Got(q)) => Before(g, g0)
    BY <1>1, <2>1 DEF QueueOf
  <2>4. /\ Rounds' = Rounds
        /\ \A g : Message(q, s, g)' = Message(q, s, g) /\ H!Asked(s, q, g.box)' = H!Asked(s, q, g.box)
        /\ \A f, S : Listing(f, S)' <=> Listing(f, S)
    BY <1>1 DEF Rounds, Boxes, LastBox, H!T, Message, H!Asked, Value, BoxOf, Listing, Before
  <2>5. \A g \in Rounds : g \in Due(q, s) <=> ~ Before(g, Got(q)) /\ Before(g, g0) /\ H!Asked(s, q, g.box) # {}
    BY <2>1 DEF Due
  <2>6. \A g \in Rounds : g \in Due(q, s)' <=> ~ Before(g, Got(q)) /\ Before(g, Following(g0)) /\ H!Asked(s, q, g.box) # {}
    BY <1>5, <2>1, <2>4 DEF Due, Before
  <2>7. Due(q, s) \subseteq Rounds /\ Due(q, s)' \subseteq Rounds
    BY <2>4 DEF Due
  <2>8. PICK f \in Seq(Rounds) :
          /\ Len(links_inbox[q][s]) = Len(f) /\ Listing(f, Due(q, s))
          /\ \A n \in 1 .. Len(f) : links_inbox[q][s][n] = Message(q, s, f[n])
    BY <1>1 DEF QueueOf
  <2>9. \A g \in Rounds : H!Asked(s, q, g.box) # {} /\ Before(g, Got(q)) => Before(g, Following(g0))
    BY <2>2, <2>3
  <2>10. CASE H!Asked(s, q, g0.box) = {}
    <3>1. Due(q, s)' = Due(q, s)
      BY <2>2, <2>5, <2>6, <2>7, <2>10
    <3>2. links_inbox'[q][s] = links_inbox[q][s]
      BY <1>2, <1>7, <2>1, <2>10
    <3> QED BY <1>5, <2>1, <2>4, <2>8, <2>9, <3>1, <3>2 DEF QueueOf, Before
  <2>11. CASE H!Asked(s, q, g0.box) # {}
    <3>1. ~ Before(g0, Got(q))
      BY <2>1, <2>3, <2>11, Order
    <3>2. Due(q, s)' = Due(q, s) \cup {g0}
      BY <2>1, <2>2, <2>5, <2>6, <2>7, <2>11, <3>1
    <3> DEFINE e == Append(f, g0)
    <3>3. Listing(e, Due(q, s)')
      BY <2>1, <2>5, <2>7, <2>8, <3>2, OneMore
    <3>4. /\ e \in Seq(Rounds) /\ Len(e) = Len(f) + 1 /\ Len(f) \in Nat
          /\ e[Len(f) + 1] = g0 /\ \A n \in 1 .. Len(f) : e[n] = f[n]
      BY <2>1
    <3> HIDE DEF e
    <3> DEFINE p == links_inbox[q][s]
               m == [l \in H!Asked(r, q, H!Box(r)) |-> conf[l]]
    <3>5. links_inbox'[q][s] = Append(p, m)
      BY <1>2, <1>7, <2>1, <2>11
    <3>6. m = Message(q, s, g0)
      BY <1>1, <1>7, GatherGives DEF g0
    <3>7. p \in Seq(Messages) /\ m \in Messages
      <4>1. p \in Seq(Messages)
        BY <1>1 DEF Typed
      <4>2. \A l \in H!Asked(r, q, H!Box(r)) : l \in Links
        BY <1>1, BoxIs, Lists DEF H!Asked, Typed
      <4>3. \A l \in H!Asked(r, q, H!Box(r)) : conf[l] \in Nat
        BY <1>1, <4>2 DEF Typed
      <4>4. m \in [H!Asked(r, q, H!Box(r)) -> Nat] /\ H!Asked(r, q, H!Box(r)) \in SUBSET Links
        BY <4>2, <4>3
      <4> QED BY <4>1, <4>4 DEF Messages
    <3> HIDE DEF p, m
    <3>8. Len(Append(p, m)) = Len(p) + 1 /\ Append(p, m)[Len(p) + 1] = m /\ \A n \in 1 .. Len(p) : Append(p, m)[n] = p[n]
      BY <3>7
    <3>9. Len(p) = Len(f) /\ \A n \in 1 .. Len(f) : p[n] = Message(q, s, f[n])
      BY <2>8 DEF p
    <3>10. Len(links_inbox'[q][s]) = Len(e)
      BY <3>4, <3>5, <3>8, <3>9
    <3>11. \A n \in 1 .. Len(e) : links_inbox'[q][s][n] = Message(q, s, e[n])
      BY <3>4, <3>5, <3>6, <3>8, <3>9
    <3> QED BY <1>5, <2>1, <2>4, <2>9, <3>3, <3>4, <3>10, <3>11 DEF QueueOf, Before
  <2> QED BY <2>10, <2>11
<1> QED BY <1>6, <1>7

\* The first message of each rank that has something for the box is of this box.
LEMMA FirstIs ==
  ASSUME SweepInv, ~ H!T.refused, NEW r \in H!Ranks, sweep_pc[r] = "wait", NEW s \in H!From(r), links_inbox[r][s] # <<>>
  PROVE  /\ Head(links_inbox[r][s]) = Message(r, s, Now(r)) /\ Before(Now(r), Given(s)) /\ Len(links_inbox[r][s]) > 0
         /\ \E f \in Seq(Rounds) :
              /\ Len(Tail(links_inbox[r][s])) = Len(f) /\ Listing(f, Due(r, s) \ {Now(r)})
              /\ \A n \in 1 .. Len(f) : Tail(links_inbox[r][s])[n] = Message(r, s, f[n])
<1> DEFINE g0 == Now(r)
           p == links_inbox[r][s]
<1>1. /\ g0 \in Rounds /\ Got(r) = g0 /\ g0.box = H!Box(r) /\ Given(s) \in Rounds /\ LastBox \in Nat /\ s \in H!Ranks
      /\ H!Asked(s, r, g0.box) # {}
  BY BoxIs, Sizes DEF SweepInv, Got, H!From, Typed
<1>2. p \in Seq(Messages) /\ p # <<>>
  BY <1>1 DEF SweepInv, Typed
<1> HIDE DEF g0, p
<1>3. PICK f \in Seq(Rounds) : /\ Len(p) = Len(f) /\ Listing(f, Due(r, s))
                               /\ \A n \in 1 .. Len(f) : p[n] = Message(r, s, f[n])
  BY <1>1 DEF SweepInv, QueueInv, QueueOf, p
<1>4. Len(p) \in Nat /\ Len(p) > 0 /\ Len(Tail(p)) = Len(p) - 1 /\ Head(p) = p[1]
      /\ \A n \in 1 .. Len(p) - 1 : Tail(p)[n] = p[n + 1]
  BY <1>2
<1>5. \A g \in Rounds : g \in Due(r, s) <=> ~ Before(g, g0) /\ Before(g, Given(s)) /\ H!Asked(s, r, g.box) # {}
  BY <1>1 DEF Due
<1>6. f[1] \in Due(r, s) /\ f[1] \in Rounds
  <2>1. 1 \in 1 .. Len(f) /\ f[1] \in Rounds
    BY <1>3, <1>4
  <2> QED BY <1>3, <2>1 DEF Listing
<1>7. g0 \in Due(r, s) /\ Before(g0, Given(s))
  <2>1. Before(f[1], Given(s)) /\ (f[1] = g0 \/ Before(g0, f[1]))
    BY <1>1, <1>5, <1>6, Order
  <2>2. Before(g0, Given(s))
    BY <1>1, <1>6, <2>1, Order
  <2> QED BY <1>1, <1>5, <2>2, Order
<1>8. Due(r, s) \subseteq Rounds /\ \A g \in Due(r, s) : ~ Before(g, g0)
  BY <1>5 DEF Due
<1>9. f[1] = g0 /\ Listing(Tail(f), Due(r, s) \ {g0})
  BY <1>1, <1>3, <1>7, <1>8, OneLess
<1>10. Tail(f) \in Seq(Rounds) /\ Len(Tail(f)) = Len(f) - 1 /\ \A n \in 1 .. Len(f) - 1 : Tail(f)[n] = f[n + 1]
  BY <1>3, <1>4
<1>11. \A n \in 1 .. Len(f) - 1 : Tail(p)[n] = Message(r, s, Tail(f)[n])
  <2> SUFFICES ASSUME NEW n \in 1 .. Len(f) - 1 PROVE Tail(p)[n] = Message(r, s, Tail(f)[n])
    OBVIOUS
  <2>1. n + 1 \in 1 .. Len(f)
    BY <1>3, <1>4
  <2> QED BY <1>3, <1>4, <1>10, <2>1
<1>12. Head(p) = Message(r, s, g0)
  BY <1>3, <1>4, <1>9
<1>13. Len(Tail(p)) = Len(Tail(f)) /\ \A n \in 1 .. Len(Tail(f)) : Tail(p)[n] = Message(r, s, Tail(f)[n])
  BY <1>3, <1>4, <1>10, <1>11
<1> QED BY <1>4, <1>7, <1>9, <1>10, <1>12, <1>13 DEF g0, p

\* Second half.
LEMMA WaitQueue ==
  ASSUME SweepInv, ~ H!T.refused, NEW r \in H!Ranks, H!Wait(r), NEW q \in H!Ranks, NEW s \in H!Ranks
  PROVE  QueueOf(q, s)'
<1>1. /\ H!GaugeSweeperAssumption /\ Typed /\ QueueOf(q, s) /\ name' = name /\ sweep_pc[r] = "wait" /\ sweep_pc'[r] = "update"
      /\ sweep' = sweep /\ class' = class /\ \A x \in H!Ranks : x # r => sweep_pc'[x] = sweep_pc[x]
  BY DEF SweepInv, QueueInv, H!Wait, Typed
<1>2. links_inbox'[q][s] = IF q = r /\ s \in H!From(r) THEN Tail(links_inbox[q][s]) ELSE links_inbox[q][s]
  BY <1>1 DEF H!Wait, Typed
<1>3. Now(r)' = Now(r) /\ H!Box(r)' = H!Box(r)
  BY <1>1 DEF Now, H!Box, H!T, Round
<1>4. Following(Now(r))' = Following(Now(r))
  BY <1>1, <1>3 DEF Following, LastBox, H!T, Round
<1>5. Given(s)' = Given(s)
  <2>1. CASE s = r
    BY <1>1, <1>4, <2>1 DEF Given
  <2>2. CASE s # r
    BY <1>1, <2>2, RoundKept
  <2> QED BY <2>1, <2>2
<1>6. CASE q # r
  <2>1. Got(q)' = Got(q)
    BY <1>1, <1>6, RoundKept
  <2> QED BY <1>1, <1>2, <1>5, <1>6, <2>1, QueueKept
<1>7. CASE q = r
  <2> DEFINE g0 == Now(r)
  <2>1. /\ Got(q) = g0 /\ Got(q)' = Following(g0) /\ g0 \in Rounds /\ g0.box = H!Box(r) /\ LastBox \in Nat
        /\ Given(s) \in Rounds
    BY <1>1, <1>4, <1>7, BoxIs, Sizes DEF Got, Typed
  <2> HIDE DEF g0
  <2>2. \A g \in Rounds : Before(g, Following(g0)) <=> Before(g, g0) \/ g = g0
    BY <2>1, Order
  <2>4. /\ Rounds' = Rounds
        /\ \A g : Message(q, s, g)' = Message(q, s, g) /\ H!Asked(s, q, g.box)' = H!Asked(s, q, g.box)
        /\ \A f, S : Listing(f, S)' <=> Listing(f, S)
    BY <1>1 DEF Rounds, Boxes, LastBox, H!T, Message, H!Asked, Value, BoxOf, Listing, Before
  <2>5. \A g \in Rounds : g \in Due(q, s) <=> ~ Before(g, g0) /\ Before(g, Given(s)) /\ H!Asked(s, q, g.box) # {}
    BY <2>1 DEF Due
  <2>6. \A g \in Rounds : g \in Due(q, s)' <=> ~ Before(g, Following(g0)) /\ Before(g, Given(s)) /\ H!Asked(s, q, g.box) # {}
    BY <1>5, <2>1, <2>4 DEF Due, Before
  <2>7. Due(q, s) \subseteq Rounds /\ Due(q, s)' \subseteq Rounds
    BY <2>4 DEF Due
  <2>8. Due(q, s)' = Due(q, s) \ {g0}
    BY <2>2, <2>5, <2>6, <2>7
  <2>9. s \in H!From(r) <=> H!Asked(s, q, g0.box) # {}
    BY <1>7, <2>1 DEF H!From
  <2>10. CASE s \notin H!From(r)
    <3>1. Due(q, s)' = Due(q, s)
      BY <2>1, <2>5, <2>7, <2>8, <2>9, <2>10
    <3>2. links_inbox'[q][s] = links_inbox[q][s]
      BY <1>2, <2>10
    <3>3. \A g \in Rounds : H!Asked(s, q, g.box) # {} /\ Before(g, Following(g0)) => Before(g, Given(s))
      BY <1>1, <2>1, <2>2, <2>9, <2>10 DEF QueueOf
    <3> QED BY <1>1, <1>5, <2>1, <2>4, <3>1, <3>2, <3>3 DEF QueueOf, Before
  <2>11. CASE s \in H!From(r)
    <3>0. links_inbox[r][s] # <<>>
      BY <2>11 DEF H!Wait
    <3>1. /\ Before(g0, Given(s))
          /\ \E f \in Seq(Rounds) :
               /\ Len(Tail(links_inbox[r][s])) = Len(f) /\ Listing(f, Due(r, s) \ {g0})
               /\ \A n \in 1 .. Len(f) : Tail(links_inbox[r][s])[n] = Message(r, s, f[n])
      BY <1>1, <2>11, <3>0, FirstIs DEF g0
    <3>2. links_inbox'[q][s] = Tail(links_inbox[r][s])
      BY <1>2, <1>7, <2>11
    <3>3. \A g \in Rounds : H!Asked(s, q, g.box) # {} /\ Before(g, Following(g0)) => Before(g, Given(s))
      BY <1>1, <2>1, <2>2, <3>1 DEF QueueOf
    <3>4. \E f \in Seq(Rounds) :
            /\ Len(links_inbox'[q][s]) = Len(f) /\ Listing(f, Due(q, s)')
            /\ \A n \in 1 .. Len(f) : links_inbox'[q][s][n] = Message(q, s, f[n])
      BY <1>7, <2>8, <3>1, <3>2
    <3> QED BY <1>5, <2>1, <2>4, <3>3, <3>4 DEF QueueOf, Before
  <2> QED BY <2>10, <2>11
<1> QED BY <1>6, <1>7

\* all_to_all_comm_t::communicate: what has come is what the box needs, of each
\* link as often updated as it is when the round begins.
LEMMA WaitGathers ==
  ASSUME SweepInv, ~ H!T.refused, NEW r \in H!Ranks, H!Wait(r)
  PROVE  GatheredOf(r)'
<1>1. /\ H!GaugeSweeperAssumption /\ Typed /\ name' = name /\ sweep_pc[r] = "wait" /\ sweep' = sweep /\ class' = class
      /\ gathered'[r] = H!Merged(r) /\ \A s \in H!From(r) : links_inbox[r][s] # <<>>
  BY DEF SweepInv, H!Wait, Typed
<1>2. Now(r)' = Now(r) /\ H!Box(r)' = H!Box(r) /\ H!T' = H!T /\ \A l : Value(l, Now(r))' = Value(l, Now(r))
  BY <1>1 DEF Now, H!Box, H!T, Round, Value, BoxOf
<1>3. H!Box(r) \in Boxes /\ Now(r).box = H!Box(r)
  BY <1>1, BoxIs
<1>4. \A s \in H!From(r) : Head(links_inbox[r][s]) = [l \in H!Asked(s, r, H!Box(r)) |-> Value(l, Now(r))]
  BY <1>1, <1>3, FirstIs DEF Message
<1>5. \A l \in H!T.gathered[r][H!Box(r)] : H!T.owner[l] \in H!From(r) /\ l \in H!Asked(H!T.owner[l], r, H!Box(r))
  <2> SUFFICES ASSUME NEW l \in H!T.gathered[r][H!Box(r)]
               PROVE  H!T.owner[l] \in H!From(r) /\ l \in H!Asked(H!T.owner[l], r, H!Box(r))
    OBVIOUS
  <2>1. l \in Links
    BY <1>1, <1>3, Lists DEF Typed
  <2>2. H!T.owner[l] \in H!Ranks
    BY <1>1, <2>1, Lists DEF Typed
  <2> QED BY <2>2 DEF H!Asked, H!From
<1>6. UNION {DOMAIN Head(links_inbox[r][s]) : s \in H!From(r)} = H!T.gathered[r][H!Box(r)]
  <2>1. \A s \in H!From(r) : DOMAIN Head(links_inbox[r][s]) = H!Asked(s, r, H!Box(r))
    BY <1>4
  <2> QED BY <1>5, <2>1 DEF H!Asked
<1>7. H!Merged(r) = [l \in H!T.gathered[r][H!Box(r)] |-> Head(links_inbox[r][H!T.owner[l]])[l]]
  BY <1>6 DEF H!Merged
<1>8. \A l \in H!T.gathered[r][H!Box(r)] : Head(links_inbox[r][H!T.owner[l]])[l] = Value(l, Now(r))
  BY <1>4, <1>5
<1> QED BY <1>1, <1>2, <1>7, <1>8 DEF GatheredOf

-----------------------------------------------------------------------------
\* Where a rank goes with an update: it stays until its last thread comes, then
\* it goes on in the box, to the next box, or to the next sweep.
LEMMA UpdateGoes ==
  ASSUME SweepInv, ~ H!T.refused, NEW r \in H!Ranks, NEW t \in H!Threads, H!Update(r, t)
  PROVE  /\ Given(r)' = Given(r) /\ Got(r)' = Got(r)
         /\ sweep_pc'[r] = "update" => Now(r)' = Now(r) /\ H!Box(r)' = H!Box(r)
<1>1. /\ H!GaugeSweeperAssumption /\ Typed /\ name' = name /\ H!T' = H!T /\ sweep_pc[r] = "update" /\ LastBox' = LastBox
      /\ Given(r) = Following(Now(r)) /\ Got(r) = Following(Now(r))
  BY DEF SweepInv, H!Update, H!T, LastBox, Given, Got
<1>2. /\ class[r] \in Nat /\ class[r] < H!T.nclasses /\ H!Box(r) \in Boxes /\ sweep[r] \in Nat
      /\ Now(r).sweep = sweep[r] /\ Now(r).box = H!Box(r) /\ H!T.per_box \in Nat \ {0} /\ H!T.nclasses \in Nat
      /\ H!Box(r) \in Nat
  BY <1>1, BoxIs, Sizes DEF Typed, Boxes
<1>3. ASSUME Now(r)' = Now(r), sweep_pc'[r] = "update" PROVE Given(r)' = Given(r) /\ Got(r)' = Got(r)
  <2>1. Following(Now(r))' = Following(Now(r))
    BY <1>1, <1>3 DEF Following, Round
  <2> QED BY <1>1, <1>3, <2>1 DEF Given, Got
<1>4. ASSUME Now(r)' = Following(Now(r)), sweep_pc'[r] \in {"gather", "end"}
      PROVE  Given(r)' = Given(r) /\ Got(r)' = Got(r)
  BY <1>1, <1>4 DEF Given, Got
<1>5. CASE through[r] \cup {t} # H!Threads
  <2>1. sweep_pc'[r] = "update" /\ sweep'[r] = sweep[r] /\ class'[r] = class[r]
    BY <1>1, <1>5 DEF H!Update
  <2>2. Now(r)' = Now(r) /\ H!Box(r)' = H!Box(r)
    BY <1>1, <2>1 DEF Now, H!Box, Round
  <2> QED BY <1>3, <2>1, <2>2
<1>6. CASE through[r] \cup {t} = H!Threads
  <2>1. H!Onward(r)
    BY <1>6 DEF H!Update
  <2>2. CASE class[r] + 1 < H!T.nclasses
    <3>1. /\ class'[r] = class[r] + 1 /\ sweep'[r] = sweep[r]
          /\ sweep_pc'[r] = IF (class[r] + 1) % H!T.per_box = 0 THEN "gather" ELSE "update"
      BY <1>1, <2>1, <2>2 DEF H!Onward, Typed
    <3>2. H!Box(r)' = (class[r] + 1) \div H!T.per_box /\ Now(r)' = Round(sweep[r], H!Box(r)')
      BY <1>1, <3>1 DEF Now, H!Box, Round
    <3>3. CASE (class[r] + 1) % H!T.per_box # 0
      <4>1. H!Box(r)' = H!Box(r) /\ Now(r)' = Now(r) /\ sweep_pc'[r] = "update"
        BY <1>2, <3>1, <3>2, <3>3, Division DEF H!Box, Now, Round
      <4> QED BY <1>3, <4>1
    <3>4. CASE (class[r] + 1) % H!T.per_box = 0
      <4>1. H!Box(r)' = H!Box(r) + 1 /\ sweep_pc'[r] = "gather"
        BY <1>2, <3>1, <3>2, <3>4, Division DEF H!Box
      <4>2. H!Box(r) + 1 <= LastBox
        <5>1. class[r] + 1 \in Nat /\ H!T.nclasses - 1 \in Nat /\ class[r] + 1 <= H!T.nclasses - 1
          BY <1>2, <2>2
        <5> QED BY <1>2, <3>2, <4>1, <5>1, DivisionOrder DEF LastBox
      <4>3. LastBox \in Nat
        BY <1>1, Sizes DEF Typed
      <4>4. Now(r)' = Following(Now(r))
        BY <1>2, <3>2, <4>1, <4>2, <4>3 DEF Following
      <4> QED BY <1>4, <4>1, <4>4
    <3> QED BY <3>3, <3>4
  <2>3. CASE ~ class[r] + 1 < H!T.nclasses
    <3>1. /\ class'[r] = 0 /\ sweep'[r] = sweep[r] + 1 /\ sweep_pc'[r] \in {"gather", "end"}
      BY <1>1, <2>1, <2>3 DEF H!Onward, Typed
    <3>2. class[r] = H!T.nclasses - 1
      BY <1>2, <2>3
    <3>3. H!Box(r) = LastBox
      BY <3>2 DEF H!Box, LastBox
    <3>4. 0 \div H!T.per_box = 0
      BY <1>2
    <3>5. Now(r)' = Round(sweep[r] + 1, 0)
      BY <1>1, <3>1, <3>4 DEF Now, H!Box, Round
    <3>6. Now(r)' = Following(Now(r))
      BY <1>2, <3>3, <3>5 DEF Following
    <3> QED BY <1>4, <3>1, <3>6
  <2> QED BY <2>2, <2>3
<1> QED BY <1>5, <1>6

\* An update is between two gatherings: nothing is due that was not.
LEMMA UpdateQueue ==
  ASSUME SweepInv, ~ H!T.refused, NEW r \in H!Ranks, NEW t \in H!Threads, H!Update(r, t)
  PROVE  QueueInv' /\ GatheredInv'
<1>1. /\ Typed /\ name' = name /\ links_inbox' = links_inbox /\ gathered' = gathered /\ H!Ranks' = H!Ranks /\ H!T' = H!T
      /\ sweep_pc[r] = "update" /\ QueueInv /\ GatheredInv
  BY DEF SweepInv, H!Update, H!T, H!Ranks
<1>2. \A q \in H!Ranks : q # r => sweep_pc'[q] = sweep_pc[q] /\ sweep'[q] = sweep[q] /\ class'[q] = class[q]
  BY <1>1 DEF H!Update, H!Onward, Typed
<1>3. \A q \in H!Ranks : Given(q)' = Given(q) /\ Got(q)' = Got(q)
  BY <1>1, <1>2, RoundKept, UpdateGoes
<1>4. QueueInv'
  BY <1>1, <1>3, QueueKept DEF QueueInv
<1>5. ASSUME NEW q \in H!Ranks, sweep_pc'[q] = "update" PROVE GatheredOf(q)'
  <2>1. sweep_pc[q] = "update" /\ Now(q)' = Now(q) /\ H!Box(q)' = H!Box(q)
    BY <1>1, <1>2, <1>5, RoundKept, UpdateGoes
  <2>2. GatheredOf(q)
    BY <1>1, <2>1 DEF GatheredInv
  <2> QED BY <1>1, <2>1, <2>2 DEF GatheredOf, Value, BoxOf
<1> QED BY <1>1, <1>4, <1>5 DEF GatheredInv

\* A link is updated once more by the thread that has it, and the class goes on
\* when each of its links has been.
LEMMA UpdateConf ==
  ASSUME SweepInv, ~ H!T.refused, NEW r \in H!Ranks, NEW t \in H!Threads, H!Update(r, t)
  PROVE  ConfInv'
<1>1. /\ H!GaugeSweeperAssumption /\ Typed /\ name' = name /\ H!T' = H!T /\ Links' = Links /\ ConfInv /\ t \notin through[r]
      /\ conf' = [l \in DOMAIN conf |-> IF l \in H!LinksOf(r, t) THEN conf[l] + 1 ELSE conf[l]]
      /\ DOMAIN conf = Links /\ conf \in [Links -> Nat]
  BY DEF SweepInv, H!Update, H!Updated, H!T, Links, Typed
<1>2. \A q \in H!Ranks : q # r => sweep'[q] = sweep[q] /\ class'[q] = class[q] /\ through'[q] = through[q]
  BY <1>1 DEF H!Update, H!Onward, Typed
<1> SUFFICES ASSUME NEW l \in Links
             PROVE  conf'[l] = sweep'[H!T.owner[l]] + IF Reached(l)' THEN 1 ELSE 0
  BY <1>1 DEF ConfInv
<1>3. /\ H!T.owner[l] \in H!Ranks /\ H!T.class[l] \in Nat /\ H!T.class[l] <= H!T.nclasses - 1 /\ H!T.nclasses \in Nat
      /\ conf[l] = sweep[H!T.owner[l]] + IF Reached(l) THEN 1 ELSE 0
      /\ conf'[l] = IF l \in H!LinksOf(r, t) THEN conf[l] + 1 ELSE conf[l]
  <2>1. H!T.nclasses \in Nat \ {0} /\ H!T.owner \in [Links -> H!Ranks] /\ H!T.class \in [Links -> 0 .. H!T.nclasses - 1]
    BY <1>1, Lists, Sizes DEF Typed
  <2>2. conf[l] = sweep[H!T.owner[l]] + IF Reached(l) THEN 1 ELSE 0
    BY <1>1 DEF ConfInv
  <2>3. conf'[l] = IF l \in H!LinksOf(r, t) THEN conf[l] + 1 ELSE conf[l]
    BY <1>1
  <2>4. H!T.owner[l] \in H!Ranks /\ H!T.class[l] \in 0 .. H!T.nclasses - 1
    BY <2>1
  <2> QED BY <2>1, <2>2, <2>3, <2>4
<1>4. CASE H!T.owner[l] # r
  <2>1. l \notin H!LinksOf(r, t)
    BY <1>1, <1>4, LinksAre
  <2>2. Reached(l)' <=> Reached(l)
    <3>1. PICK q \in H!Ranks : H!T.owner[l] = q /\ q # r
      BY <1>3, <1>4
    <3>2. class'[q] = class[q] /\ through'[q] = through[q]
      BY <1>2, <3>1
    <3>3. \A u : H!LinksOf(q, u)' = H!LinksOf(q, u)
      BY <1>1, <3>2 DEF H!LinksOf, H!Chunk, H!Load
    <3>4. Reached(l) <=> \/ H!T.class[l] < class[q]
                         \/ H!T.class[l] = class[q] /\ \E u \in through[q] : l \in H!LinksOf(q, u)
      BY <3>1 DEF Reached
    <3>5. Reached(l)' <=> \/ (H!T.class[l])' < class'[q]
                          \/ (H!T.class[l])' = class'[q] /\ \E u \in through'[q] : l \in H!LinksOf(q, u)'
      BY <1>1, <3>1 DEF Reached
    <3>6. (H!T.class[l])' = H!T.class[l]
      BY <1>1
    <3> QED BY <3>2, <3>3, <3>4, <3>5, <3>6
  <2> QED BY <1>2, <1>3, <1>4, <2>1, <2>2
<1>5. CASE H!T.owner[l] = r
  <2>1. /\ class[r] \in Nat /\ class[r] < H!T.nclasses /\ sweep[r] \in Nat /\ through[r] \subseteq H!Threads
    BY <1>1, BoxIs DEF Typed
  <2>2. l \in H!LinksOf(r, t) => H!T.class[l] = class[r] /\ ~ \E u \in through[r] : l \in H!LinksOf(r, u)
    BY <1>1, <2>1, LinksAre
  <2>3. H!T.class[l] = class[r] => \E u \in H!Threads : l \in H!LinksOf(r, u)
    BY <1>1, <1>5, LinksAre
  <2>4. CASE through[r] \cup {t} # H!Threads
    <3>1. sweep'[r] = sweep[r] /\ class'[r] = class[r] /\ through'[r] = through[r] \cup {t}
      BY <1>1, <2>4 DEF H!Update, Typed
    <3>2. \A u : H!LinksOf(r, u)' = H!LinksOf(r, u)
      BY <1>1, <3>1 DEF H!LinksOf, H!Chunk, H!Load
    <3>3. Reached(l)' <=> Reached(l) \/ l \in H!LinksOf(r, t)
      BY <1>1, <1>5, <2>2, <3>1, <3>2 DEF Reached
    <3>4. l \in H!LinksOf(r, t) => ~ Reached(l)
      BY <1>3, <1>5, <2>1, <2>2 DEF Reached
    <3> QED BY <1>3, <1>5, <2>1, <3>1, <3>3, <3>4
  <2>5. CASE through[r] \cup {t} = H!Threads
    <3>1. H!T.class[l] = class[r] => (\E u \in through[r] : l \in H!LinksOf(r, u)) \/ l \in H!LinksOf(r, t)
      BY <2>3, <2>5
    <3>2. conf'[l] = sweep[r] + IF H!T.class[l] <= class[r] THEN 1 ELSE 0
      BY <1>3, <1>5, <2>1, <2>2, <3>1 DEF Reached
    <3>3. H!Onward(r) /\ through'[r] = {}
      BY <1>1, <2>5 DEF H!Update, Typed
    <3>4. Reached(l)' <=> H!T.class[l] < class'[r]
      BY <1>1, <1>5, <3>3 DEF Reached
    <3>5. CASE class[r] + 1 < H!T.nclasses
      <4>1. class'[r] = class[r] + 1 /\ sweep'[r] = sweep[r]
        BY <1>1, <3>3, <3>5 DEF H!Onward, Typed
      <4> QED BY <1>3, <1>5, <2>1, <3>2, <3>4, <4>1
    <3>6. CASE ~ class[r] + 1 < H!T.nclasses
      <4>1. class'[r] = 0 /\ sweep'[r] = sweep[r] + 1
        BY <1>1, <3>3, <3>6 DEF H!Onward, Typed
      <4> QED BY <1>3, <1>5, <2>1, <3>2, <3>4, <3>6, <4>1
    <3> QED BY <3>5, <3>6
  <2> QED BY <2>4, <2>5
<1> QED BY <1>4, <1>5

-----------------------------------------------------------------------------
\* The invariant at the start, ...
LEMMA InitSweep == H!GaugeSweeperAssumption /\ H!Init => SweepInv
<1> SUFFICES ASSUME H!GaugeSweeperAssumption, H!Init PROVE SweepInv
  OBVIOUS
<1>1. /\ H!T.nthreads \in Nat \ {0} /\ H!T.nsweeps \in Nat \ {0} /\ H!T.nclasses \in Nat \ {0}
      /\ H!T.per_box \in Nat \ {0} /\ H!T.refused \in BOOLEAN /\ LastBox \in Nat /\ name \in Sweepers
  BY Sizes DEF H!Init
<1>2. Typed
  <2>1. conf \in [Links -> Nat]
    BY DEF H!Init, Links
  <2>2. \A r \in H!Ranks : links_inbox[r] \in [H!Ranks -> Seq(Messages)]
    BY DEF H!Init
  <2>3. class \in [H!Ranks -> 0 .. H!T.nclasses - 1] /\ sweep \in [H!Ranks -> Nat] /\ through \in [H!Ranks -> SUBSET H!Threads]
    BY <1>1 DEF H!Init
  <2>4. sweep_pc \in [H!Ranks -> {"gather", "wait", "update", "end", "crash"}]
    BY DEF H!Init
  <2>5. DOMAIN gathered = H!Ranks /\ DOMAIN links_inbox = H!Ranks /\ bord_valid \in [H!Ranks -> BOOLEAN]
    BY DEF H!Init
  <2> QED BY <1>1, <2>1, <2>2, <2>3, <2>4, <2>5 DEF Typed
<1>3. H!T.refused => \A r \in H!Ranks : sweep_pc[r] = "crash" /\ sweep[r] = 0
  BY DEF H!Init
<1>4. ASSUME ~ H!T.refused PROVE PlaceInv /\ ConfInv /\ QueueInv /\ GatheredInv
  <2>1. \A r \in H!Ranks : sweep_pc[r] = "gather" /\ through[r] = {} /\ class[r] = 0 /\ sweep[r] = 0
    BY <1>4 DEF H!Init
  <2>2. PlaceInv
    <3>1. 0 \in H!Threads /\ 0 % H!T.per_box = 0
      BY <1>1 DEF H!Threads
    <3> QED BY <1>1, <2>1, <3>1 DEF PlaceInv
  <2>3. ConfInv
    <3>1. \A l \in Links : H!T.owner[l] \in H!Ranks /\ H!T.class[l] \in Nat /\ conf[l] = 0
      BY <1>1, <1>4, Lists DEF H!Init, Links
    <3>2. \A l \in Links : ~ Reached(l)
      BY <2>1, <3>1 DEF Reached
    <3> QED BY <2>1, <3>1, <3>2 DEF ConfInv
  <2>4. QueueInv
    <3> SUFFICES ASSUME NEW r \in H!Ranks, NEW s \in H!Ranks PROVE QueueOf(r, s)
      BY DEF QueueInv
    <3>0. 0 \div H!T.per_box = 0
      BY <1>1
    <3>1. Got(r) = Round(0, 0) /\ Given(s) = Round(0, 0)
      BY <2>1, <3>0 DEF Got, Given, Now, H!Box
    <3>2. \A g \in Rounds : ~ Before(g, Round(0, 0))
      BY <1>1 DEF Rounds, Before, Round, Boxes
    <3>3. Due(r, s) = {}
      BY <3>1, <3>2 DEF Due
    <3>4. links_inbox[r][s] = <<>>
      BY DEF H!Init
    <3>5. Listing(<<>>, {}) /\ Len(<<>>) = 0 /\ <<>> \in Seq(Rounds)
      BY DEF Listing
    <3>6. \E f \in Seq(Rounds) : /\ Len(links_inbox[r][s]) = Len(f) /\ Listing(f, Due(r, s))
                                /\ \A n \in 1 .. Len(f) : links_inbox[r][s][n] = Message(r, s, f[n])
      <4>1. /\ <<>> \in Seq(Rounds) /\ Len(links_inbox[r][s]) = Len(<<>>) /\ Listing(<<>>, Due(r, s))
            /\ \A n \in 1 .. Len(<<>>) : links_inbox[r][s][n] = Message(r, s, <<>>[n])
        BY <3>3, <3>4, <3>5
      <4> QED BY <4>1
    <3> QED BY <3>1, <3>2, <3>6 DEF QueueOf
  <2>5. GatheredInv
    BY <2>1 DEF GatheredInv
  <2> QED BY <2>2, <2>3, <2>4, <2>5
<1> QED BY <1>2, <1>3, <1>4 DEF SweepInv

\* ... after the first half of a gathering, ...
LEMMA GatherStep ==
  ASSUME SweepInv, ~ H!T.refused, NEW r \in H!Ranks, H!Gather(r)
  PROVE  SweepInv'
<1>1. /\ H!GaugeSweeperAssumption /\ Typed /\ name' = name /\ H!T' = H!T /\ H!Ranks' = H!Ranks /\ Links' = Links /\ H!Threads' = H!Threads
      /\ Messages' = Messages /\ PlaceInv /\ ConfInv /\ GatheredInv
      /\ UNCHANGED <<sweep, class, through, conf, gathered, bord_valid>>
      /\ sweep_pc[r] = "gather" /\ sweep_pc'[r] = "wait" /\ \A q \in H!Ranks : q # r => sweep_pc'[q] = sweep_pc[q]
      /\ sweep_pc' = [sweep_pc EXCEPT ![r] = "wait"]
  BY DEF SweepInv, H!Gather, H!T, H!Ranks, Links, H!Threads, Messages, Typed
<1>2. Typed'
  <2>1. ASSUME NEW q \in H!Ranks, NEW s \in H!Ranks PROVE links_inbox'[q][s] \in Seq(Messages)
    <3>1. links_inbox[q][s] \in Seq(Messages)
      BY <1>1 DEF Typed
    <3>2. links_inbox'[q][s] = IF s = r /\ H!Asked(r, q, H!Box(r)) # {}
                         THEN Append(links_inbox[q][s], [l \in H!Asked(r, q, H!Box(r)) |-> conf[l]]) ELSE links_inbox[q][s]
      BY DEF H!Gather
    <3>3. [l \in H!Asked(r, q, H!Box(r)) |-> conf[l]] \in Messages
      <4>1. \A l \in H!Asked(r, q, H!Box(r)) : l \in Links
        BY <1>1, BoxIs, Lists DEF H!Asked, Typed
      <4>2. \A l \in H!Asked(r, q, H!Box(r)) : conf[l] \in Nat
        BY <1>1, <4>1 DEF Typed
      <4>3. [l \in H!Asked(r, q, H!Box(r)) |-> conf[l]] \in [H!Asked(r, q, H!Box(r)) -> Nat]
            /\ H!Asked(r, q, H!Box(r)) \in SUBSET Links
        BY <4>1, <4>2
      <4> QED BY <4>3 DEF Messages
    <3> QED BY <3>1, <3>2, <3>3
  <2>2. \E h : links_inbox' = [q \in H!Ranks |-> [s \in H!Ranks |-> h[q][s]]]
    <3>1. links_inbox' = [q \in H!Ranks |-> [s \in H!Ranks |->
            IF s = r /\ H!Asked(r, q, H!Box(r)) # {}
            THEN Append(links_inbox[q][s], [l \in H!Asked(r, q, H!Box(r)) |-> conf[l]]) ELSE links_inbox[q][s]]]
      BY DEF H!Gather
    <3>2. links_inbox' = [q \in H!Ranks |-> [s \in H!Ranks |-> links_inbox'[q][s]]]
      BY <3>1
    <3> QED BY <3>2
  <2>3. DOMAIN links_inbox' = H!Ranks /\ \A q \in H!Ranks : links_inbox'[q] \in [H!Ranks -> Seq(Messages)]
    BY <2>1, <2>2
  <2>4. sweep_pc' \in [H!Ranks -> {"gather", "wait", "update", "end", "crash"}]
    BY <1>1 DEF Typed
  <2> QED BY <1>1, <2>3, <2>4 DEF Typed
<1>3. PlaceInv'
  BY <1>1 DEF PlaceInv
<1>4. ConfInv'
  <2>1. \A l : Reached(l)' <=> Reached(l)
    BY <1>1 DEF Reached, H!LinksOf, H!Chunk, H!Load
  <2> QED BY <1>1, <2>1 DEF ConfInv
<1>5. QueueInv'
  BY <1>1, GatherQueue DEF QueueInv
<1>6. GatheredInv'
  BY <1>1 DEF GatheredInv, GatheredOf, H!Box, Value, BoxOf, Now, Round
<1> QED BY <1>1, <1>2, <1>3, <1>4, <1>5, <1>6 DEF SweepInv

\* ... the second, ...
LEMMA WaitStep ==
  ASSUME SweepInv, ~ H!T.refused, NEW r \in H!Ranks, H!Wait(r)
  PROVE  SweepInv'
<1>1. /\ H!GaugeSweeperAssumption /\ Typed /\ name' = name /\ H!T' = H!T /\ H!Ranks' = H!Ranks /\ Links' = Links /\ H!Threads' = H!Threads
      /\ Messages' = Messages /\ PlaceInv /\ ConfInv /\ GatheredInv
      /\ UNCHANGED <<sweep, class, through, conf>>
      /\ sweep_pc[r] = "wait" /\ sweep_pc'[r] = "update" /\ \A q \in H!Ranks : q # r => sweep_pc'[q] = sweep_pc[q] /\ gathered'[q] = gathered[q]
      /\ sweep_pc' = [sweep_pc EXCEPT ![r] = "update"]
  BY DEF SweepInv, H!Wait, H!T, H!Ranks, Links, H!Threads, Messages, Typed
<1>2. Typed'
  <2>1. ASSUME NEW q \in H!Ranks, NEW s \in H!Ranks PROVE links_inbox'[q][s] \in Seq(Messages)
    <3>1. links_inbox[q][s] \in Seq(Messages)
      BY <1>1 DEF Typed
    <3>2. links_inbox'[q][s] = IF q = r /\ s \in H!From(r) THEN Tail(links_inbox[q][s]) ELSE links_inbox[q][s]
      BY <1>1 DEF H!Wait, Typed
    <3>3. q = r /\ s \in H!From(r) => links_inbox[q][s] # <<>>
      BY DEF H!Wait
    <3> QED BY <3>1, <3>2, <3>3
  <2>2. links_inbox' = [links_inbox EXCEPT ![r] = [s \in H!Ranks |-> IF s \in H!From(r) THEN Tail(@[s]) ELSE @[s]]]
    BY DEF H!Wait
  <2>3. DOMAIN links_inbox' = H!Ranks /\ \A q \in H!Ranks : links_inbox'[q] = [s \in H!Ranks |-> links_inbox'[q][s]]
    BY <1>1, <2>2 DEF Typed
  <2>4. \A q \in H!Ranks : links_inbox'[q] \in [H!Ranks -> Seq(Messages)]
    BY <2>1, <2>3
  <2>5. sweep_pc' \in [H!Ranks -> {"gather", "wait", "update", "end", "crash"}]
    BY <1>1 DEF Typed
  <2>6. bord_valid' \in [H!Ranks -> BOOLEAN] /\ DOMAIN gathered' = H!Ranks
    BY <1>1 DEF Typed, H!Wait
  <2> QED BY <1>1, <2>3, <2>4, <2>5, <2>6 DEF Typed
<1>3. PlaceInv'
  BY <1>1 DEF PlaceInv
<1>4. ConfInv'
  <2>1. \A l : Reached(l)' <=> Reached(l)
    BY <1>1 DEF Reached, H!LinksOf, H!Chunk, H!Load
  <2> QED BY <1>1, <2>1 DEF ConfInv
<1>5. QueueInv'
  BY <1>1, WaitQueue DEF QueueInv
<1>6. GatheredInv'
  <2>1. ASSUME NEW q \in H!Ranks, sweep_pc'[q] = "update", q # r PROVE GatheredOf(q)'
    <3>1. GatheredOf(q) /\ gathered'[q] = gathered[q]
      BY <1>1, <2>1 DEF GatheredInv
    <3> QED BY <1>1, <3>1 DEF GatheredOf, H!Box, Value, BoxOf, Now, Round
  <2>2. GatheredOf(r)'
    BY WaitGathers
  <2> QED BY <1>1, <2>1, <2>2 DEF GatheredInv
<1> QED BY <1>1, <1>2, <1>3, <1>4, <1>5, <1>6 DEF SweepInv

\* ... and after an update.
LEMMA UpdateStep ==
  ASSUME SweepInv, ~ H!T.refused, NEW r \in H!Ranks, NEW t \in H!Threads, H!Update(r, t)
  PROVE  SweepInv'
<1>1. /\ H!GaugeSweeperAssumption /\ Typed /\ name' = name /\ H!T' = H!T /\ H!Ranks' = H!Ranks /\ Links' = Links /\ H!Threads' = H!Threads
      /\ Messages' = Messages /\ PlaceInv /\ sweep_pc[r] = "update" /\ UNCHANGED <<gathered, links_inbox>>
      /\ H!T.nclasses \in Nat \ {0} /\ H!T.nsweeps \in Nat \ {0} /\ H!T.nthreads \in Nat \ {0} /\ H!T.per_box \in Nat \ {0}
      /\ class[r] \in Nat /\ class[r] < H!T.nclasses /\ sweep[r] \in Nat
  BY BoxIs, Sizes DEF SweepInv, H!Update, H!T, H!Ranks, Links, H!Threads, Messages, Typed
<1>2. conf' \in [Links -> Nat]
  <2>1. conf' = [l \in DOMAIN conf |-> IF l \in H!LinksOf(r, t) THEN conf[l] + 1 ELSE conf[l]]
    BY DEF H!Update, H!Updated
  <2>2. conf \in [Links -> Nat]
    BY <1>1 DEF Typed
  <2> HIDE DEF Links
  <2> QED BY <2>1, <2>2
<1>3. CASE through[r] \cup {t} # H!Threads
  <2>1. UNCHANGED <<sweep_pc, sweep, class, bord_valid>> /\ through' = [through EXCEPT ![r] = @ \cup {t}]
    BY <1>3 DEF H!Update
  <2>2. Typed'
    BY <1>1, <1>2, <2>1 DEF Typed
  <2>3. PlaceInv'
    BY <1>1, <1>3, <2>1 DEF PlaceInv, Typed
  <2> QED BY <1>1, <2>2, <2>3, UpdateQueue, UpdateConf DEF SweepInv
<1>4. CASE through[r] \cup {t} = H!Threads
  <2>1. H!Onward(r) /\ through' = [through EXCEPT ![r] = {}]
    BY <1>4 DEF H!Update
  <2>2. through' \in [H!Ranks -> SUBSET H!Threads] /\ {} # H!Threads
    BY <1>1, <2>1 DEF Typed, H!Threads
  <2>3. CASE class[r] + 1 < H!T.nclasses
    <3>1. /\ class' = [class EXCEPT ![r] = @ + 1]
          /\ sweep_pc' = [sweep_pc EXCEPT ![r] = IF (class[r] + 1) % H!T.per_box = 0 THEN "gather" ELSE "update"]
          /\ UNCHANGED <<sweep, bord_valid>>
      BY <2>1, <2>3 DEF H!Onward
    <3>2. class' \in [H!Ranks -> 0 .. H!T.nclasses - 1]
      <4>1. class[r] + 1 \in 0 .. H!T.nclasses - 1
        BY <1>1, <2>3
      <4> QED BY <1>1, <3>1, <4>1 DEF Typed
    <3>3. sweep_pc' \in [H!Ranks -> {"gather", "wait", "update", "end", "crash"}]
      BY <1>1, <3>1 DEF Typed
    <3>4. Typed'
      BY <1>1, <1>2, <2>2, <3>1, <3>2, <3>3 DEF Typed
    <3>5. PlaceInv'
      <4>1. \A q \in H!Ranks : q # r => sweep_pc'[q] = sweep_pc[q] /\ class'[q] = class[q] /\ through'[q] = through[q] /\ sweep'[q] = sweep[q]
        BY <1>1, <2>1, <3>1 DEF Typed
      <4>2. /\ sweep_pc'[r] \in {"gather", "update"} /\ class'[r] = class[r] + 1 /\ through'[r] = {} /\ sweep'[r] = sweep[r]
            /\ sweep_pc'[r] = "gather" => (class[r] + 1) % H!T.per_box = 0
        BY <1>1, <2>1, <3>1 DEF Typed
      <4> QED BY <1>1, <2>2, <4>1, <4>2 DEF PlaceInv
    <3> QED BY <1>1, <3>4, <3>5, UpdateQueue, UpdateConf DEF SweepInv
  <2>4. CASE ~ class[r] + 1 < H!T.nclasses
    <3>1. /\ class' = [class EXCEPT ![r] = 0] /\ sweep' = [sweep EXCEPT ![r] = @ + 1]
          /\ sweep_pc' = [sweep_pc EXCEPT ![r] = IF sweep[r] + 1 = H!T.nsweeps THEN "end" ELSE "gather"]
          /\ bord_valid' = [bord_valid EXCEPT ![r] = FALSE]
      BY <2>1, <2>4 DEF H!Onward
    <3>2. class' \in [H!Ranks -> 0 .. H!T.nclasses - 1]
      <4>1. 0 \in 0 .. H!T.nclasses - 1
        BY <1>1
      <4> QED BY <1>1, <3>1, <4>1 DEF Typed
    <3>3. sweep_pc' \in [H!Ranks -> {"gather", "wait", "update", "end", "crash"}]
      BY <1>1, <3>1 DEF Typed
    <3>4. sweep' \in [H!Ranks -> Nat] /\ bord_valid' \in [H!Ranks -> BOOLEAN]
      BY <1>1, <3>1 DEF Typed
    <3>5. Typed'
      BY <1>1, <1>2, <2>2, <3>2, <3>3, <3>4 DEF Typed
    <3>6. PlaceInv'
      <4>1. \A q \in H!Ranks : q # r => sweep_pc'[q] = sweep_pc[q] /\ class'[q] = class[q] /\ through'[q] = through[q] /\ sweep'[q] = sweep[q]
        BY <1>1, <2>1, <3>1 DEF Typed
      <4>2. /\ sweep_pc'[r] = IF sweep[r] + 1 = H!T.nsweeps THEN "end" ELSE "gather"
            /\ class'[r] = 0 /\ through'[r] = {} /\ sweep'[r] = sweep[r] + 1
        BY <1>1, <2>1, <3>1 DEF Typed
      <4>3. sweep[r] < H!T.nsweeps /\ 0 % H!T.per_box = 0
        BY <1>1 DEF PlaceInv
      <4> QED BY <1>1, <2>2, <4>1, <4>2, <4>3 DEF PlaceInv
    <3> QED BY <1>1, <3>5, <3>6, UpdateQueue, UpdateConf DEF SweepInv
  <2> QED BY <2>3, <2>4
<1> QED BY <1>3, <1>4

\* So it holds in every reachable state; a refused sweeper takes no step.
LEMMA NextSweep == SweepInv /\ [H!Next]_(H!vars) => SweepInv'
<1> SUFFICES ASSUME SweepInv, [H!Next]_(H!vars) PROVE SweepInv'
  OBVIOUS
<1>1. CASE UNCHANGED H!vars
  <2>1. H!T' = H!T
    BY <1>1 DEF H!vars, H!T
  <2>2. /\ H!Ranks' = H!Ranks /\ Links' = Links /\ H!Threads' = H!Threads /\ Messages' = Messages /\ Rounds' = Rounds
        /\ \A r : Now(r)' = Now(r) /\ Given(r)' = Given(r) /\ Got(r)' = Got(r) /\ H!Box(r)' = H!Box(r)
    <3>1. \A r : Now(r)' = Now(r) /\ Given(r)' = Given(r) /\ Got(r)' = Got(r) /\ H!Box(r)' = H!Box(r)
      BY <1>1, RoundKept DEF H!vars
    <3> QED BY <1>1, <2>1, <3>1 DEF H!vars, H!Ranks, Links, H!Threads, Messages, Rounds, Boxes, LastBox
  <2>3. Typed'
    BY <1>1, <2>1, <2>2 DEF SweepInv, Typed, H!vars
  <2>4. H!T'.refused => \A r \in H!Ranks' : sweep_pc'[r] = "crash" /\ sweep'[r] = 0
    BY <1>1, <2>1, <2>2 DEF SweepInv, H!vars
  <2>5. ASSUME ~ H!T.refused PROVE PlaceInv' /\ ConfInv' /\ QueueInv' /\ GatheredInv'
    <3>1. PlaceInv /\ ConfInv /\ QueueInv /\ GatheredInv
      BY <2>5 DEF SweepInv
    <3>2. PlaceInv'
      BY <1>1, <2>1, <2>2, <3>1 DEF PlaceInv, H!vars
    <3>3. ConfInv'
      <4>1. \A l : Reached(l)' <=> Reached(l)
        BY <1>1, <2>1 DEF Reached, H!LinksOf, H!Chunk, H!Load, H!vars
      <4> QED BY <1>1, <2>1, <2>2, <3>1, <4>1 DEF ConfInv, H!vars
    <3>4. QueueInv'
      <4> SUFFICES ASSUME NEW r \in H!Ranks, NEW s \in H!Ranks PROVE QueueOf(r, s)'
        BY <2>2 DEF QueueInv
      <4>1. QueueOf(r, s)
        BY <3>1 DEF QueueInv
      <4>2. name' = name /\ links_inbox'[r][s] = links_inbox[r][s]
        BY <1>1 DEF H!vars
      <4> QED BY <2>2, <4>1, <4>2, QueueKept
    <3>5. GatheredInv'
      <4>1. \A q \in H!Ranks : GatheredOf(q) => GatheredOf(q)'
        BY <1>1, <2>1, <2>2 DEF GatheredOf, Value, BoxOf, H!vars
      <4> QED BY <1>1, <2>2, <3>1, <4>1 DEF GatheredInv, H!vars
    <3> QED BY <3>2, <3>3, <3>4, <3>5
  <2> QED BY <2>1, <2>3, <2>4, <2>5 DEF SweepInv
<1>2. ASSUME NEW r \in H!Ranks, H!Gather(r) \/ H!Wait(r) \/ \E t \in H!Threads : H!Update(r, t) PROVE SweepInv'
  <2>1. ~ H!T.refused
    BY <1>2 DEF SweepInv, H!Gather, H!Wait, H!Update
  <2> QED BY <1>2, <2>1, GatherStep, WaitStep, UpdateStep
<1>3. CASE H!End
  BY <1>1, <1>3 DEF H!End
<1> QED BY <1>1, <1>2, <1>3 DEF H!Next

\* A part that moves moves as its own specification says.
LEMMA SweepMoves == part = "sweep" /\ [ExchangesNext]_ExchangesVars => [H!Next]_(H!vars)
BY DEF ExchangesNext, ExchangesVars, sweep_vars, H!vars

\* The invariant holds in every state of the run.
LEMMA Reachable == ExchangesSpec => [](part = "sweep" => SweepInv)
<1>1. ExchangesInit => (part = "sweep" => SweepInv)
  BY InitSweep, SweepersAssumption DEF ExchangesInit
<1>2. (part = "sweep" => SweepInv) /\ [ExchangesNext]_ExchangesVars => (part = "sweep" => SweepInv)'
  BY NextSweep, SweepMoves DEF ExchangesNext, ExchangesVars
<1> QED BY <1>1, <1>2, PTL DEF ExchangesSpec

-----------------------------------------------------------------------------
\* The type invariant, for any sweeper that the assumption admits.
THEOREM TypeCorrect == ExchangesSpec => [](part = "sweep" => H!TypeOK)
<1>1. SweepInv => H!TypeOK
  <2> SUFFICES ASSUME SweepInv PROVE H!TypeOK
    OBVIOUS
  <2>1. Typed /\ H!T.nsweeps \in Nat /\ H!T.refused \in BOOLEAN
    BY Sizes DEF SweepInv, Typed
  <2>2. ASSUME NEW r \in H!Ranks PROVE sweep[r] \in 0 .. H!T.nsweeps
    <3>1. CASE H!T.refused
      BY <2>1, <3>1 DEF SweepInv
    <3>2. CASE ~ H!T.refused
      <4>1. sweep[r] \in Nat /\ (sweep[r] = H!T.nsweeps \/ sweep[r] < H!T.nsweeps)
        BY <2>1, <3>2 DEF SweepInv, PlaceInv, Typed
      <4> QED BY <2>1, <4>1
    <3> QED BY <3>1, <3>2
  <2> QED BY <2>1, <2>2 DEF H!TypeOK, Typed
<1> QED BY <1>1, Reachable, PTL

\* sweep_conf: whatever threads and ranks do meanwhile, a link is updated from
\* staples that are those of a sweep by one process, for any number of ranks,
\* threads, classes, classes per box and sweeps.
THEOREM SequentialSweepHolds == ExchangesSpec => [](part = "sweep" => H!SequentialSweep)
<1>1. SweepInv => H!SequentialSweep
  <2> SUFFICES ASSUME SweepInv, NEW r \in H!Ranks, sweep_pc[r] = "update",
                      NEW t \in H!Threads \ through[r], NEW l \in H!LinksOf(r, t)
               PROVE  /\ conf[l] = sweep[r]
                      /\ \A s \in H!T.needs[l] :
                           /\ H!T.class[s] # class[r]
                           /\ H!T.owner[s] # r => s \in DOMAIN gathered[r]
                           /\ (IF H!T.owner[s] = r THEN conf[s] ELSE gathered[r][s])
                                = sweep[r] + IF H!T.class[s] < class[r] THEN 1 ELSE 0
    BY DEF H!SequentialSweep
  <2>1. ~ H!T.refused
    BY DEF SweepInv
  <2>2. /\ H!GaugeSweeperAssumption /\ Typed /\ PlaceInv /\ ConfInv /\ GatheredInv /\ through[r] \subseteq H!Threads
        /\ name \in Sweepers
    BY <2>1 DEF SweepInv, Typed
  <2>3. /\ class[r] \in Nat /\ sweep[r] \in Nat /\ Now(r).sweep = sweep[r] /\ Now(r).box = H!Box(r) /\ H!Box(r) \in Nat
        /\ H!T.per_box \in Nat \ {0}
    BY <2>2, BoxIs, Sizes DEF Boxes
  <2>4. l \in Links /\ H!T.owner[l] = r /\ H!T.class[l] = class[r] /\ BoxOf(l) = H!Box(r)
    <3>1. l \in Links /\ H!T.owner[l] = r /\ H!T.class[l] = class[r]
      BY <2>1, <2>2, LinksAre
    <3> QED BY <3>1 DEF BoxOf, H!Box
  <2>5. \A u \in through[r] : l \notin H!LinksOf(r, u)
    BY <2>1, <2>2, LinksAre
  <2>6. conf[l] = sweep[r]
    <3>1. ~ Reached(l)
      BY <2>3, <2>4, <2>5 DEF Reached
    <3> QED BY <2>2, <2>3, <2>4, <3>1 DEF ConfInv
  <2>7. ASSUME NEW s \in H!T.needs[l]
        PROVE  /\ H!T.class[s] # class[r]
               /\ H!T.owner[s] # r => s \in DOMAIN gathered[r]
               /\ (IF H!T.owner[s] = r THEN conf[s] ELSE gathered[r][s])
                    = sweep[r] + IF H!T.class[s] < class[r] THEN 1 ELSE 0
    <3>1. /\ s \in Links /\ (H!T.owner[s] = r => H!T.class[s] # class[r])
          /\ H!T.owner[s] # r => BoxOf(s) # H!Box(r) /\ s \in H!T.gathered[r][H!Box(r)]
      BY <2>1, <2>2, <2>4, Lists
    <3>2. H!T.class[s] \in Nat
      BY <2>1, <2>2, <3>1, Lists
    <3>3. CASE H!T.owner[s] = r
      <4>1. Reached(s) <=> H!T.class[s] < class[r]
        BY <3>1, <3>3 DEF Reached
      <4> QED BY <2>2, <3>1, <3>3, <4>1 DEF ConfInv
    <3>4. CASE H!T.owner[s] # r
      <4>1. H!T.class[s] # class[r]
        BY <2>4, <3>1, <3>4 DEF BoxOf, H!Box
      <4>2. s \in DOMAIN gathered[r] /\ gathered[r][s] = Value(s, Now(r))
        BY <2>2, <3>1, <3>4 DEF GatheredInv, GatheredOf
      <4>3. BoxOf(s) < H!Box(r) <=> H!T.class[s] < class[r]
        <5>1. H!T.class[s] <= class[r] => BoxOf(s) <= H!Box(r)
          BY <2>3, <3>2, DivisionOrder DEF BoxOf, H!Box
        <5>2. class[r] <= H!T.class[s] => H!Box(r) <= BoxOf(s)
          BY <2>3, <3>2, DivisionOrder DEF BoxOf, H!Box
        <5>3. BoxOf(s) \in Nat
          BY <2>3, <3>2, Division DEF BoxOf
        <5> QED BY <2>3, <3>1, <3>2, <3>4, <4>1, <5>1, <5>2, <5>3
      <4> QED BY <2>3, <3>4, <4>1, <4>2, <4>3 DEF Value
    <3> QED BY <3>3, <3>4
  <2> QED BY <2>6, <2>7
<1> QED BY <1>1, Reachable, PTL

\* sweep_conf: a rank that has ended has updated each of its links once per
\* sweep, though its lists are divided among threads that need not go together.
THEOREM EachOncePerSweepHolds == ExchangesSpec => [](part = "sweep" => H!EachOncePerSweep)
<1>1. SweepInv => H!EachOncePerSweep
  <2> SUFFICES ASSUME SweepInv, NEW r \in H!Ranks, sweep_pc[r] = "end", NEW l \in DOMAIN conf, H!T.owner[l] = r
               PROVE  conf[l] = H!T.nsweeps
    BY DEF H!EachOncePerSweep
  <2>1. ~ H!T.refused
    BY DEF SweepInv
  <2>2. /\ Typed /\ l \in Links /\ H!GaugeSweeperAssumption /\ class[r] = 0 /\ sweep[r] = H!T.nsweeps /\ through[r] = {}
        /\ H!T.nsweeps \in Nat /\ conf[l] = sweep[r] + IF Reached(l) THEN 1 ELSE 0
    BY <2>1, Sizes DEF SweepInv, PlaceInv, ConfInv, Typed
  <2>3. H!T.class[l] \in Nat
    BY <2>1, <2>2, Lists DEF Typed
  <2>4. ~ Reached(l)
    BY <2>2, <2>3 DEF Reached
  <2> QED BY <2>2, <2>4
<1> QED BY <1>1, Reachable, PTL

\* all_to_all_comm_t::communicate writes the gathered links over the borders, and
\* the flag says so from then on.
THEOREM BorderNotTakenHolds == ExchangesSpec => [](part = "sweep" => H!BorderNotTaken)
<1> DEFINE Inv == SweepInv /\ H!BorderNotTaken
<1>1. H!Init => Inv
  BY InitSweep, SweepersAssumption DEF H!Init, H!BorderNotTaken
<1>2. Inv /\ [H!Next]_(H!vars) => Inv'
  <2> SUFFICES ASSUME SweepInv, H!BorderNotTaken, [H!Next]_(H!vars) PROVE H!BorderNotTaken'
    BY NextSweep
  <2>1. CASE UNCHANGED H!vars \/ H!End
    BY <2>1 DEF H!BorderNotTaken, H!vars, H!End, H!Ranks, H!T
  <2>2. ASSUME NEW r \in H!Ranks, H!Gather(r) \/ H!Wait(r) \/ \E t \in H!Threads : H!Update(r, t) PROVE H!BorderNotTaken'
    <3>1. /\ H!Ranks' = H!Ranks /\ bord_valid \in [H!Ranks -> BOOLEAN]
      BY <2>2 DEF SweepInv, Typed, H!Gather, H!Wait, H!Update, H!Ranks, H!T
    <3>2. \A q \in H!Ranks : \/ gathered'[q] = gathered[q] /\ bord_valid'[q] = bord_valid[q]
                           \/ ~ bord_valid'[q]
      BY <2>2, <3>1 DEF SweepInv, Typed, H!Gather, H!Wait, H!Update, H!Onward
    <3> QED BY <3>1, <3>2 DEF H!BorderNotTaken
  <2> QED BY <2>1, <2>2 DEF H!Next
<1>3. Inv => H!BorderNotTaken
  OBVIOUS
<1> HIDE DEF Inv
<1>4. ExchangesInit => (part = "sweep" => Inv)
  BY <1>1 DEF ExchangesInit
<1>5. (part = "sweep" => Inv) /\ [ExchangesNext]_ExchangesVars => (part = "sweep" => Inv)'
  BY <1>2, SweepMoves DEF ExchangesNext, ExchangesVars
<1> QED BY <1>3, <1>4, <1>5, PTL DEF ExchangesSpec

\* sweep_conf: a sweep by all threads of all ranks is a sweep of one process, for any
\* tables that pass the checks of gauge_sweeper.cpp.
THEOREM SweepRightHolds ==
  (\A s \in Sweepers : ~ TablesOf(s).refused) => (ExchangesSpec => []SweepRight)
<1> SUFFICES ASSUME \A s \in Sweepers : ~ TablesOf(s).refused
             PROVE  ExchangesSpec => []SweepRight
  OBVIOUS
<1>1. SweepInv => H!NotRefused
  BY DEF SweepInv, Typed, H!T, PlaceInv, H!NotRefused
<1>2. (part = "sweep" => SweepInv) /\ (part = "sweep" => H!TypeOK) /\ (part = "sweep" => H!SequentialSweep)
        /\ (part = "sweep" => H!EachOncePerSweep) /\ (part = "sweep" => H!BorderNotTaken)
        => SweepRight
  BY <1>1 DEF SweepRight
<1> QED BY <1>2, Reachable, TypeCorrect, SequentialSweepHolds, EachOncePerSweepHolds, BorderNotTakenHolds, PTL

-----------------------------------------------------------------------------
\* Induction.

\* A set of numbers has a smallest one.
LEMMA SmallestOf ==
  ASSUME NEW T \in SUBSET Nat, T # {}
  PROVE  \E n \in T : \A m \in T : n <= m
<1> DEFINE Less == OpToRel(<, Nat)
<1>1. \A x, y \in Nat : <<y, x>> \in Less <=> y < x
  BY DEF OpToRel
<1>2. IsWellFoundedOn(Less, Nat)
  BY NatLessThanWellFounded, Zenon
<1> HIDE DEF Less
<1>3. PICK x \in T : \A y \in T : ~ (<<y, x>> \in Less)
  BY <1>2, WFMin
<1>4. ASSUME NEW y \in T PROVE x <= y
  <2>1. x \in Nat /\ y \in Nat
    OBVIOUS
  <2>2. ~ (y < x)
    BY <1>1, <1>3, <2>1
  <2> QED BY <2>1, <2>2
<1> QED BY <1>4

\* A set that has 0, and with a number the next one, has all numbers.
LEMMA Induction ==
  ASSUME NEW S, 0 \in S, \A n \in Nat : n \in S => n + 1 \in S
  PROVE  \A n \in Nat : n \in S
<1> DEFINE T == Nat \ S
<1>1. SUFFICES ASSUME T # {} PROVE FALSE
  OBVIOUS
<1>2. PICK n \in T : \A m \in T : n <= m
  BY <1>1, SmallestOf
<1> QED BY <1>2

-----------------------------------------------------------------------------
\* Streams: the messages of a channel are those of the numbers of S from lo to hi,
\* in their order; what has been taken has been sent.
Counts(f, S, lo, hi) ==
  /\ \A a, b \in 1 .. Len(f) : a < b => f[a] < f[b]
  /\ \A c \in Nat : (\E a \in 1 .. Len(f) : f[a] = c) <=> c \in S /\ lo <= c /\ c < hi
Stream(p, S, lo, hi, M) ==
  /\ \E f \in Seq(Nat) : Counts(f, S, lo, hi) /\ p = [a \in 1 .. Len(f) |-> M[f[a]]]
  /\ \A c \in S : c < lo => c < hi

\* Nothing is sent by going past numbers that are not of S.
LEMMA StreamSkip ==
  ASSUME NEW S \in SUBSET Nat, NEW M, NEW p, NEW lo \in Nat, NEW hi \in Nat, NEW up \in Nat, Stream(p, S, lo, hi, M),
         hi <= up, \A c \in S : ~ (hi <= c /\ c < up)
  PROVE  Stream(p, S, lo, up, M)
<1>1. PICK f \in Seq(Nat) : Counts(f, S, lo, hi) /\ p = [a \in 1 .. Len(f) |-> M[f[a]]]
  BY DEF Stream
<1>2. \A c \in S : c < hi <=> c < up
  OBVIOUS
<1>3. Counts(f, S, lo, up)
  BY <1>1, <1>2 DEF Counts
<1>4. \A c \in S : c < lo => c < up
  BY <1>2 DEF Stream
<1> QED BY <1>1, <1>3, <1>4 DEF Stream

\* Nothing is taken by going past numbers that are not of S.
LEMMA StreamPast ==
  ASSUME NEW S \in SUBSET Nat, NEW M, NEW p, NEW lo \in Nat, NEW hi \in Nat, NEW up \in Nat, Stream(p, S, lo, hi, M),
         lo <= up, \A c \in S : ~ (lo <= c /\ c < up)
  PROVE  Stream(p, S, up, hi, M)
<1>1. PICK f \in Seq(Nat) : Counts(f, S, lo, hi) /\ p = [a \in 1 .. Len(f) |-> M[f[a]]]
  BY DEF Stream
<1>2. \A c \in S : c < lo <=> c < up
  OBVIOUS
<1>3. \A c \in S : lo <= c <=> up <= c
  BY <1>2
<1>4. Counts(f, S, up, hi)
  BY <1>1, <1>3 DEF Counts
<1>5. \A c \in S : c < up => c < hi
  BY <1>2 DEF Stream
<1> QED BY <1>1, <1>4, <1>5 DEF Stream

\* The next of S is sent.
LEMMA StreamAdd ==
  ASSUME NEW S \in SUBSET Nat, NEW M, NEW p, NEW lo \in Nat, NEW hi \in Nat, NEW up \in Nat, Stream(p, S, lo, hi, M),
         NEW d \in S, hi <= d, d < up, \A c \in S : hi <= c /\ c < up => c = d
  PROVE  Stream(p \o <<M[d]>>, S, lo, up, M)
<1>1. PICK f \in Seq(Nat) : Counts(f, S, lo, hi) /\ p = [a \in 1 .. Len(f) |-> M[f[a]]]
  BY DEF Stream
<1> DEFINE e == Append(f, d)
<1>2. /\ e \in Seq(Nat) /\ Len(f) \in Nat /\ Len(e) = Len(f) + 1 /\ e[Len(f) + 1] = d
      /\ \A a \in 1 .. Len(f) : e[a] = f[a] /\ f[a] \in Nat
  BY AppendProperties, ElementOfSeq
<1>8. Len(f) \in Nat /\ Len(e) = Len(f) + 1
  BY <1>2
<1>3. lo <= d /\ d \in Nat
  BY DEF Stream
<1>4. \A a \in 1 .. Len(f) : f[a] < d /\ f[a] \in S
  BY <1>1, <1>2 DEF Counts
<1>5. Counts(e, S, lo, up)
  <2> HIDE DEF e
  <2>1. ASSUME NEW a \in 1 .. Len(e), NEW b \in 1 .. Len(e), a < b PROVE e[a] < e[b]
    <3>1. CASE b = Len(f) + 1
      <4>1. a \in 1 .. Len(f) /\ e[b] = d
        BY <1>2, <1>8, <2>1, <3>1
      <4> QED BY <1>2, <1>4, <4>1
    <3>2. CASE b # Len(f) + 1
      <4>1. a \in 1 .. Len(f) /\ b \in 1 .. Len(f)
        BY <1>8, <2>1, <3>2
      <4> QED BY <1>1, <1>2, <2>1, <4>1 DEF Counts
    <3> QED BY <3>1, <3>2
  <2>2. ASSUME NEW a \in 1 .. Len(e) PROVE e[a] \in S /\ lo <= e[a] /\ e[a] < up
    <3>1. CASE a = Len(f) + 1
      BY <1>2, <1>3, <3>1
    <3>2. CASE a # Len(f) + 1
      <4>1. a \in 1 .. Len(f)
        BY <1>8, <3>2
      <4>2. f[a] \in Nat /\ f[a] \in S /\ lo <= f[a] /\ f[a] < hi
        BY <1>1, <1>2, <4>1 DEF Counts
      <4>3. e[a] = f[a]
        BY <1>2, <4>1
      <4>4. f[a] < up
        BY <1>3, <4>2
      <4> QED BY <4>2, <4>3, <4>4
    <3> QED BY <3>1, <3>2
  <2>3. ASSUME NEW c \in Nat, c \in S, lo <= c, c < up PROVE \E a \in 1 .. Len(e) : e[a] = c
    <3>1. CASE c = d
      BY <1>2, <3>1
    <3>2. CASE c # d
      <4>1. c < hi
        BY <2>3, <3>2
      <4>2. PICK a \in 1 .. Len(f) : f[a] = c
        BY <1>1, <2>3, <4>1 DEF Counts
      <4>3. a \in 1 .. Len(e) /\ e[a] = c
        BY <1>2, <4>2
      <4> QED BY <4>3
    <3> QED BY <3>1, <3>2
  <2> QED BY <2>1, <2>2, <2>3 DEF Counts
<1>6. p \o <<M[d]>> = [a \in 1 .. Len(e) |-> M[e[a]]]
  <2>1. p \in Seq({M[c] : c \in S}) /\ Len(p) = Len(f)
    BY <1>1, <1>2, <1>4
  <2>2. <<M[d]>> \in Seq({M[c] : c \in S}) /\ Len(<<M[d]>>) = 1 /\ <<M[d]>>[1] = M[d]
    OBVIOUS
  <2>3. /\ Len(p \o <<M[d]>>) = Len(p) + 1 /\ p \o <<M[d]>> \in Seq({M[c] : c \in S})
        /\ \A a \in 1 .. Len(p) + 1 : (p \o <<M[d]>>)[a] = IF a <= Len(p) THEN p[a] ELSE <<M[d]>>[a - Len(p)]
    BY <2>1, <2>2, ConcatProperties
  <2>4. \A a \in 1 .. Len(p) + 1 : (p \o <<M[d]>>)[a] = M[e[a]]
    <3> HIDE DEF e
    <3>1. ASSUME NEW a \in 1 .. Len(p) + 1 PROVE (p \o <<M[d]>>)[a] = M[e[a]]
      <4>1. CASE a = Len(p) + 1
        <5>1. a - Len(p) = 1 /\ ~ (a <= Len(p)) /\ a = Len(f) + 1
          BY <1>8, <2>1, <4>1
        <5>2. (p \o <<M[d]>>)[a] = <<M[d]>>[1] /\ e[a] = d
          BY <1>2, <2>3, <5>1
        <5> QED BY <2>2, <5>2
      <4>2. CASE a # Len(p) + 1
        <5>1. a \in 1 .. Len(f) /\ a <= Len(p)
          BY <1>8, <2>1, <4>2
        <5> QED BY <1>1, <1>2, <2>3, <5>1
      <4> QED BY <4>1, <4>2
    <3> QED BY <3>1
  <2>5. p \o <<M[d]>> = [a \in 1 .. Len(p \o <<M[d]>>) |-> (p \o <<M[d]>>)[a]]
    BY <2>3, LenProperties
  <2> HIDE DEF e
  <2>6. Len(p \o <<M[d]>>) = Len(p) + 1 /\ Len(e) = Len(p) + 1
    BY <1>8, <2>1, <2>3
  <2> QED BY <2>4, <2>5, <2>6
<1>7. \A c \in S : c < lo => c < up
  BY DEF Stream
<1> HIDE DEF e
<1> QED BY <1>2, <1>5, <1>6, <1>7 DEF Stream

\* The first message of a channel is that of the next of S.
LEMMA StreamTake ==
  ASSUME NEW S \in SUBSET Nat, NEW M, NEW p, NEW lo \in Nat, NEW hi \in Nat, NEW up \in Nat, Stream(p, S, lo, hi, M),
         p # <<>>, NEW d \in S, lo <= d, d < up, \A c \in S : lo <= c /\ c < up => c = d
  PROVE  Head(p) = M[d] /\ Stream(Tail(p), S, up, hi, M)
<1>1. PICK f \in Seq(Nat) : Counts(f, S, lo, hi) /\ p = [a \in 1 .. Len(f) |-> M[f[a]]]
  BY DEF Stream
<1>2. Len(f) \in Nat /\ \A a \in 1 .. Len(f) : f[a] \in Nat /\ f[a] \in S /\ lo <= f[a] /\ f[a] < hi
  BY <1>1, ElementOfSeq DEF Counts
<1>3. p \in Seq({M[c] : c \in S}) /\ Len(p) = Len(f)
  BY <1>1, <1>2
<1>4. Len(f) # 0 /\ f # <<>>
  <2>1. ASSUME Len(f) = 0 PROVE FALSE
    BY <1>3, <2>1, EmptySeq
  <2> QED BY <2>1
<1>5. 1 \in 1 .. Len(f)
  BY <1>2, <1>4
<1>6. f[1] = d
  <2> SUFFICES ASSUME f[1] # d PROVE FALSE
    OBVIOUS
  <2>1. ~ (f[1] < up) /\ f[1] \in Nat /\ f[1] < hi
    BY <1>2, <1>5
  <2>2. d < f[1] /\ d < hi /\ d \in Nat
    BY <2>1
  <2>3. PICK a \in 1 .. Len(f) : f[a] = d
    BY <1>1, <2>2 DEF Counts
  <2>4. a # 1
    BY <2>3
  <2>5. f[1] < f[a]
    BY <1>1, <1>5, <2>3, <2>4 DEF Counts
  <2> QED BY <2>2, <2>3, <2>5
<1> DEFINE e == Tail(f)
<1>7. /\ e \in Seq(Nat) /\ Len(e) = Len(f) - 1
      /\ \A a \in 1 .. Len(f) - 1 : e[a] = f[a + 1]
  BY <1>4, HeadTailProperties
<1>8. Counts(e, S, up, hi)
  <2> HIDE DEF e
  <2>1. ASSUME NEW a \in 1 .. Len(e), NEW b \in 1 .. Len(e), a < b PROVE e[a] < e[b]
    <3>1. a + 1 \in 1 .. Len(f) /\ b + 1 \in 1 .. Len(f) /\ a + 1 < b + 1
      BY <1>2, <1>7, <2>1
    <3>2. f[a + 1] < f[b + 1]
      BY <1>1, <3>1 DEF Counts
    <3> QED BY <1>7, <3>2
  <2>2. ASSUME NEW a \in 1 .. Len(e) PROVE e[a] \in S /\ up <= e[a] /\ e[a] < hi
    <3>1. a + 1 \in 1 .. Len(f) /\ 1 < a + 1
      BY <1>2, <1>7
    <3>2. f[1] < f[a + 1]
      BY <1>1, <1>5, <3>1 DEF Counts
    <3>3. f[a + 1] \in Nat /\ f[a + 1] \in S /\ lo <= f[a + 1] /\ f[a + 1] < hi
      BY <1>2, <3>1
    <3>4. ~ (f[a + 1] < up)
      BY <1>6, <3>2, <3>3
    <3>5. e[a] = f[a + 1]
      BY <1>7
    <3> QED BY <3>3, <3>4, <3>5
  <2>3. ASSUME NEW c \in Nat, c \in S, up <= c, c < hi PROVE \E a \in 1 .. Len(e) : e[a] = c
    <3>1. lo <= c /\ c # d
      BY <2>3
    <3>2. PICK b \in 1 .. Len(f) : f[b] = c
      BY <1>1, <2>3, <3>1 DEF Counts
    <3>3. b # 1
      BY <1>6, <3>1, <3>2
    <3>4. b - 1 \in 1 .. Len(e) /\ (b - 1) + 1 = b
      BY <1>2, <1>7, <3>3
    <3>5. e[b - 1] = c
      BY <1>7, <3>2, <3>4
    <3> QED BY <3>4, <3>5
  <2> QED BY <2>1, <2>2, <2>3 DEF Counts
<1>9. /\ Head(p) = p[1] /\ Tail(p) \in Seq({M[c] : c \in S}) /\ Len(Tail(p)) = Len(p) - 1
      /\ \A a \in 1 .. Len(p) - 1 : Tail(p)[a] = p[a + 1]
  BY <1>3, HeadTailProperties
<1>10. Head(p) = M[d]
  BY <1>1, <1>5, <1>6, <1>9
<1>11. Tail(p) = [a \in 1 .. Len(e) |-> M[e[a]]]
  <2> HIDE DEF e
  <2>1. ASSUME NEW a \in 1 .. Len(e) PROVE Tail(p)[a] = M[e[a]]
    <3>1. a \in 1 .. Len(p) - 1 /\ a + 1 \in 1 .. Len(f)
      BY <1>2, <1>3, <1>7
    <3>2. Tail(p)[a] = p[a + 1] /\ p[a + 1] = M[f[a + 1]]
      BY <1>1, <1>9, <3>1
    <3> QED BY <1>3, <1>7, <3>1, <3>2
  <2>2. Tail(p) = [a \in 1 .. Len(Tail(p)) |-> Tail(p)[a]]
    BY <1>9, LenProperties
  <2> QED BY <1>3, <1>7, <1>9, <2>1, <2>2
<1>12. \A c \in S : c < up => c < hi
  <2>1. d < hi
    BY <1>2, <1>5, <1>6
  <2>2. \A c \in S : c < lo => c < hi
    BY DEF Stream
  <2> QED BY <2>1, <2>2
<1> HIDE DEF e
<1> QED BY <1>7, <1>8, <1>10, <1>11, <1>12 DEF Stream

\* A channel that has sent nothing is empty, and one of which everything has been taken.
LEMMA StreamEmpty ==
  ASSUME NEW S \in SUBSET Nat, NEW M, NEW lo \in Nat, NEW hi \in Nat, \A c \in S : ~ (lo <= c /\ c < hi)
  PROVE  /\ (\A c \in S : ~ c < lo) => Stream(<<>>, S, lo, hi, M)
         /\ \A p : Stream(p, S, lo, hi, M) => p = <<>>
<1>1. ASSUME \A c \in S : ~ c < lo PROVE Stream(<<>>, S, lo, hi, M)
  <2>1. <<>> \in Seq(Nat) /\ Len(<<>>) = 0
    OBVIOUS
  <2>2. Counts(<<>>, S, lo, hi)
    BY <2>1 DEF Counts
  <2>3. [a \in 1 .. Len(<<>>) |-> M[<<>>[a]]] = <<>>
    OBVIOUS
  <2> QED BY <1>1, <2>1, <2>2, <2>3 DEF Stream
<1>2. ASSUME NEW p, Stream(p, S, lo, hi, M) PROVE p = <<>>
  <2>1. PICK f \in Seq(Nat) : Counts(f, S, lo, hi) /\ p = [a \in 1 .. Len(f) |-> M[f[a]]]
    BY <1>2 DEF Stream
  <2>2. Len(f) = 0
    <3> SUFFICES ASSUME Len(f) # 0 PROVE FALSE
      OBVIOUS
    <3>1. 1 \in 1 .. Len(f) /\ f[1] \in Nat
      BY ElementOfSeq, LenProperties
    <3> QED BY <2>1, <3>1 DEF Counts
  <2> QED BY <2>1, <2>2
<1> QED BY <1>1, <1>2

-----------------------------------------------------------------------------
\* What lists mean.

Elements == [rank : A!Ranks, loc : Int, dest : Int]
Prog(j) == Jobs[j].program
Comm(j, c) == Jobs[j].list[c]
\* The list that tells of the elements that go from s to d is that of the sender or of the
\* receiver; what the list tells of them goes to the other.
Teller(j, c, s, d) == IF Comm(j, c).kind = "scatter" THEN s ELSE d
Hearer(j, c, s, d) == IF Comm(j, c).kind = "scatter" THEN d ELSE s
Between(j, c, s, d, f) == A!Fields(Comm(j, c).list[Teller(j, c, s, d)], f)[Hearer(j, c, s, d)]
Num(j, c, s, d) == Len(Between(j, c, s, d, "loc"))
ToOf(j, c, r) == [q \in A!Ranks |-> Between(j, c, r, q, "loc")]
FrOf(j, c, r) == [q \in A!Ranks |-> Between(j, c, q, r, "dest")]
\* What s explains to q.
Told(j, c, s, q) ==
  IF Comm(j, c).kind = "scatter" THEN Between(j, c, s, q, "dest") ELSE Between(j, c, q, s, "loc")

\* p has the places in l of the elements of rank q.
Places(l, q, p) ==
  /\ \A a \in 1 .. Len(p) : p[a] \in DOMAIN l /\ l[p[a]].rank = q
  /\ \A a, b \in 1 .. Len(p) : p[a] = p[b] => a = b
  /\ \A n \in DOMAIN l : l[n].rank = q => \E a \in 1 .. Len(p) : p[a] = n
Picked(l, q, p) == Places(l, q, p) /\ A!Of(l, q) = [a \in 1 .. Len(p) |-> l[p[a]]]

\* The elements of a list that concern a rank are found in it, each once.
LEMMA OfIs ==
  ASSUME NEW X, NEW l \in Seq(X), NEW q
  PROVE  \E p \in Seq(Nat) : Picked(l, q, p)
<1> DEFINE Good(g, m) ==
             g = [n \in 0 .. m |-> IF n = 0 THEN <<>> ELSE IF l[n].rank = q THEN Append(g[n - 1], l[n]) ELSE g[n - 1]]
           T == {m \in Nat : \E g : Good(g, m)}
<1>1. Len(l) \in Nat /\ DOMAIN l = 1 .. Len(l)
  BY LenProperties
<1>2. \A m \in Nat : m \in T
  <2>1. 0 \in T
    <3>1. Good([n \in 0 .. 0 |-> <<>>], 0)
      OBVIOUS
    <3> QED BY <3>1
  <2>2. ASSUME NEW m \in Nat, m \in T PROVE m + 1 \in T
    <3>1. PICK g : Good(g, m)
      BY <2>2
    <3> DEFINE h == [n \in 0 .. m + 1 |-> IF n = 0 THEN <<>> ELSE IF l[n].rank = q THEN Append(g[n - 1], l[n]) ELSE g[n - 1]]
    <3>2. \A n \in 0 .. m : h[n] = g[n]
      <4> HIDE DEF h
      <4>1. \A n \in 0 .. m : n \in 0 .. m + 1
        OBVIOUS
      <4>2. \A n \in 0 .. m : g[n] = IF n = 0 THEN <<>> ELSE IF l[n].rank = q THEN Append(g[n - 1], l[n]) ELSE g[n - 1]
        BY <3>1
      <4> QED BY <4>1, <4>2 DEF h
    <3>3. \A n \in 0 .. m + 1 : n # 0 => h[n - 1] = g[n - 1]
      <4> HIDE DEF h
      <4>1. \A n \in 0 .. m + 1 : n # 0 => n - 1 \in 0 .. m
        OBVIOUS
      <4> QED BY <3>2, <4>1
    <3>4. Good(h, m + 1)
      BY <3>3
    <3> QED
      <4> HIDE DEF Good, h
      <4> QED BY <3>4
  <2> HIDE DEF T
  <2> QED BY <2>1, <2>2, Induction
<1>3. PICK g : Good(g, Len(l)) /\ A!Of(l, q) = g[Len(l)]
  <2>1. \E g : Good(g, Len(l))
    BY <1>1, <1>2
  <2> QED BY <2>1 DEF A!Of
<1>7. /\ g[0] = <<>>
      /\ \A n \in Nat : n + 1 <= Len(l) => g[n + 1] = IF l[n + 1].rank = q THEN Append(g[n], l[n + 1]) ELSE g[n]
  <2>1. \A n \in 0 .. Len(l) : g[n] = IF n = 0 THEN <<>> ELSE IF l[n].rank = q THEN Append(g[n - 1], l[n]) ELSE g[n - 1]
    BY <1>3
  <2> HIDE DEF Good
  <2>2. 0 \in 0 .. Len(l) /\ \A n \in Nat : n + 1 <= Len(l) => n + 1 \in 0 .. Len(l) /\ n + 1 # 0 /\ (n + 1) - 1 = n
    BY <1>1
  <2> QED BY <2>1, <2>2
<1> HIDE DEF Good
<1> DEFINE Fine(n, p) ==
             /\ \A a \in 1 .. Len(p) : p[a] \in 1 .. n /\ l[p[a]].rank = q
             /\ \A a, b \in 1 .. Len(p) : p[a] = p[b] => a = b
             /\ \A m \in 1 .. n : l[m].rank = q => \E a \in 1 .. Len(p) : p[a] = m
             /\ g[n] = [a \in 1 .. Len(p) |-> l[p[a]]]
           U == {n \in Nat : n <= Len(l) => \E p \in Seq(Nat) : Fine(n, p)}
<1>4. 0 \in U
  <2>2. <<>> \in Seq(Nat) /\ Fine(0, <<>>)
    BY <1>7
  <2> QED BY <2>2
<1>5. ASSUME NEW n \in Nat, n \in U PROVE n + 1 \in U
  <2> SUFFICES ASSUME n + 1 <= Len(l) PROVE \E p \in Seq(Nat) : Fine(n + 1, p)
    <3> HIDE DEF Fine
    <3> QED OBVIOUS
  <2>1. PICK p \in Seq(Nat) : Fine(n, p)
    <3> HIDE DEF Fine
    <3> QED BY <1>1, <1>5
  <2>2. g[n + 1] = IF l[n + 1].rank = q THEN Append(g[n], l[n + 1]) ELSE g[n]
    BY <1>7
  <2>3. CASE l[n + 1].rank # q
    <3>1. \A m \in 1 .. n + 1 : m \in 1 .. n \/ m = n + 1
      OBVIOUS
    <3>2. \A a \in 1 .. Len(p) : p[a] \in 1 .. n + 1
      BY <2>1
    <3>3. Fine(n + 1, p)
      BY <2>1, <2>2, <2>3, <3>1, <3>2
    <3> QED BY <3>3
  <2>4. CASE l[n + 1].rank = q
    <3> DEFINE e == Append(p, n + 1)
    <3>1. /\ e \in Seq(Nat) /\ Len(p) \in Nat /\ Len(e) = Len(p) + 1 /\ e[Len(p) + 1] = n + 1
          /\ \A a \in 1 .. Len(p) : e[a] = p[a]
      BY AppendProperties, LenProperties
    <3> HIDE DEF e
    <3>9. Len(p) \in Nat /\ Len(e) = Len(p) + 1
      BY <3>1
    <3>2. \A a \in 1 .. Len(e) : a \in 1 .. Len(p) \/ a = Len(p) + 1
      BY <3>9
    <3>3. \A a \in 1 .. Len(p) : p[a] \in 1 .. n /\ p[a] # n + 1 /\ p[a] \in 1 .. n + 1 /\ l[p[a]].rank = q /\ a \in 1 .. Len(e)
      <4> SUFFICES ASSUME NEW a \in 1 .. Len(p)
                   PROVE  p[a] \in 1 .. n /\ p[a] # n + 1 /\ p[a] \in 1 .. n + 1 /\ l[p[a]].rank = q /\ a \in 1 .. Len(e)
        OBVIOUS
      <4>1. p[a] \in 1 .. n /\ l[p[a]].rank = q
        BY <2>1
      <4>2. p[a] # n + 1 /\ p[a] \in 1 .. n + 1
        BY <4>1
      <4>3. a \in 1 .. Len(e)
        BY <3>9
      <4> QED BY <4>1, <4>2, <4>3
    <3>4. \A a \in 1 .. Len(e) : e[a] \in 1 .. n + 1 /\ l[e[a]].rank = q
      <4>1. ASSUME NEW a \in 1 .. Len(e) PROVE e[a] \in 1 .. n + 1 /\ l[e[a]].rank = q
        <5>1. CASE a = Len(p) + 1
          BY <2>4, <3>1, <5>1
        <5>2. CASE a \in 1 .. Len(p)
          BY <3>1, <3>3, <5>2
        <5> QED BY <3>2, <5>1, <5>2
      <4> QED BY <4>1
    <3>5. \A a, b \in 1 .. Len(e) : e[a] = e[b] => a = b
      <4> SUFFICES ASSUME NEW a \in 1 .. Len(e), NEW b \in 1 .. Len(e), e[a] = e[b] PROVE a = b
        OBVIOUS
      <4>1. CASE a \in 1 .. Len(p) /\ b \in 1 .. Len(p)
        <5>1. e[a] = p[a] /\ e[b] = p[b]
          BY <3>1, <4>1
        <5>2. p[a] = p[b] => a = b
          BY <2>1, <4>1
        <5> QED BY <5>1, <5>2
      <4>2. CASE a \in 1 .. Len(p) /\ b = Len(p) + 1
        BY <3>1, <3>3, <4>2
      <4>3. CASE a = Len(p) + 1 /\ b \in 1 .. Len(p)
        BY <3>1, <3>3, <4>3
      <4> QED BY <3>2, <4>1, <4>2, <4>3
    <3>6. ASSUME NEW m \in 1 .. n + 1, l[m].rank = q PROVE \E a \in 1 .. Len(e) : e[a] = m
      <4>1. CASE m = n + 1
        BY <3>1, <4>1
      <4>2. CASE m # n + 1
        <5>1. m \in 1 .. n
          BY <4>2
        <5>2. PICK a \in 1 .. Len(p) : p[a] = m
          BY <2>1, <3>6, <5>1
        <5> QED BY <3>1, <3>3, <5>2
      <4> QED BY <4>1, <4>2
    <3>7. g[n + 1] = [a \in 1 .. Len(e) |-> l[e[a]]]
      <4>1. g[n] = [a \in 1 .. Len(p) |-> l[p[a]]]
        BY <2>1
      <4>2. \A m \in 1 .. n + 1 : l[m] \in X
        BY <1>1, ElementOfSeq
      <4>3. g[n] \in Seq(X) /\ Len(g[n]) = Len(p)
        BY <3>1, <3>3, <4>1, <4>2
      <4>4. /\ g[n + 1] \in Seq(X) /\ Len(g[n + 1]) = Len(p) + 1 /\ g[n + 1][Len(p) + 1] = l[n + 1]
            /\ \A a \in 1 .. Len(p) : g[n + 1][a] = g[n][a]
        BY <2>2, <2>4, <4>2, <4>3, AppendProperties
      <4>5. \A a \in 1 .. Len(e) : g[n + 1][a] = l[e[a]]
        <5>1. \A a \in 1 .. Len(p) : g[n][a] = l[p[a]]
          BY <4>1
        <5>2. ASSUME NEW a \in 1 .. Len(e) PROVE g[n + 1][a] = l[e[a]]
          <6>1. CASE a = Len(p) + 1
            BY <3>1, <4>4, <6>1
          <6>2. CASE a \in 1 .. Len(p)
            BY <3>1, <4>4, <5>1, <6>2
          <6> QED BY <3>2, <6>1, <6>2
        <5> QED BY <5>2
      <4>6. g[n + 1] = [a \in 1 .. Len(g[n + 1]) |-> g[n + 1][a]]
        BY <4>4, LenProperties
      <4> QED BY <3>1, <4>4, <4>5, <4>6
    <3>8. Fine(n + 1, e)
      BY <3>4, <3>5, <3>6, <3>7
    <3> QED BY <3>1, <3>8
  <2> QED BY <2>3, <2>4
<1>6. PICK p \in Seq(Nat) : Fine(Len(l), p)
  <2>1. Len(l) \in U
    <3> HIDE DEF U
    <3> QED BY <1>1, <1>4, <1>5, Induction
  <2> HIDE DEF Fine
  <2> QED BY <1>1, <2>1
<1> QED BY <1>1, <1>3, <1>6 DEF Picked, Places

\* The lists are what the assumption says.
LEMMA ListIs ==
  ASSUME NEW j \in DOMAIN Jobs, NEW c \in DOMAIN Jobs[j].list, NEW r \in A!Ranks
  PROVE  Comm(j, c).list[r] \in Seq(Elements) /\ Comm(j, c).kind \in {"scatter", "gather"}
<1>1. \A i \in DOMAIN Jobs : \A n \in DOMAIN Jobs[i].list :
        Jobs[i].list[n].kind \in {"scatter", "gather"} /\ Jobs[i].list[n].list \in [A!Ranks -> Seq(Elements)]
  BY ListsAssumption DEF A!AllToAllAssumption, Elements
<1>2. Comm(j, c).kind \in {"scatter", "gather"} /\ Comm(j, c).list \in [A!Ranks -> Seq(Elements)]
  BY <1>1 DEF Comm
<1> QED BY <1>2

\* The fields of those elements.
LEMMA FieldsAre ==
  ASSUME NEW l \in Seq(Elements), NEW q \in A!Ranks, NEW p \in Seq(Nat), Picked(l, q, p)
  PROVE  /\ A!Fields(l, "loc")[q] = [a \in 1 .. Len(p) |-> l[p[a]].loc]
         /\ A!Fields(l, "dest")[q] = [a \in 1 .. Len(p) |-> l[p[a]].dest]
         /\ \A f \in {"loc", "dest"} : A!Fields(l, f)[q] \in Seq(Int) /\ Len(A!Fields(l, f)[q]) = Len(p)
<1>1. A!Of(l, q) = [a \in 1 .. Len(p) |-> l[p[a]]] /\ Len(p) \in Nat /\ \A a \in 1 .. Len(p) : l[p[a]] \in Elements
  BY ElementOfSeq, LenProperties DEF Picked, Places
<1>2. Len(A!Of(l, q)) = Len(p) /\ \A a \in 1 .. Len(p) : A!Of(l, q)[a] = l[p[a]]
  BY <1>1
<1>3. /\ A!Fields(l, "loc")[q] = [a \in 1 .. Len(p) |-> l[p[a]].loc]
      /\ A!Fields(l, "dest")[q] = [a \in 1 .. Len(p) |-> l[p[a]].dest]
  <2>1. \A f : A!Fields(l, f)[q] = [a \in 1 .. Len(p) |-> A!Of(l, q)[a][f]]
    BY <1>2 DEF A!Fields
  <2>2. \A a \in 1 .. Len(p) : A!Of(l, q)[a]["loc"] = l[p[a]].loc /\ A!Of(l, q)[a]["dest"] = l[p[a]].dest
    BY <1>2
  <2>3. A!Fields(l, "loc")[q] = [a \in 1 .. Len(p) |-> A!Of(l, q)[a]["loc"]]
    BY <2>1
  <2>4. A!Fields(l, "dest")[q] = [a \in 1 .. Len(p) |-> A!Of(l, q)[a]["dest"]]
    BY <2>1
  <2> QED BY <2>2, <2>3, <2>4
<1>4. \A a \in 1 .. Len(p) : l[p[a]].loc \in Int /\ l[p[a]].dest \in Int
  BY <1>1 DEF Elements
<1>5. A!Fields(l, "loc")[q] \in [1 .. Len(p) -> Int] /\ A!Fields(l, "dest")[q] \in [1 .. Len(p) -> Int]
  BY <1>3, <1>4
<1>6. \A g \in [1 .. Len(p) -> Int] : g \in Seq(Int) /\ Len(g) = Len(p)
  <2>1. PICK n \in Nat : n = Len(p)
    BY <1>1
  <2>2. \A g \in [1 .. n -> Int] : g \in Seq(Int) /\ Len(g) = n
    OBVIOUS
  <2> QED BY <2>1, <2>2
<1> QED BY <1>3, <1>5, <1>6

\* The places, in the list that tells, of the elements that go from s to d.
At(j, c, s, d) == CHOOSE p \in Seq(Nat) : Picked(Comm(j, c).list[Teller(j, c, s, d)], Hearer(j, c, s, d), p)

\* What goes from s to d is what the list says, in the same order on both sides.
LEMMA BetweenIs ==
  ASSUME NEW j \in DOMAIN Jobs, NEW c \in DOMAIN Jobs[j].list, NEW s \in A!Ranks, NEW d \in A!Ranks
  PROVE  /\ \A f \in {"loc", "dest"} : Between(j, c, s, d, f) \in Seq(Int) /\ Len(Between(j, c, s, d, f)) = Num(j, c, s, d)
         /\ Num(j, c, s, d) \in Nat
         /\ Places(Comm(j, c).list[Teller(j, c, s, d)], Hearer(j, c, s, d), At(j, c, s, d))
         /\ Len(At(j, c, s, d)) = Num(j, c, s, d)
         /\ \A a \in 1 .. Num(j, c, s, d) :
              A!Move(Comm(j, c), Teller(j, c, s, d), At(j, c, s, d)[a])
                = [from |-> s, loc |-> Between(j, c, s, d, "loc")[a], to |-> d, dest |-> Between(j, c, s, d, "dest")[a]]
<1> DEFINE r == Teller(j, c, s, d)
           q == Hearer(j, c, s, d)
           l == Comm(j, c).list[r]
           p == At(j, c, s, d)
<1>1. r \in A!Ranks /\ q \in A!Ranks
  BY DEF Teller, Hearer
<1>2. l \in Seq(Elements) /\ Comm(j, c).kind \in {"scatter", "gather"}
  BY <1>1, ListIs
<1>3. p \in Seq(Nat) /\ Picked(l, q, p)
  <2>1. \E x \in Seq(Nat) : Picked(l, q, x)
    BY <1>2, OfIs
  <2> QED BY <2>1 DEF At
<1>4. /\ Between(j, c, s, d, "loc") = [a \in 1 .. Len(p) |-> l[p[a]].loc]
      /\ Between(j, c, s, d, "dest") = [a \in 1 .. Len(p) |-> l[p[a]].dest]
      /\ \A f \in {"loc", "dest"} : Between(j, c, s, d, f) \in Seq(Int) /\ Len(Between(j, c, s, d, f)) = Len(p)
  <2> HIDE DEF p
  <2> QED BY <1>1, <1>2, <1>3, FieldsAre DEF Between
<1>5. Num(j, c, s, d) = Len(p) /\ Len(p) \in Nat
  BY <1>3, <1>4, LenProperties DEF Num
<1>6. ASSUME NEW a \in 1 .. Len(p)
      PROVE A!Move(Comm(j, c), r, p[a])
              = [from |-> s, loc |-> Between(j, c, s, d, "loc")[a], to |-> d, dest |-> Between(j, c, s, d, "dest")[a]]
  <2>1. l[p[a]].rank = q
    BY <1>3 DEF Picked, Places
  <2>2. Between(j, c, s, d, "loc")[a] = l[p[a]].loc /\ Between(j, c, s, d, "dest")[a] = l[p[a]].dest
    BY <1>4
  <2> HIDE DEF p
  <2>3. CASE Comm(j, c).kind = "scatter"
    BY <2>1, <2>2, <2>3 DEF A!Move, Teller, Hearer
  <2>4. CASE Comm(j, c).kind # "scatter"
    BY <2>1, <2>2, <2>4 DEF A!Move, Teller, Hearer
  <2> QED BY <2>3, <2>4
<1> QED BY <1>3, <1>4, <1>5, <1>6 DEF Picked

MoveOf(j, c, s, d, a) ==
  [from |-> s, loc |-> Between(j, c, s, d, "loc")[a], to |-> d, dest |-> Between(j, c, s, d, "dest")[a]]

\* The moves of a list are those of its elements, between two ranks after two ranks.
LEMMA MovesAre ==
  ASSUME NEW j \in DOMAIN Jobs, NEW c \in DOMAIN Jobs[j].list, NEW d \in A!Ranks
  PROVE  \A m : m \in A!Moves(Comm(j, c)) /\ m.to = d
                  <=> \E s \in A!Ranks : \E a \in 1 .. Num(j, c, s, d) : m = MoveOf(j, c, s, d, a)
<1>1. ASSUME NEW s \in A!Ranks, NEW a \in 1 .. Num(j, c, s, d)
      PROVE  MoveOf(j, c, s, d, a) \in A!Moves(Comm(j, c)) /\ MoveOf(j, c, s, d, a).to = d
  <2>1. Teller(j, c, s, d) \in A!Ranks
    BY DEF Teller
  <2>2. At(j, c, s, d)[a] \in DOMAIN Comm(j, c).list[Teller(j, c, s, d)]
    BY BetweenIs DEF Places
  <2>3. MoveOf(j, c, s, d, a) = A!Move(Comm(j, c), Teller(j, c, s, d), At(j, c, s, d)[a])
    BY BetweenIs DEF MoveOf
  <2>4. MoveOf(j, c, s, d, a).to = d
    BY DEF MoveOf
  <2> QED BY <2>1, <2>2, <2>3, <2>4 DEF A!Moves
<1>2. ASSUME NEW m, m \in A!Moves(Comm(j, c)), m.to = d
      PROVE  \E s \in A!Ranks : \E a \in 1 .. Num(j, c, s, d) : m = MoveOf(j, c, s, d, a)
  <2>0. PICK r \in A!Ranks : \E n \in DOMAIN Comm(j, c).list[r] : m = A!Move(Comm(j, c), r, n)
    BY <1>2 DEF A!Moves
  <2>1. PICK n \in DOMAIN Comm(j, c).list[r] : m = A!Move(Comm(j, c), r, n)
    BY <2>0
  <2>2. /\ DOMAIN Comm(j, c).list[r] = 1 .. Len(Comm(j, c).list[r]) /\ Comm(j, c).list[r][n] \in Elements
        /\ Comm(j, c).kind \in {"scatter", "gather"}
    BY ListIs, ElementOfSeq, LenProperties
  <2>3. Comm(j, c).list[r][n].rank \in A!Ranks
    BY <2>2 DEF Elements
  <2> DEFINE s == IF Comm(j, c).kind = "scatter" THEN r ELSE Comm(j, c).list[r][n].rank
  <2>4. s \in A!Ranks /\ Teller(j, c, s, d) = r /\ Hearer(j, c, s, d) = Comm(j, c).list[r][n].rank
    <3>1. CASE Comm(j, c).kind = "scatter"
      BY <1>2, <2>1, <2>3, <3>1 DEF A!Move, Teller, Hearer
    <3>2. CASE Comm(j, c).kind # "scatter"
      BY <1>2, <2>1, <2>3, <3>2 DEF A!Move, Teller, Hearer
    <3> QED BY <3>1, <3>2
  <2> HIDE DEF s
  <2>7. /\ Places(Comm(j, c).list[r], Hearer(j, c, s, d), At(j, c, s, d))
        /\ Len(At(j, c, s, d)) = Num(j, c, s, d)
    BY <2>4, BetweenIs
  <2>5. PICK a \in 1 .. Num(j, c, s, d) : At(j, c, s, d)[a] = n
    BY <2>4, <2>7 DEF Places
  <2>6. m = MoveOf(j, c, s, d, a)
    <3>1. A!Move(Comm(j, c), Teller(j, c, s, d), At(j, c, s, d)[a]) = MoveOf(j, c, s, d, a)
      <4>1. \A b \in 1 .. Num(j, c, s, d) :
              A!Move(Comm(j, c), Teller(j, c, s, d), At(j, c, s, d)[b])
                = [from |-> s, loc |-> Between(j, c, s, d, "loc")[b], to |-> d, dest |-> Between(j, c, s, d, "dest")[b]]
        BY <2>4, BetweenIs
      <4> QED BY <4>1 DEF MoveOf
    <3> QED BY <2>1, <2>4, <2>5, <3>1
  <2> QED BY <2>4, <2>6
<1> QED BY <1>1, <1>2

\* The elements that come to a rank go to places of their own.
LEMMA OnePlace ==
  ASSUME NEW j \in DOMAIN Jobs, NEW c \in DOMAIN Jobs[j].list, NEW d \in A!Ranks,
         NEW s \in A!Ranks, NEW a \in 1 .. Num(j, c, s, d), NEW t \in A!Ranks, NEW b \in 1 .. Num(j, c, t, d),
         Between(j, c, s, d, "dest")[a] = Between(j, c, t, d, "dest")[b]
  PROVE  s = t /\ a = b
<1> DEFINE m == MoveOf(j, c, s, d, a)
           n == MoveOf(j, c, t, d, b)
           r == Teller(j, c, s, d)
           q == Teller(j, c, t, d)
           x == At(j, c, s, d)[a]
           y == At(j, c, t, d)[b]
<1>1. r \in A!Ranks /\ q \in A!Ranks
  BY DEF Teller
<1>2. x \in DOMAIN Comm(j, c).list[r] /\ y \in DOMAIN Comm(j, c).list[q]
  BY BetweenIs DEF Places
<1>3. m = A!Move(Comm(j, c), r, x) /\ n = A!Move(Comm(j, c), q, y)
  BY BetweenIs DEF MoveOf
<1>4. m.to = n.to /\ m.dest = n.dest /\ m.from = s /\ n.from = t
  BY DEF MoveOf
<1>5. \A v, w \in A!Ranks : \A h \in DOMAIN Comm(j, c).list[v], i \in DOMAIN Comm(j, c).list[w] :
        LET o == A!Move(Comm(j, c), v, h)
            p == A!Move(Comm(j, c), w, i)
        IN  o.to = p.to /\ o.dest = p.dest => v = w /\ h = i
  BY ListsAssumption DEF A!JobsAssumption, Comm
<1>6. ASSUME s = t, x = y PROVE a = b
  <2>1. Places(Comm(j, c).list[r], Hearer(j, c, s, d), At(j, c, s, d)) /\ Len(At(j, c, s, d)) = Num(j, c, s, d)
    BY BetweenIs
  <2>2. At(j, c, s, d)[a] = At(j, c, s, d)[b] /\ b \in 1 .. Num(j, c, s, d)
    BY <1>6
  <2> QED BY <2>1, <2>2 DEF Places
<1> HIDE DEF m, n, r, q, x, y
<1>7. r = q /\ x = y
  BY <1>1, <1>2, <1>3, <1>4, <1>5
<1>8. s = t
  BY <1>3, <1>4, <1>7
<1> QED BY <1>6, <1>7, <1>8

\* The elements of a vector that go from s to r.
Carried(j, c, d, s, r) == [a \in 1 .. Num(j, c, s, r) |-> A!ElementOf(d[s], Between(j, c, s, r, "loc")[a])]

\* What a rank unpacks, if it has got of each rank what the rank had at the places it was
\* told, is the vector as the list means it.
LEMMA UnpackedIs ==
  ASSUME NEW j \in DOMAIN Jobs, NEW c \in DOMAIN Jobs[j].list, NEW r \in A!Ranks, NEW d, NEW block,
         A!Scatter(r) <=> Comm(j, c).kind = "scatter", fr[r] = FrOf(j, c, r), data[r] = d[r],
         \A q \in A!Ranks : Num(j, c, q, r) # 0 => block[q] = Carried(j, c, d, q, r)
  PROVE  A!Unpacked(r, block) = A!Moved(Comm(j, c), d)[r]
<1> DEFINE P == A!Placed(fr[r])
           Place(x) == fr[r][x[1]][x[2]]
           coming == {m \in A!Moves(Comm(j, c)) : m.to = r}
           kept == IF A!Scatter(r) THEN {} ELSE DOMAIN data[r]
           X(el) == CHOOSE x \in P : Place(x) = el
           M(el) == CHOOSE m \in coming : m.dest = el
<1>1. \A q \in A!Ranks : /\ Between(j, c, q, r, "dest") \in Seq(Int) /\ Len(Between(j, c, q, r, "dest")) = Num(j, c, q, r)
                         /\ Num(j, c, q, r) \in Nat
  BY BetweenIs
<1>2. DOMAIN fr[r] = A!Ranks /\ \A q \in A!Ranks : fr[r][q] = Between(j, c, q, r, "dest") /\ DOMAIN fr[r][q] = 1 .. Num(j, c, q, r)
  BY <1>1, LenProperties DEF FrOf
<1>3. \A x : x \in P <=> \E s \in A!Ranks : \E a \in 1 .. Num(j, c, s, r) : x = <<s, a>>
  <2>1. P = UNION {{<<q, i>> : i \in DOMAIN fr[r][q]} : q \in DOMAIN fr[r]}
    BY DEF A!Placed
  <2> HIDE DEF P
  <2>2. \A x : x \in P <=> \E q \in DOMAIN fr[r] : \E i \in DOMAIN fr[r][q] : x = <<q, i>>
    BY <2>1
  <2> QED BY <1>2, <2>2
<1>4. \A s \in A!Ranks : \A a \in 1 .. Num(j, c, s, r) :
        /\ <<s, a>> \in P /\ Place(<<s, a>>) = Between(j, c, s, r, "dest")[a]
        /\ MoveOf(j, c, s, r, a) \in coming /\ MoveOf(j, c, s, r, a).dest = Between(j, c, s, r, "dest")[a]
  BY <1>2, <1>3, MovesAre DEF MoveOf
<1>5. \A m \in coming : \E s \in A!Ranks : \E a \in 1 .. Num(j, c, s, r) : m = MoveOf(j, c, s, r, a)
  BY MovesAre
<1>6. {Place(x) : x \in P} = {m.dest : m \in coming}
  <2> HIDE DEF P, coming, Place
  <2>1. ASSUME NEW x \in P PROVE \E m \in coming : m.dest = Place(x)
    BY <1>3, <1>4
  <2>2. ASSUME NEW m \in coming PROVE \E x \in P : Place(x) = m.dest
    BY <1>4, <1>5
  <2> QED BY <2>1, <2>2
<1>7. kept = IF Comm(j, c).kind = "scatter" THEN {} ELSE DOMAIN d[r]
  OBVIOUS
<1>8. ASSUME NEW el, \E x \in P : Place(x) = el, \E m \in coming : m.dest = el
      PROVE  block[X(el)[1]][X(el)[2]] = A!ElementOf(d[M(el).from], M(el).loc)
  <2>1. X(el) \in P /\ Place(X(el)) = el
    <3> HIDE DEF P, Place
    <3> QED BY <1>8
  <2>2. M(el) \in coming /\ M(el).dest = el
    <3> HIDE DEF coming
    <3> QED BY <1>8
  <2> HIDE DEF X, M
  <2>3. PICK s \in A!Ranks : \E a \in 1 .. Num(j, c, s, r) : X(el) = <<s, a>>
    BY <1>3, <2>1
  <2>4. PICK a \in 1 .. Num(j, c, s, r) : X(el) = <<s, a>>
    BY <2>3
  <2>5. PICK t \in A!Ranks : \E b \in 1 .. Num(j, c, t, r) : M(el) = MoveOf(j, c, t, r, b)
    BY <1>5, <2>2
  <2>6. PICK b \in 1 .. Num(j, c, t, r) : M(el) = MoveOf(j, c, t, r, b)
    BY <2>5
  <2> HIDE DEF P, coming, Place
  <2>7. Between(j, c, s, r, "dest")[a] = Between(j, c, t, r, "dest")[b]
    BY <1>4, <2>1, <2>2, <2>4, <2>6
  <2>8. s = t /\ a = b
    BY <2>7, OnePlace
  <2>9. Num(j, c, s, r) # 0
    BY <1>1
  <2>10. block[s][a] = A!ElementOf(d[s], Between(j, c, s, r, "loc")[a])
    BY <2>9 DEF Carried
  <2>11. M(el).from = s /\ M(el).loc = Between(j, c, s, r, "loc")[a]
    BY <2>6, <2>8 DEF MoveOf
  <2>12. X(el)[1] = s /\ X(el)[2] = a
    BY <2>4
  <2> QED BY <2>10, <2>11, <2>12
<1>9. A!Unpacked(r, block)
        = [el \in kept \union {Place(x) : x \in P} |->
             IF \E x \in P : Place(x) = el THEN block[X(el)[1]][X(el)[2]] ELSE data[r][el]]
  BY DEF A!Unpacked
<1>10. A!Moved(Comm(j, c), d)[r]
        = [el \in {m.dest : m \in coming} \union (IF Comm(j, c).kind = "scatter" THEN {} ELSE DOMAIN d[r]) |->
             IF \E m \in coming : m.dest = el THEN A!ElementOf(d[M(el).from], M(el).loc) ELSE d[r][el]]
  BY DEF A!Moved
<1>11. \A el : (\E x \in P : Place(x) = el) <=> \E m \in coming : m.dest = el
  <2> HIDE DEF P, coming, Place
  <2>1. \A el : el \in {Place(x) : x \in P} <=> \E x \in P : Place(x) = el
    OBVIOUS
  <2>2. \A el : el \in {m.dest : m \in coming} <=> \E m \in coming : m.dest = el
    OBVIOUS
  <2> QED BY <1>6, <2>1, <2>2
<1> DEFINE F(el) == IF \E x \in P : Place(x) = el THEN block[X(el)[1]][X(el)[2]] ELSE data[r][el]
           G(el) == IF \E m \in coming : m.dest = el THEN A!ElementOf(d[M(el).from], M(el).loc) ELSE d[r][el]
<1>12. \A el : F(el) = G(el)
  <2> HIDE DEF P, coming, Place, X, M
  <2> QED BY <1>8, <1>11
<1>13. A!Unpacked(r, block) = [el \in kept \union {Place(x) : x \in P} |-> F(el)]
  BY <1>9
<1>14. A!Moved(Comm(j, c), d)[r]
         = [el \in {m.dest : m \in coming} \union (IF Comm(j, c).kind = "scatter" THEN {} ELSE DOMAIN d[r]) |-> G(el)]
  BY <1>10
<1> HIDE DEF P, coming, Place, X, M, kept, F, G
<1> QED BY <1>6, <1>7, <1>12, <1>13, <1>14

-----------------------------------------------------------------------------
\* The ring.

\* How far r is ahead of s.
Dist(s, r) == (r - s) % A!nranks

\* A remainder, for what is less than twice around.
LEMMA Remainder ==
  ASSUME NEW n \in Nat \ {0}, NEW x \in Int
  PROVE  /\ 0 <= x /\ x < n => x % n = x
         /\ 0 - n <= x /\ x < 0 => x % n = x + n
         /\ n <= x /\ x < 2 * n => x % n = x - n
<1>1. 0 <= x /\ x < n => x % n = x
  OBVIOUS
<1>2. 0 - n <= x /\ x < 0 => x % n = x + n
  OBVIOUS
<1>3. n <= x /\ x < 2 * n => x % n = x - n
  OBVIOUS
<1> QED BY <1>1, <1>2, <1>3

\* The ranks are numbered from 0, and a distance is again such a number.
LEMMA DistIs ==
  /\ A!nranks \in Nat \ {0} /\ A!Ranks = 0 .. A!nranks - 1
  /\ \A s, r \in A!Ranks : Dist(s, r) \in A!Ranks
  /\ \A s, r \in A!Ranks : (s + Dist(s, r)) % A!nranks = r /\ (r - Dist(s, r)) % A!nranks = s
  /\ \A r, d \in A!Ranks :
       /\ (r + d) % A!nranks \in A!Ranks /\ Dist(r, (r + d) % A!nranks) = d
       /\ (r - d) % A!nranks \in A!Ranks /\ Dist((r - d) % A!nranks, r) = d
<1>0. PICK n \in Nat \ {0} : n = A!nranks
  BY ListsAssumption
<1>1. n \in Nat \ {0} /\ A!Ranks = 0 .. n - 1
  BY <1>0 DEF A!Ranks
<1>2. \A x \in Int : /\ 0 <= x /\ x < n => x % n = x
                     /\ 0 - n <= x /\ x < 0 => x % n = x + n
                     /\ n <= x /\ x < 2 * n => x % n = x - n
  BY <1>1, Remainder
<1>3. ASSUME NEW s \in 0 .. n - 1, NEW r \in 0 .. n - 1
      PROVE  /\ (r - s) % n \in 0 .. n - 1
             /\ (s + ((r - s) % n)) % n = r /\ (r - ((r - s) % n)) % n = s
  <2>1. CASE s <= r
    <3>1. (r - s) % n = r - s
      BY <1>1, <1>2, <2>1
    <3>2. s + (r - s) = r /\ r - (r - s) = s /\ r % n = r /\ s % n = s
      BY <1>1, <1>2
    <3> QED BY <1>1, <2>1, <3>1, <3>2
  <2>2. CASE r < s
    <3>1. (r - s) % n = r - s + n
      BY <1>1, <1>2, <2>2
    <3>2. (r + n) % n = r /\ (s - n) % n = s
      BY <1>1, <1>2
    <3>3. s + (r - s + n) = r + n /\ r - (r - s + n) = s - n
      BY <1>1
    <3> QED BY <1>1, <2>2, <3>1, <3>2, <3>3
  <2> QED BY <1>1, <2>1, <2>2
<1>4. ASSUME NEW r \in 0 .. n - 1, NEW d \in 0 .. n - 1
      PROVE  (r + d) % n \in 0 .. n - 1 /\ (((r + d) % n) - r) % n = d
  <2>1. CASE r + d < n
    <3>1. (r + d) % n = r + d
      BY <1>1, <1>2, <2>1
    <3>2. (r + d) - r = d /\ d % n = d
      BY <1>1, <1>2
    <3> QED BY <1>1, <2>1, <3>1, <3>2
  <2>2. CASE n <= r + d
    <3>1. (r + d) % n = r + d - n
      BY <1>1, <1>2, <2>2
    <3>2. (r + d - n) - r = d - n /\ (d - n) % n = d
      BY <1>1, <1>2
    <3> QED BY <1>1, <2>2, <3>1, <3>2
  <2> QED BY <1>1, <2>1, <2>2
<1>5. ASSUME NEW r \in 0 .. n - 1, NEW d \in 0 .. n - 1
      PROVE  (r - d) % n \in 0 .. n - 1 /\ (r - ((r - d) % n)) % n = d
  <2>1. CASE d <= r
    <3>1. (r - d) % n = r - d
      BY <1>1, <1>2, <2>1
    <3>2. r - (r - d) = d /\ d % n = d
      BY <1>1, <1>2
    <3> QED BY <1>1, <2>1, <3>1, <3>2
  <2>2. CASE r < d
    <3>1. (r - d) % n = r - d + n
      BY <1>1, <1>2, <2>2
    <3>2. r - (r - d + n) = d - n /\ (d - n) % n = d
      BY <1>1, <1>2
    <3> QED BY <1>1, <2>2, <3>1, <3>2
  <2> QED BY <1>1, <2>1, <2>2
<1>6. \A s, r \in A!Ranks : Dist(s, r) = (r - s) % n
  BY <1>0 DEF Dist
<1>7. \A s, r \in A!Ranks : /\ Dist(s, r) \in A!Ranks
                            /\ (s + Dist(s, r)) % n = r /\ (r - Dist(s, r)) % n = s
  <2> SUFFICES ASSUME NEW s \in A!Ranks, NEW r \in A!Ranks
               PROVE  /\ Dist(s, r) \in A!Ranks
                      /\ (s + Dist(s, r)) % n = r /\ (r - Dist(s, r)) % n = s
    OBVIOUS
  <2>1. s \in 0 .. n - 1 /\ r \in 0 .. n - 1 /\ Dist(s, r) = (r - s) % n
    BY <1>1, <1>6
  <2>2. (r - s) % n \in 0 .. n - 1 /\ (s + ((r - s) % n)) % n = r /\ (r - ((r - s) % n)) % n = s
    BY <1>3, <2>1
  <2>3. Dist(s, r) \in A!Ranks
    BY <1>1, <2>1, <2>2
  <2>4. (s + Dist(s, r)) % n = r
    BY <2>1, <2>2
  <2>5. (r - Dist(s, r)) % n = s
    BY <2>1, <2>2
  <2> QED BY <2>3, <2>4, <2>5
<1>8. \A r, d \in A!Ranks : /\ (r + d) % n \in A!Ranks /\ Dist(r, (r + d) % n) = d
                            /\ (r - d) % n \in A!Ranks /\ Dist((r - d) % n, r) = d
  <2> SUFFICES ASSUME NEW r \in A!Ranks, NEW d \in A!Ranks
               PROVE  /\ (r + d) % n \in A!Ranks /\ Dist(r, (r + d) % n) = d
                      /\ (r - d) % n \in A!Ranks /\ Dist((r - d) % n, r) = d
    OBVIOUS
  <2>1. r \in 0 .. n - 1 /\ d \in 0 .. n - 1
    BY <1>1
  <2>2. (r + d) % n \in A!Ranks /\ (r - d) % n \in A!Ranks
    BY <1>1, <1>4, <1>5, <2>1
  <2>3. Dist(r, (r + d) % n) = (((r + d) % n) - r) % n /\ Dist((r - d) % n, r) = (r - ((r - d) % n)) % n
    BY <1>6, <2>2
  <2> QED BY <1>4, <1>5, <2>1, <2>2, <2>3
<1>9. A!nranks \in Nat \ {0} /\ A!Ranks = 0 .. A!nranks - 1
  BY <1>0, <1>1
<1>10. \A s, r \in A!Ranks : /\ Dist(s, r) \in A!Ranks
                             /\ (s + Dist(s, r)) % A!nranks = r /\ (r - Dist(s, r)) % A!nranks = s
  BY <1>0, <1>7
<1>11. \A r, d \in A!Ranks :
         /\ (r + d) % A!nranks \in A!Ranks /\ Dist(r, (r + d) % A!nranks) = d
         /\ (r - d) % A!nranks \in A!Ranks /\ Dist((r - d) % A!nranks, r) = d
  BY <1>0, <1>8
<1>12. \A s, r \in A!Ranks : Dist(s, r) \in A!Ranks
  BY <1>10
<1>13. \A s, r \in A!Ranks : (s + Dist(s, r)) % A!nranks = r /\ (r - Dist(s, r)) % A!nranks = s
  BY <1>10
<1> QED BY <1>9, <1>11, <1>12, <1>13, Zenon

-----------------------------------------------------------------------------
\* The invariant.

\* The rounds in which a communicator is made.
New(j, n) == \A i \in 1 .. n - 1 : Prog(j)[i] # Prog(j)[n]
Made(j) == {n \in 1 .. Len(Prog(j)) : New(j, n)}
Had(j, n) == IF n = 1 THEN Jobs[j].start ELSE Jobs[j].want[n - 1]

\* Of the numbers sent around the ring, one in each of those rounds: up to which a rank in
\* round n has sent to one that is x ahead, and has got from one that is x behind.
RingSent(n, st, d, x) ==
  IF st \in {"explain", "learn", "send", "receive"} \/ (st = "ringing" /\ x <= d) \/ (st = "ring" /\ x < d)
  THEN n + 1 ELSE n
RingGot(n, st, d, x) ==
  IF st \in {"explain", "learn", "send", "receive"} \/ (st \in {"ring", "ringing"} /\ x < d) THEN n + 1 ELSE n
RingMessages(j, s, r) == [n \in Made(j) |-> Len(Told(j, Prog(j)[n], s, r))]

\* Of the other messages, those of round n are 2 * n, with places, and 2 * n + 1, with elements.
CartSent(n, st) ==
  IF st = "receive" THEN 2 * n + 2 ELSE IF st \in {"learn", "send"} THEN 2 * n + 1 ELSE 2 * n
CartGot(n, st) == IF st \in {"send", "receive"} THEN 2 * n + 1 ELSE 2 * n
Explained(j, s, r) == {n \in Made(j) : Told(j, Prog(j)[n], s, r) # <<>>}
Moving(j, s, r) == {n \in 1 .. Len(Prog(j)) : Num(j, Prog(j)[n], s, r) # 0}
CartNumbers(j, s, r) == {2 * n : n \in Explained(j, s, r)} \union {2 * n + 1 : n \in Moving(j, s, r)}
Note(j, n, s, r) == [about |-> "places", of |-> n, body |-> Told(j, Prog(j)[n], s, r)]
Load(j, n, s, r) ==
  [about |-> "data", of |-> n, body |-> Carried(j, Prog(j)[n], Had(j, n), s, r)]
CartMessages(j, s, r) ==
  [c \in CartNumbers(j, s, r) |-> IF c % 2 = 0 THEN Note(j, c \div 2, s, r) ELSE Load(j, c \div 2, s, r)]

\* What a rank knows of its peers.
SetUp == {"ring", "ringing", "explain", "learn"}
Heard(j, c, r, st, d, places) ==
  /\ places \in [A!Ranks -> Seq(Int)]
  /\ \A q \in A!Ranks :
       Len(places[q]) = IF st \in {"explain", "learn"} \/ Dist(q, r) < d THEN Len(Told(j, c, q, r)) ELSE 0
Finished(n, st) == IF st \in {"send", "receive"} THEN n ELSE n - 1
RankIs(j, r, n, st, d, tos, frs, mades, vec) ==
  /\ n \in 1 .. Len(Prog(j)) + 1 /\ d \in A!Ranks
  /\ st \in SetUp \union {"idle", "send", "receive"} /\ (st # "idle" => n <= Len(Prog(j)))
  /\ st \in SetUp =>
       LET c == Prog(j)[n]
       IN  /\ New(j, n)
           /\ IF Comm(j, c).kind = "scatter" THEN tos = ToOf(j, c, r) /\ Heard(j, c, r, st, d, frs)
              ELSE frs = FrOf(j, c, r) /\ Heard(j, c, r, st, d, tos)
  /\ st \in {"send", "receive"} => tos = ToOf(j, Prog(j)[n], r) /\ frs = FrOf(j, Prog(j)[n], r)
  /\ DOMAIN mades = {Prog(j)[i] : i \in 1 .. Finished(n, st)}
  /\ \A c \in DOMAIN mades : mades[c] = [to |-> ToOf(j, c, r), fr |-> FrOf(j, c, r)]
  /\ vec = Had(j, n)[r]

RanksInv ==
  \A r \in A!Ranks : RankIs(job, r, k[r], pc[r], delta_rank[r], to[r], fr[r], made[r], data[r])
RingInv ==
  \A s, r \in A!Ranks :
    Stream(net["world"][s][r], Made(job), RingGot(k[r], pc[r], delta_rank[r], Dist(s, r)),
           RingSent(k[s], pc[s], delta_rank[s], Dist(s, r)), RingMessages(job, s, r))
CartInv ==
  \A s, r \in A!Ranks :
    Stream(net["cart"][s][r], CartNumbers(job, s, r), CartGot(k[r], pc[r]), CartSent(k[s], pc[s]), CartMessages(job, s, r))
OnRanks(f) == f = [r \in A!Ranks |-> f[r]]
Shapes ==
  /\ job \in DOMAIN Jobs /\ world \in Worlds /\ world = [r \in A!Ranks |-> r] /\ DOMAIN net = {"world", "cart"}
  /\ OnRanks(k) /\ OnRanks(pc) /\ OnRanks(delta_rank)
  /\ DOMAIN k = A!Ranks /\ DOMAIN pc = A!Ranks /\ DOMAIN delta_rank = A!Ranks /\ DOMAIN to = A!Ranks
  /\ DOMAIN fr = A!Ranks /\ DOMAIN made = A!Ranks /\ DOMAIN data = A!Ranks

AllToAllInv == Shapes /\ RanksInv /\ RingInv /\ CartInv

-----------------------------------------------------------------------------
\* The messages of each kind.

\* The number of a message tells its round and kind.
LEMMA CartAt ==
  ASSUME NEW j \in DOMAIN Jobs, NEW s \in A!Ranks, NEW r \in A!Ranks
  PROVE  /\ CartNumbers(j, s, r) \in SUBSET Nat /\ Made(j) \in SUBSET Nat
         /\ \A n \in Nat : 2 * n \in CartNumbers(j, s, r) <=> n \in Explained(j, s, r)
         /\ \A n \in Nat : 2 * n + 1 \in CartNumbers(j, s, r) <=> n \in Moving(j, s, r)
         /\ \A n \in Explained(j, s, r) : CartMessages(j, s, r)[2 * n] = Note(j, n, s, r)
         /\ \A n \in Moving(j, s, r) : CartMessages(j, s, r)[2 * n + 1] = Load(j, n, s, r)
<1> DEFINE E == Explained(j, s, r)
           V == Moving(j, s, r)
           S == CartNumbers(j, s, r)
<1>1. E \subseteq Nat /\ V \subseteq Nat /\ Made(j) \in SUBSET Nat
  BY DEF Explained, Moving, Made
<1>2. S = {2 * n : n \in E} \union {2 * n + 1 : n \in V}
  BY DEF CartNumbers
<1>3. CartMessages(j, s, r) = [c \in S |-> IF c % 2 = 0 THEN Note(j, c \div 2, s, r) ELSE Load(j, c \div 2, s, r)]
  BY DEF CartMessages
<1> HIDE DEF E, V, S
<1>4. \A n \in Nat : (2 * n) % 2 = 0 /\ (2 * n) \div 2 = n /\ (2 * n + 1) % 2 = 1 /\ (2 * n + 1) \div 2 = n
  OBVIOUS
<1>5. \A m, n \in Nat : 2 * m # 2 * n + 1 /\ (2 * m = 2 * n => m = n) /\ (2 * m + 1 = 2 * n + 1 => m = n)
  OBVIOUS
<1>6. S \subseteq Nat
  BY <1>1, <1>2
<1>7. \A n \in Nat : 2 * n \in S <=> n \in E
  BY <1>1, <1>2, <1>5
<1>8. \A n \in Nat : 2 * n + 1 \in S <=> n \in V
  BY <1>1, <1>2, <1>5
<1>9. \A n \in E : CartMessages(j, s, r)[2 * n] = Note(j, n, s, r)
  <2> SUFFICES ASSUME NEW n \in E PROVE CartMessages(j, s, r)[2 * n] = Note(j, n, s, r)
    OBVIOUS
  <2>1. n \in Nat /\ 2 * n \in S /\ (2 * n) % 2 = 0 /\ (2 * n) \div 2 = n
    BY <1>1, <1>4, <1>7
  <2> QED BY <1>3, <2>1
<1>10. \A n \in V : CartMessages(j, s, r)[2 * n + 1] = Load(j, n, s, r)
  <2> SUFFICES ASSUME NEW n \in V PROVE CartMessages(j, s, r)[2 * n + 1] = Load(j, n, s, r)
    OBVIOUS
  <2>1. n \in Nat /\ 2 * n + 1 \in S /\ (2 * n + 1) % 2 # 0 /\ (2 * n + 1) \div 2 = n
    BY <1>1, <1>4, <1>8
  <2> QED BY <1>3, <2>1
<1> QED BY <1>1, <1>6, <1>7, <1>8, <1>9, <1>10 DEF E, V, S

\* The messages in a channel are a sequence.
LEMMA StreamConcat ==
  ASSUME NEW S \in SUBSET Nat, NEW M, NEW p, NEW lo \in Nat, NEW hi \in Nat, Stream(p, S, lo, hi, M)
  PROVE  p \o <<>> = p
<1>1. PICK f \in Seq(Nat) : p = [a \in 1 .. Len(f) |-> M[f[a]]]
  BY DEF Stream
<1>2. p \in Seq({M[f[a]] : a \in 1 .. Len(f)})
  BY <1>1, LenProperties
<1> QED BY <1>2, ConcatEmptySeq

\* What is on its way from s to r, on either channel, from number lo and before hi.
CartStream(j, s, r, p, lo, hi) == Stream(p, CartNumbers(j, s, r), lo, hi, CartMessages(j, s, r))
RingStream(j, s, r, p, lo, hi) == Stream(p, Made(j), lo, hi, RingMessages(j, s, r))

\* A rank explains at most once in a round, where it makes a communicator, and then sends
\* at most once: so the streams go on.
LEMMA CartSends ==
  ASSUME NEW j \in DOMAIN Jobs, NEW s \in A!Ranks, NEW r \in A!Ranks, NEW n \in 1 .. Len(Prog(j)), NEW lo \in Nat, NEW p
  PROVE  /\ CartStream(j, s, r, p, lo, 2 * n) /\ n \notin Explained(j, s, r) =>
              CartStream(j, s, r, p, lo, 2 * n + 1)
         /\ CartStream(j, s, r, p, lo, 2 * n) /\ n \in Explained(j, s, r) =>
              CartStream(j, s, r, p \o <<Note(j, n, s, r)>>, lo, 2 * n + 1)
         /\ CartStream(j, s, r, p, lo, 2 * n + 1) /\ n \notin Moving(j, s, r) =>
              CartStream(j, s, r, p, lo, 2 * n + 2)
         /\ CartStream(j, s, r, p, lo, 2 * n + 1) /\ n \in Moving(j, s, r) =>
              CartStream(j, s, r, p \o <<Load(j, n, s, r)>>, lo, 2 * n + 2)
<1> DEFINE S == CartNumbers(j, s, r)
           M == CartMessages(j, s, r)
<1>1. n \in Nat /\ S \in SUBSET Nat
  BY CartAt
<1>2. PICK e \in Nat : e = 2 * n
  BY <1>1
<1>3. /\ e \in S <=> n \in Explained(j, s, r)
      /\ e + 1 \in S <=> n \in Moving(j, s, r)
      /\ n \in Explained(j, s, r) => M[e] = Note(j, n, s, r)
      /\ n \in Moving(j, s, r) => M[e + 1] = Load(j, n, s, r)
  <2>1. /\ 2 * n \in S <=> n \in Explained(j, s, r)
        /\ 2 * n + 1 \in S <=> n \in Moving(j, s, r)
        /\ n \in Explained(j, s, r) => M[2 * n] = Note(j, n, s, r)
        /\ n \in Moving(j, s, r) => M[2 * n + 1] = Load(j, n, s, r)
    BY <1>1, CartAt
  <2> HIDE DEF S, M
  <2> QED BY <1>2, <2>1
<1>4. 2 * n = e /\ 2 * n + 1 = e + 1 /\ 2 * n + 2 = (e + 1) + 1
  BY <1>2
<1> HIDE DEF S, M
<1>5. \A c \in S : e <= c /\ c < e + 1 => c = e
  BY <1>1
<1>6. \A c \in S : e + 1 <= c /\ c < (e + 1) + 1 => c = e + 1
  BY <1>1
<1>7. ASSUME Stream(p, S, lo, e, M), e \notin S PROVE Stream(p, S, lo, e + 1, M)
  BY <1>1, <1>5, <1>7, StreamSkip
<1>8. ASSUME Stream(p, S, lo, e, M), e \in S PROVE Stream(p \o <<M[e]>>, S, lo, e + 1, M)
  <2>1. e \in S /\ e <= e /\ e < e + 1 /\ e + 1 \in Nat
    BY <1>8
  <2> QED BY <1>1, <1>5, <1>8, <2>1, StreamAdd
<1>9. ASSUME Stream(p, S, lo, e + 1, M), e + 1 \notin S PROVE Stream(p, S, lo, (e + 1) + 1, M)
  BY <1>1, <1>6, <1>9, StreamSkip
<1>10. ASSUME Stream(p, S, lo, e + 1, M), e + 1 \in S PROVE Stream(p \o <<M[e + 1]>>, S, lo, (e + 1) + 1, M)
  <2>1. PICK g \in Nat : g = e + 1
    OBVIOUS
  <2>2. g \in S /\ g <= g /\ g < g + 1 /\ g + 1 \in Nat /\ Stream(p, S, lo, g, M)
    BY <1>10, <2>1
  <2>3. \A c \in S : g <= c /\ c < g + 1 => c = g
    BY <1>6, <2>1
  <2>4. Stream(p \o <<M[g]>>, S, lo, g + 1, M)
    BY <1>1, <2>2, <2>3, StreamAdd
  <2> QED BY <2>1, <2>4
<1> QED BY <1>3, <1>4, <1>7, <1>8, <1>9, <1>10 DEF CartStream, S, M

\* What a rank takes is of its own round.
LEMMA CartTakes ==
  ASSUME NEW j \in DOMAIN Jobs, NEW s \in A!Ranks, NEW r \in A!Ranks, NEW n \in 1 .. Len(Prog(j)), NEW hi \in Nat, NEW p
  PROVE  /\ CartStream(j, s, r, p, 2 * n, hi) /\ n \notin Explained(j, s, r) =>
              CartStream(j, s, r, p, 2 * n + 1, hi)
         /\ CartStream(j, s, r, p, 2 * n, hi) /\ n \in Explained(j, s, r) /\ p # <<>> =>
              Head(p) = Note(j, n, s, r) /\ CartStream(j, s, r, Tail(p), 2 * n + 1, hi)
         /\ CartStream(j, s, r, p, 2 * n + 1, hi) /\ n \notin Moving(j, s, r) =>
              CartStream(j, s, r, p, 2 * n + 2, hi)
         /\ CartStream(j, s, r, p, 2 * n + 1, hi) /\ n \in Moving(j, s, r) /\ p # <<>> =>
              Head(p) = Load(j, n, s, r) /\ CartStream(j, s, r, Tail(p), 2 * n + 2, hi)
<1> DEFINE S == CartNumbers(j, s, r)
           M == CartMessages(j, s, r)
<1>1. n \in Nat /\ S \in SUBSET Nat
  BY CartAt
<1>2. PICK e \in Nat : e = 2 * n
  BY <1>1
<1>3. /\ e \in S <=> n \in Explained(j, s, r)
      /\ e + 1 \in S <=> n \in Moving(j, s, r)
      /\ n \in Explained(j, s, r) => M[e] = Note(j, n, s, r)
      /\ n \in Moving(j, s, r) => M[e + 1] = Load(j, n, s, r)
  <2>1. /\ 2 * n \in S <=> n \in Explained(j, s, r)
        /\ 2 * n + 1 \in S <=> n \in Moving(j, s, r)
        /\ n \in Explained(j, s, r) => M[2 * n] = Note(j, n, s, r)
        /\ n \in Moving(j, s, r) => M[2 * n + 1] = Load(j, n, s, r)
    BY <1>1, CartAt
  <2> HIDE DEF S, M
  <2> QED BY <1>2, <2>1
<1>4. 2 * n = e /\ 2 * n + 1 = e + 1 /\ 2 * n + 2 = (e + 1) + 1
  BY <1>2
<1> HIDE DEF S, M
<1>5. \A c \in S : e <= c /\ c < e + 1 => c = e
  BY <1>1
<1>6. \A c \in S : e + 1 <= c /\ c < (e + 1) + 1 => c = e + 1
  BY <1>1
<1>7. ASSUME Stream(p, S, e, hi, M), e \notin S PROVE Stream(p, S, e + 1, hi, M)
  BY <1>1, <1>5, <1>7, StreamPast
<1>8. ASSUME Stream(p, S, e, hi, M), e \in S, p # <<>> PROVE Head(p) = M[e] /\ Stream(Tail(p), S, e + 1, hi, M)
  BY <1>1, <1>5, <1>8, StreamTake
<1>9. ASSUME Stream(p, S, e + 1, hi, M), e + 1 \notin S PROVE Stream(p, S, (e + 1) + 1, hi, M)
  BY <1>1, <1>6, <1>9, StreamPast
<1>10. ASSUME Stream(p, S, e + 1, hi, M), e + 1 \in S, p # <<>>
       PROVE  Head(p) = M[e + 1] /\ Stream(Tail(p), S, (e + 1) + 1, hi, M)
  <2>1. PICK g \in Nat : g = e + 1
    OBVIOUS
  <2>2. g \in S /\ g \in Nat /\ g + 1 \in Nat /\ g <= g /\ g < g + 1
    BY <1>10, <2>1
  <2>3. Stream(p, S, g, hi, M)
    BY <1>10, <2>1
  <2>4. \A c \in S : g <= c /\ c < g + 1 => c = g
    BY <1>6, <2>1
  <2>5. Head(p) = M[g] /\ Stream(Tail(p), S, g + 1, hi, M)
    BY <1>1, <1>10, <2>2, <2>3, <2>4, StreamTake
  <2> QED BY <2>1, <2>5
<1> QED BY <1>3, <1>4, <1>7, <1>8, <1>9, <1>10 DEF CartStream, S, M

\* Numbers go around the ring in the rounds that make a communicator.
LEMMA RingGoesOn ==
  ASSUME NEW j \in DOMAIN Jobs, NEW s \in A!Ranks, NEW r \in A!Ranks, NEW n \in Nat, NEW lo \in Nat, NEW hi \in Nat, NEW p
  PROVE  /\ RingStream(j, s, r, p, lo, n) /\ n \in Made(j) =>
              RingStream(j, s, r, p \o <<Len(Told(j, Prog(j)[n], s, r))>>, lo, n + 1)
         /\ RingStream(j, s, r, p, lo, n) /\ n \notin Made(j) => RingStream(j, s, r, p, lo, n + 1)
         /\ RingStream(j, s, r, p, n, hi) /\ n \in Made(j) /\ p # <<>> =>
              Head(p) = Len(Told(j, Prog(j)[n], s, r)) /\ RingStream(j, s, r, Tail(p), n + 1, hi)
         /\ RingStream(j, s, r, p, n, hi) /\ n \notin Made(j) => RingStream(j, s, r, p, n + 1, hi)
<1> DEFINE S == Made(j)
           M == RingMessages(j, s, r)
<1>1. S \in SUBSET Nat
  BY CartAt
<1>2. n \in S => M[n] = Len(Told(j, Prog(j)[n], s, r))
  BY DEF RingMessages
<1> HIDE DEF S, M
<1>3. \A c \in S : n <= c /\ c < n + 1 => c = n
  BY <1>1
<1>4. ASSUME Stream(p, S, lo, n, M), n \notin S PROVE Stream(p, S, lo, n + 1, M)
  BY <1>1, <1>3, <1>4, StreamSkip
<1>5. ASSUME Stream(p, S, lo, n, M), n \in S PROVE Stream(p \o <<M[n]>>, S, lo, n + 1, M)
  BY <1>1, <1>3, <1>5, StreamAdd
<1>6. ASSUME Stream(p, S, n, hi, M), n \notin S PROVE Stream(p, S, n + 1, hi, M)
  BY <1>1, <1>3, <1>6, StreamPast
<1>7. ASSUME Stream(p, S, n, hi, M), n \in S, p # <<>> PROVE Head(p) = M[n] /\ Stream(Tail(p), S, n + 1, hi, M)
  BY <1>1, <1>3, <1>7, StreamTake
<1> QED BY <1>2, <1>4, <1>5, <1>6, <1>7 DEF RingStream, S, M

-----------------------------------------------------------------------------
\* What a rank is at.

\* What a rank knows at first and what it is then told are what the list means.
LEMMA ToldIs ==
  ASSUME NEW j \in DOMAIN Jobs, NEW c \in DOMAIN Jobs[j].list, NEW s \in A!Ranks
  PROVE  /\ \A q \in A!Ranks : /\ Told(j, c, s, q) \in Seq(Int) /\ Len(Told(j, c, s, q)) \in Nat
                               /\ Told(j, c, s, q) = <<>> <=> Len(Told(j, c, s, q)) = 0
                               /\ A!Fields(Comm(j, c).list[s], IF Comm(j, c).kind = "scatter" THEN "dest" ELSE "loc")[q]
                                    = Told(j, c, s, q)
         /\ Comm(j, c).kind = "scatter" =>
              /\ A!Fields(Comm(j, c).list[s], "loc") = ToOf(j, c, s)
              /\ \A q \in A!Ranks : Len(ToOf(j, c, s)[q]) = Len(Told(j, c, s, q)) /\ FrOf(j, c, s)[q] = Told(j, c, q, s)
         /\ Comm(j, c).kind # "scatter" =>
              /\ A!Fields(Comm(j, c).list[s], "dest") = FrOf(j, c, s)
              /\ \A q \in A!Ranks : Len(FrOf(j, c, s)[q]) = Len(Told(j, c, s, q)) /\ ToOf(j, c, s)[q] = Told(j, c, q, s)
<1>1. \A q \in A!Ranks : Told(j, c, s, q) \in Seq(Int)
  <2> SUFFICES ASSUME NEW q \in A!Ranks PROVE Told(j, c, s, q) \in Seq(Int)
    OBVIOUS
  <2>1. Between(j, c, s, q, "dest") \in Seq(Int) /\ Between(j, c, q, s, "loc") \in Seq(Int)
    BY BetweenIs
  <2> QED BY <2>1 DEF Told
<1>2. \A x \in Seq(Int) : Len(x) \in Nat /\ (x = <<>> <=> Len(x) = 0)
  BY EmptySeq, LenProperties
<1>3. \A q \in A!Ranks :
        A!Fields(Comm(j, c).list[s], IF Comm(j, c).kind = "scatter" THEN "dest" ELSE "loc")[q] = Told(j, c, s, q)
  BY DEF Told, Between, Teller, Hearer
<1>4. ASSUME NEW l, NEW f PROVE A!Fields(l, f) = [q \in A!Ranks |-> A!Fields(l, f)[q]]
  BY DEF A!Fields
<1>5. ASSUME Comm(j, c).kind = "scatter"
      PROVE  /\ A!Fields(Comm(j, c).list[s], "loc") = ToOf(j, c, s)
             /\ \A q \in A!Ranks : Len(ToOf(j, c, s)[q]) = Len(Told(j, c, s, q)) /\ FrOf(j, c, s)[q] = Told(j, c, q, s)
  <2>1. \A q \in A!Ranks : ToOf(j, c, s)[q] = A!Fields(Comm(j, c).list[s], "loc")[q]
    BY <1>5 DEF ToOf, Between, Teller, Hearer
  <2>2. ToOf(j, c, s) = [q \in A!Ranks |-> ToOf(j, c, s)[q]]
    BY DEF ToOf
  <2>3. A!Fields(Comm(j, c).list[s], "loc") = [q \in A!Ranks |-> A!Fields(Comm(j, c).list[s], "loc")[q]]
    BY <1>4
  <2>4. \A q \in A!Ranks : Len(ToOf(j, c, s)[q]) = Len(Told(j, c, s, q))
    <3> SUFFICES ASSUME NEW q \in A!Ranks PROVE Len(ToOf(j, c, s)[q]) = Len(Told(j, c, s, q))
      OBVIOUS
    <3>1. Len(Between(j, c, s, q, "loc")) = Len(Between(j, c, s, q, "dest"))
      BY BetweenIs
    <3> QED BY <1>5, <3>1 DEF ToOf, Told
  <2>5. \A q \in A!Ranks : FrOf(j, c, s)[q] = Told(j, c, q, s)
    BY <1>5 DEF FrOf, Told
  <2> QED BY <2>1, <2>2, <2>3, <2>4, <2>5
<1>6. ASSUME Comm(j, c).kind # "scatter"
      PROVE  /\ A!Fields(Comm(j, c).list[s], "dest") = FrOf(j, c, s)
             /\ \A q \in A!Ranks : Len(FrOf(j, c, s)[q]) = Len(Told(j, c, s, q)) /\ ToOf(j, c, s)[q] = Told(j, c, q, s)
  <2>1. \A q \in A!Ranks : FrOf(j, c, s)[q] = A!Fields(Comm(j, c).list[s], "dest")[q]
    BY <1>6 DEF FrOf, Between, Teller, Hearer
  <2>2. FrOf(j, c, s) = [q \in A!Ranks |-> FrOf(j, c, s)[q]]
    BY DEF FrOf
  <2>3. A!Fields(Comm(j, c).list[s], "dest") = [q \in A!Ranks |-> A!Fields(Comm(j, c).list[s], "dest")[q]]
    BY <1>4
  <2>4. \A q \in A!Ranks : Len(FrOf(j, c, s)[q]) = Len(Told(j, c, s, q))
    <3> SUFFICES ASSUME NEW q \in A!Ranks PROVE Len(FrOf(j, c, s)[q]) = Len(Told(j, c, s, q))
      OBVIOUS
    <3>1. Len(Between(j, c, q, s, "loc")) = Len(Between(j, c, q, s, "dest"))
      BY BetweenIs
    <3> QED BY <1>6, <3>1 DEF FrOf, Told
  <2>5. \A q \in A!Ranks : ToOf(j, c, s)[q] = Told(j, c, q, s)
    BY <1>6 DEF ToOf, Told
  <2> QED BY <2>1, <2>2, <2>3, <2>4, <2>5
<1> QED BY <1>1, <1>2, <1>3, <1>5, <1>6

\* The communicator of a rank that is not at the end.
LEMMA Here ==
  ASSUME Shapes, NEW r \in A!Ranks, k[r] \in 1 .. Len(Prog(job)) + 1
  PROVE  /\ Len(Prog(job)) \in Nat /\ k[r] \in Nat /\ \A w \in A!Ranks : A!Process(w) = w /\ world[w] = w
         /\ A!Active(r) <=> k[r] <= Len(Prog(job))
         /\ A!Active(r) =>
              /\ k[r] \in 1 .. Len(Prog(job)) /\ Prog(job)[k[r]] \in DOMAIN Jobs[job].list
              /\ A!Name(r) = Prog(job)[k[r]] /\ A!Op(r) = Comm(job, Prog(job)[k[r]])
              /\ A!Scatter(r) <=> Comm(job, Prog(job)[k[r]]).kind = "scatter"
<1>1. Prog(job) \in Seq(DOMAIN Jobs[job].list)
  BY ListsAssumption DEF A!JobsAssumption, Shapes, Prog
<1>2. Len(Prog(job)) \in Nat /\ \A n \in 1 .. Len(Prog(job)) : Prog(job)[n] \in DOMAIN Jobs[job].list
  BY <1>1, ElementOfSeq, LenProperties
<1>3. \A w \in A!Ranks : A!Process(w) = w /\ world[w] = w
  BY DEF Shapes, A!Process
<1>4. A!Active(r) <=> k[r] <= Len(Prog(job))
  BY DEF A!Active, Prog
<1>5. A!Name(r) = Prog(job)[k[r]] /\ A!Op(r) = Comm(job, Prog(job)[k[r]])
  BY DEF A!Name, A!Op, Prog, Comm
<1>6. A!Scatter(r) <=> Comm(job, Prog(job)[k[r]]).kind = "scatter"
  BY <1>5 DEF A!Scatter
<1> QED BY <1>2, <1>3, <1>4, <1>5, <1>6

\* A rank sends to some ranks, or takes from some.
LEMMA Posts ==
  ASSUME Shapes, NEW r \in A!Ranks, NEW ch \in {"world", "cart"}, NEW msgs, net' = A!Post(r, ch, msgs)
  PROVE  /\ DOMAIN net' = {"world", "cart"}
         /\ \A s, q \in A!Ranks : net'[ch][s][q] = IF s = r THEN net[ch][s][q] \o msgs[q] ELSE net[ch][s][q]
         /\ \A o \in {"world", "cart"} : o # ch => net'[o] = net[o]
<1>1. DOMAIN net = {"world", "cart"}
  BY DEF Shapes
<1> QED BY <1>1 DEF A!Post
\* Likewise.
LEMMA Takes ==
  ASSUME Shapes, NEW r \in A!Ranks, NEW ch \in {"world", "cart"}, NEW from, net' = A!Take(r, ch, from)
  PROVE  /\ DOMAIN net' = {"world", "cart"}
         /\ \A s, q \in A!Ranks : net'[ch][s][q] = IF q = r /\ s \in from THEN Tail(net[ch][s][q]) ELSE net[ch][s][q]
         /\ \A o \in {"world", "cart"} : o # ch => net'[o] = net[o]
<1>1. DOMAIN net = {"world", "cart"}
  BY DEF Shapes
<1> QED BY <1>1 DEF A!Take

\* The limits of what is on its way are numbers.
LEMMA Limits ==
  ASSUME NEW n \in Nat, NEW st, NEW d, NEW x
  PROVE  RingSent(n, st, d, x) \in Nat /\ RingGot(n, st, d, x) \in Nat /\ CartSent(n, st) \in Nat /\ CartGot(n, st) \in Nat
BY DEF RingSent, RingGot, CartSent, CartGot

-----------------------------------------------------------------------------
\* The invariant holds at first.
LEMMA AllToAllInvInit == A!Init => AllToAllInv
<1> SUFFICES ASSUME A!Init PROVE AllToAllInv
  OBVIOUS
<1>1. /\ job \in DOMAIN Jobs /\ \A r \in A!Ranks : k[r] = 1 /\ pc[r] = "idle" /\ delta_rank[r] = 0 /\ made[r] = <<>>
      /\ DOMAIN k = A!Ranks /\ DOMAIN pc = A!Ranks /\ DOMAIN delta_rank = A!Ranks /\ DOMAIN to = A!Ranks
      /\ DOMAIN fr = A!Ranks /\ DOMAIN made = A!Ranks /\ DOMAIN net = {"world", "cart"}
      /\ \A ch \in {"world", "cart"}, s, r \in A!Ranks : net[ch][s][r] = <<>>
  BY DEF A!Init, A!Channels
<1>2. world \in Worlds /\ world = [r \in A!Ranks |-> r] /\ OnRanks(k) /\ OnRanks(pc) /\ OnRanks(delta_rank)
  BY ListsAssumption DEF A!Init, OnRanks
<1>3. data = Jobs[job].start /\ DOMAIN data = A!Ranks /\ Prog(job) \in Seq(DOMAIN Jobs[job].list)
  BY ListsAssumption DEF A!Init, A!JobsAssumption, Prog
<1>4. Len(Prog(job)) \in Nat /\ 0 \in A!Ranks /\ \A s, r \in A!Ranks : Dist(s, r) \in A!Ranks /\ Dist(s, r) \in Nat
  <2>1. A!nranks \in Nat \ {0} /\ A!Ranks = 0 .. A!nranks - 1
    BY DistIs
  <2>2. A!Ranks \subseteq Nat /\ 0 \in A!Ranks
    BY <2>1
  <2> QED BY <1>3, <2>2, DistIs, LenProperties
<1>5. Shapes
  BY <1>1, <1>2, <1>3 DEF Shapes
<1>6. RanksInv
  <2> SUFFICES ASSUME NEW r \in A!Ranks
               PROVE  RankIs(job, r, k[r], pc[r], delta_rank[r], to[r], fr[r], made[r], data[r])
    BY DEF RanksInv
  <2>1. data[r] = Had(job, 1)[r]
    BY <1>3 DEF Had
  <2>2. DOMAIN made[r] = {} /\ 1 .. Finished(1, "idle") = {}
    BY <1>1 DEF Finished
  <2>3. {Prog(job)[i] : i \in 1 .. Finished(1, "idle")} = {}
    BY <2>2
  <2> QED BY <1>1, <1>4, <2>1, <2>2, <2>3 DEF RankIs, SetUp
<1>7. RingInv
  <2> SUFFICES ASSUME NEW s \in A!Ranks, NEW r \in A!Ranks
               PROVE  Stream(net["world"][s][r], Made(job), RingGot(k[r], pc[r], delta_rank[r], Dist(s, r)),
                             RingSent(k[s], pc[s], delta_rank[s], Dist(s, r)), RingMessages(job, s, r))
    BY DEF RingInv
  <2>1. RingGot(k[r], pc[r], delta_rank[r], Dist(s, r)) = 1 /\ RingSent(k[s], pc[s], delta_rank[s], Dist(s, r)) = 1
    BY <1>1 DEF RingGot, RingSent
  <2>2. Made(job) \in SUBSET Nat /\ \A c \in Made(job) : ~ c < 1 /\ ~ (1 <= c /\ c < 1)
    BY <1>4 DEF Made
  <2>3. Stream(<<>>, Made(job), 1, 1, RingMessages(job, s, r))
    BY <2>2, StreamEmpty
  <2> QED BY <1>1, <2>1, <2>3
<1>8. CartInv
  <2> SUFFICES ASSUME NEW s \in A!Ranks, NEW r \in A!Ranks
               PROVE  Stream(net["cart"][s][r], CartNumbers(job, s, r), CartGot(k[r], pc[r]), CartSent(k[s], pc[s]),
                             CartMessages(job, s, r))
    BY DEF CartInv
  <2>1. CartGot(k[r], pc[r]) = 2 /\ CartSent(k[s], pc[s]) = 2
    BY <1>1 DEF CartGot, CartSent
  <2>2. CartNumbers(job, s, r) \in SUBSET Nat
    BY <1>1, CartAt
  <2>3. Explained(job, s, r) \subseteq Nat \ {0} /\ Moving(job, s, r) \subseteq Nat \ {0}
    BY <1>4 DEF Explained, Made, Moving
  <2>4. \A c \in CartNumbers(job, s, r) : ~ c < 2 /\ ~ (2 <= c /\ c < 2)
    BY <2>3 DEF CartNumbers
  <2>5. Stream(<<>>, CartNumbers(job, s, r), 2, 2, CartMessages(job, s, r))
    BY <2>2, <2>4, StreamEmpty
  <2> QED BY <1>1, <2>1, <2>5
<1> QED BY <1>5, <1>6, <1>7, <1>8 DEF AllToAllInv

-----------------------------------------------------------------------------
\* What a step leaves alone.

\* A step of a rank changes nothing of the others but their channels.
Apart(r) ==
  /\ job' = job /\ world' = world /\ DOMAIN net' = {"world", "cart"}
  /\ OnRanks(k') /\ OnRanks(pc') /\ OnRanks(delta_rank')
  /\ DOMAIN k' = A!Ranks /\ DOMAIN pc' = A!Ranks /\ DOMAIN delta_rank' = A!Ranks /\ DOMAIN to' = A!Ranks
  /\ DOMAIN fr' = A!Ranks /\ DOMAIN made' = A!Ranks /\ DOMAIN data' = A!Ranks
  /\ \A q \in A!Ranks : q # r =>
       /\ k'[q] = k[q] /\ pc'[q] = pc[q] /\ delta_rank'[q] = delta_rank[q] /\ to'[q] = to[q]
       /\ fr'[q] = fr[q] /\ made'[q] = made[q] /\ data'[q] = data[q]

\* Every action of a rank is such a step.
LEMMA ApartIs == ASSUME Shapes, NEW r \in A!Ranks, A!RankStep(r) PROVE Apart(r)
<1>1. CASE A!Begin(r)
  BY <1>1 DEF A!Begin, Shapes, OnRanks, Apart
<1>2. CASE A!RingPost(r)
  BY <1>2 DEF A!RingPost, A!Post, Shapes, OnRanks, Apart
<1>3. CASE A!RingDone(r)
  BY <1>3 DEF A!RingDone, A!Take, Shapes, OnRanks, Apart
<1>4. CASE A!Explain(r)
  BY <1>4 DEF A!Explain, A!Post, Shapes, OnRanks, Apart
<1>5. CASE A!Learn(r)
  BY <1>5 DEF A!Learn, A!Take, Shapes, OnRanks, Apart
<1>6. CASE A!Reuse(r)
  BY <1>6 DEF A!Reuse, Shapes, OnRanks, Apart
<1>7. CASE A!Send(r)
  BY <1>7 DEF A!Send, A!Post, Shapes, OnRanks, Apart
<1>8. CASE A!Receive(r)
  BY <1>8 DEF A!Receive, A!Take, Shapes, OnRanks, Apart
<1> QED BY <1>1, <1>2, <1>3, <1>4, <1>5, <1>6, <1>7, <1>8 DEF A!RankStep

\* So the invariant of the ranks is kept if the rank keeps its own.
LEMMA RanksKept ==
  ASSUME AllToAllInv, NEW r \in A!Ranks, Apart(r),
         RankIs(job, r, k'[r], pc'[r], delta_rank'[r], to'[r], fr'[r], made'[r], data'[r])
  PROVE  Shapes' /\ RanksInv'
<1>1. Shapes'
  BY DEF AllToAllInv, Shapes, Apart
<1>2. ASSUME NEW q \in A!Ranks
      PROVE  RankIs(job', q, k'[q], pc'[q], delta_rank'[q], to'[q], fr'[q], made'[q], data'[q])
  <2>1. RankIs(job, q, k[q], pc[q], delta_rank[q], to[q], fr[q], made[q], data[q])
    BY DEF AllToAllInv, RanksInv
  <2> QED BY <2>1 DEF Apart
<1> QED BY <1>1, <1>2 DEF RanksInv

\* The channels of others stay as they are, and those of the rank if its limits do.
LEMMA RingKept ==
  ASSUME AllToAllInv, NEW r \in A!Ranks, Apart(r),
         \A q \in A!Ranks : /\ q # r => RingStream(job, r, q, net'["world"][r][q], RingGot(k[q], pc[q], delta_rank[q], Dist(r, q)),
                                                   RingSent(k'[r], pc'[r], delta_rank'[r], Dist(r, q)))
                            /\ q # r => RingStream(job, q, r, net'["world"][q][r], RingGot(k'[r], pc'[r], delta_rank'[r], Dist(q, r)),
                                                   RingSent(k[q], pc[q], delta_rank[q], Dist(q, r)))
                            /\ q # r => \A s \in A!Ranks : s # r => net'["world"][s][q] = net["world"][s][q],
         RingStream(job, r, r, net'["world"][r][r], RingGot(k'[r], pc'[r], delta_rank'[r], Dist(r, r)),
                    RingSent(k'[r], pc'[r], delta_rank'[r], Dist(r, r)))
  PROVE  RingInv'
<1> SUFFICES ASSUME NEW s \in A!Ranks, NEW q \in A!Ranks
             PROVE  RingStream(job', s, q, net'["world"][s][q], RingGot(k'[q], pc'[q], delta_rank'[q], Dist(s, q)),
                               RingSent(k'[s], pc'[s], delta_rank'[s], Dist(s, q)))
  BY DEF RingInv, RingStream
<1>1. CASE s # r /\ q # r
  <2>1. RingStream(job, s, q, net["world"][s][q], RingGot(k[q], pc[q], delta_rank[q], Dist(s, q)),
                   RingSent(k[s], pc[s], delta_rank[s], Dist(s, q)))
    BY DEF AllToAllInv, RingInv, RingStream
  <2> QED BY <1>1, <2>1 DEF Apart
<1>2. CASE s = r /\ q # r
  BY <1>2 DEF Apart
<1>3. CASE s # r /\ q = r
  BY <1>3 DEF Apart
<1>4. CASE s = r /\ q = r
  BY <1>4 DEF Apart
<1> QED BY <1>1, <1>2, <1>3, <1>4

\* Likewise of the other messages.
LEMMA CartKept ==
  ASSUME AllToAllInv, NEW r \in A!Ranks, Apart(r),
         \A q \in A!Ranks : /\ q # r => CartStream(job, r, q, net'["cart"][r][q], CartGot(k[q], pc[q]), CartSent(k'[r], pc'[r]))
                            /\ q # r => CartStream(job, q, r, net'["cart"][q][r], CartGot(k'[r], pc'[r]), CartSent(k[q], pc[q]))
                            /\ q # r => \A s \in A!Ranks : s # r => net'["cart"][s][q] = net["cart"][s][q],
         CartStream(job, r, r, net'["cart"][r][r], CartGot(k'[r], pc'[r]), CartSent(k'[r], pc'[r]))
  PROVE  CartInv'
<1> SUFFICES ASSUME NEW s \in A!Ranks, NEW q \in A!Ranks
             PROVE  CartStream(job', s, q, net'["cart"][s][q], CartGot(k'[q], pc'[q]), CartSent(k'[s], pc'[s]))
  BY DEF CartInv, CartStream
<1>1. CASE s # r /\ q # r
  <2>1. CartStream(job, s, q, net["cart"][s][q], CartGot(k[q], pc[q]), CartSent(k[s], pc[s]))
    BY DEF AllToAllInv, CartInv, CartStream
  <2> QED BY <1>1, <2>1 DEF Apart
<1>2. CASE s = r /\ q # r
  BY <1>2 DEF Apart
<1>3. CASE s # r /\ q = r
  BY <1>3 DEF Apart
<1>4. CASE s = r /\ q = r
  BY <1>4 DEF Apart
<1> QED BY <1>1, <1>2, <1>3, <1>4

\* If nothing moves and the limits are the same, so are the channels.
LEMMA RingSame ==
  ASSUME AllToAllInv, NEW r \in A!Ranks, Apart(r), net'["world"] = net["world"],
         \A x \in A!Ranks : /\ RingGot(k'[r], pc'[r], delta_rank'[r], x) = RingGot(k[r], pc[r], delta_rank[r], x)
                            /\ RingSent(k'[r], pc'[r], delta_rank'[r], x) = RingSent(k[r], pc[r], delta_rank[r], x)
  PROVE  RingInv'
<1>1. \A s, q \in A!Ranks : RingStream(job, s, q, net["world"][s][q], RingGot(k[q], pc[q], delta_rank[q], Dist(s, q)),
                                       RingSent(k[s], pc[s], delta_rank[s], Dist(s, q)))
  BY DEF AllToAllInv, RingInv, RingStream
<1>2. \A s, q \in A!Ranks : Dist(s, q) \in A!Ranks
  BY DistIs
<1> QED BY <1>1, <1>2, RingKept
\* Likewise.
LEMMA CartSame ==
  ASSUME AllToAllInv, NEW r \in A!Ranks, Apart(r), net'["cart"] = net["cart"],
         CartGot(k'[r], pc'[r]) = CartGot(k[r], pc[r]), CartSent(k'[r], pc'[r]) = CartSent(k[r], pc[r])
  PROVE  CartInv'
<1>1. \A s, q \in A!Ranks : CartStream(job, s, q, net["cart"][s][q], CartGot(k[q], pc[q]), CartSent(k[s], pc[s]))
  BY DEF AllToAllInv, CartInv, CartStream
<1> QED BY <1>1, CartKept

-----------------------------------------------------------------------------
\* Each action keeps the invariant.

\* What the invariant says of one rank.
LEMMA RankHere ==
  ASSUME AllToAllInv, NEW r \in A!Ranks
  PROVE  /\ RankIs(job, r, k[r], pc[r], delta_rank[r], to[r], fr[r], made[r], data[r]) /\ job \in DOMAIN Jobs
         /\ k[r] \in 1 .. Len(Prog(job)) + 1 /\ k[r] \in Nat /\ Len(Prog(job)) \in Nat
         /\ A!Active(r) <=> k[r] <= Len(Prog(job))
         /\ pc[r] # "idle" => A!Active(r)
         /\ A!Active(r) =>
              /\ k[r] \in 1 .. Len(Prog(job)) /\ Prog(job)[k[r]] \in DOMAIN Jobs[job].list
              /\ A!Name(r) = Prog(job)[k[r]] /\ A!Op(r) = Comm(job, Prog(job)[k[r]])
              /\ A!Scatter(r) <=> Comm(job, Prog(job)[k[r]]).kind = "scatter"
         /\ Shapes /\ A!Ranks \subseteq Nat /\ \A w \in A!Ranks : A!Process(w) = w /\ world[w] = w
<1>1. RankIs(job, r, k[r], pc[r], delta_rank[r], to[r], fr[r], made[r], data[r]) /\ Shapes
  BY DEF AllToAllInv, RanksInv
<1>2. k[r] \in 1 .. Len(Prog(job)) + 1 /\ (pc[r] # "idle" => k[r] <= Len(Prog(job))) /\ job \in DOMAIN Jobs
  BY <1>1 DEF RankIs, Shapes
<1>3. A!Ranks \subseteq Nat
  <2>1. A!nranks \in Nat \ {0} /\ A!Ranks = 0 .. A!nranks - 1
    BY DistIs
  <2> QED BY <2>1
<1>4. /\ Len(Prog(job)) \in Nat /\ k[r] \in Nat /\ \A w \in A!Ranks : A!Process(w) = w /\ world[w] = w
      /\ A!Active(r) <=> k[r] <= Len(Prog(job))
      /\ A!Active(r) =>
           /\ k[r] \in 1 .. Len(Prog(job)) /\ Prog(job)[k[r]] \in DOMAIN Jobs[job].list
           /\ A!Name(r) = Prog(job)[k[r]] /\ A!Op(r) = Comm(job, Prog(job)[k[r]])
           /\ A!Scatter(r) <=> Comm(job, Prog(job)[k[r]]).kind = "scatter"
  BY <1>1, <1>2, Here
<1> QED BY <1>1, <1>2, <1>3, <1>4

\* A communicator is made when its name has not been used before.
LEMMA InitedIs ==
  ASSUME AllToAllInv, NEW r \in A!Ranks, A!Active(r), pc[r] = "idle"
  PROVE  /\ ~ A!Inited(r) <=> New(job, k[r])
         /\ A!Inited(r) => made[r][A!Name(r)] = [to |-> ToOf(job, A!Name(r), r), fr |-> FrOf(job, A!Name(r), r)]
<1>1. A!Name(r) = Prog(job)[k[r]] /\ k[r] \in 1 .. Len(Prog(job))
  BY RankHere
<1>2. RankIs(job, r, k[r], pc[r], delta_rank[r], to[r], fr[r], made[r], data[r])
  BY RankHere
<1>3. /\ DOMAIN made[r] = {Prog(job)[i] : i \in 1 .. k[r] - 1}
      /\ \A c \in DOMAIN made[r] : made[r][c] = [to |-> ToOf(job, c, r), fr |-> FrOf(job, c, r)]
  BY <1>2 DEF RankIs, Finished
<1> QED BY <1>1, <1>3 DEF New, A!Inited

\* Begin
LEMMA BeginKeeps == ASSUME AllToAllInv, NEW r \in A!Ranks, A!Begin(r) PROVE AllToAllInv'
<1>1. Apart(r)
  BY ApartIs DEF A!RankStep, AllToAllInv
<1>2. /\ A!Active(r) /\ pc[r] = "idle" /\ ~ A!Inited(r) /\ pc'[r] = "ring" /\ delta_rank'[r] = 0 /\ net' = net
      /\ k'[r] = k[r] /\ made'[r] = made[r] /\ data'[r] = data[r]
      /\ IF A!Scatter(r) THEN to'[r] = A!Fields(A!Op(r).list[r], "loc") /\ fr'[r] = [q \in A!Ranks |-> <<>>]
         ELSE fr'[r] = A!Fields(A!Op(r).list[r], "dest") /\ to'[r] = [q \in A!Ranks |-> <<>>]
  BY DEF A!Begin, AllToAllInv, Shapes
<1> DEFINE c == Prog(job)[k[r]]
<1>3. /\ k[r] \in 1 .. Len(Prog(job)) /\ c \in DOMAIN Jobs[job].list /\ A!Name(r) = c /\ A!Op(r) = Comm(job, c)
      /\ A!Scatter(r) <=> Comm(job, c).kind = "scatter"
      /\ RankIs(job, r, k[r], pc[r], delta_rank[r], to[r], fr[r], made[r], data[r]) /\ job \in DOMAIN Jobs
      /\ Len(Prog(job)) \in Nat /\ A!Ranks \subseteq Nat /\ Shapes
  BY <1>2, RankHere
<1>4. New(job, k[r])
  BY <1>2, InitedIs
<1> HIDE DEF c
<1>5. 0 \in A!Ranks /\ \A q \in A!Ranks : Dist(q, r) \in Nat
  <2>1. A!nranks \in Nat \ {0} /\ A!Ranks = 0 .. A!nranks - 1
    BY DistIs
  <2>2. 0 \in A!Ranks
    BY <2>1
  <2> QED BY <1>3, <2>2, DistIs
<1>6. Heard(job, c, r, "ring", 0, [q \in A!Ranks |-> <<>>])
  <2>1. \A q \in A!Ranks : ~ (Dist(q, r) < 0)
    BY <1>5
  <2> QED BY <2>1 DEF Heard
<1>7. IF Comm(job, c).kind = "scatter" THEN to'[r] = ToOf(job, c, r) /\ Heard(job, c, r, "ring", 0, fr'[r])
      ELSE fr'[r] = FrOf(job, c, r) /\ Heard(job, c, r, "ring", 0, to'[r])
  <2>1. Comm(job, c).kind = "scatter" => A!Fields(Comm(job, c).list[r], "loc") = ToOf(job, c, r)
    BY <1>3, ToldIs
  <2>2. Comm(job, c).kind # "scatter" => A!Fields(Comm(job, c).list[r], "dest") = FrOf(job, c, r)
    BY <1>3, ToldIs
  <2> QED BY <1>2, <1>3, <1>6, <2>1, <2>2
<1>8. RankIs(job, r, k'[r], pc'[r], delta_rank'[r], to'[r], fr'[r], made'[r], data'[r])
  BY <1>2, <1>3, <1>4, <1>5, <1>7 DEF RankIs, SetUp, Finished, c
<1>9. \A x \in A!Ranks : ~ (x < 0)
  BY <1>3
<1>10. RingInv'
  <2>1. \A x \in A!Ranks : /\ RingGot(k'[r], pc'[r], delta_rank'[r], x) = RingGot(k[r], pc[r], delta_rank[r], x)
                           /\ RingSent(k'[r], pc'[r], delta_rank'[r], x) = RingSent(k[r], pc[r], delta_rank[r], x)
    BY <1>2, <1>9 DEF RingGot, RingSent
  <2> QED BY <1>1, <1>2, <2>1, RingSame
<1>11. CartInv'
  BY <1>1, <1>2, CartSame DEF CartGot, CartSent
<1> QED BY <1>1, <1>8, <1>10, <1>11, RanksKept DEF AllToAllInv

\* What the invariant says of one channel.
LEMMA RingHere ==
  ASSUME AllToAllInv, NEW s \in A!Ranks, NEW r \in A!Ranks
  PROVE  /\ RingStream(job, s, r, net["world"][s][r], RingGot(k[r], pc[r], delta_rank[r], Dist(s, r)),
                       RingSent(k[s], pc[s], delta_rank[s], Dist(s, r)))
         /\ RingGot(k[r], pc[r], delta_rank[r], Dist(s, r)) \in Nat
         /\ RingSent(k[s], pc[s], delta_rank[s], Dist(s, r)) \in Nat
         /\ net["world"][s][r] \o <<>> = net["world"][s][r]
<1>1. RingStream(job, s, r, net["world"][s][r], RingGot(k[r], pc[r], delta_rank[r], Dist(s, r)),
                 RingSent(k[s], pc[s], delta_rank[s], Dist(s, r)))
  BY DEF AllToAllInv, RingInv, RingStream
<1>2. k[s] \in Nat /\ k[r] \in Nat /\ job \in DOMAIN Jobs
  BY RankHere
<1>3. RingGot(k[r], pc[r], delta_rank[r], Dist(s, r)) \in Nat /\ RingSent(k[s], pc[s], delta_rank[s], Dist(s, r)) \in Nat
  BY <1>2, Limits
<1>4. Made(job) \in SUBSET Nat
  BY <1>2, CartAt
<1> QED BY <1>1, <1>3, <1>4, StreamConcat DEF RingStream
\* Likewise.
LEMMA CartHere ==
  ASSUME AllToAllInv, NEW s \in A!Ranks, NEW r \in A!Ranks
  PROVE  /\ CartStream(job, s, r, net["cart"][s][r], CartGot(k[r], pc[r]), CartSent(k[s], pc[s]))
         /\ CartGot(k[r], pc[r]) \in Nat /\ CartSent(k[s], pc[s]) \in Nat
         /\ net["cart"][s][r] \o <<>> = net["cart"][s][r]
<1>1. CartStream(job, s, r, net["cart"][s][r], CartGot(k[r], pc[r]), CartSent(k[s], pc[s]))
  BY DEF AllToAllInv, CartInv, CartStream
<1>2. k[s] \in Nat /\ k[r] \in Nat /\ job \in DOMAIN Jobs
  BY RankHere
<1>3. CartGot(k[r], pc[r]) \in Nat /\ CartSent(k[s], pc[s]) \in Nat
  BY <1>2, Limits
<1>4. CartNumbers(job, s, r) \in SUBSET Nat
  BY <1>2, CartAt
<1> QED BY <1>1, <1>3, <1>4, StreamConcat DEF CartStream

\* Setting up, a rank knows one side, and of the other what it has heard.
LEMMA SetUpHere ==
  ASSUME AllToAllInv, NEW r \in A!Ranks, pc[r] \in SetUp
  PROVE  LET c == Prog(job)[k[r]]
         IN  /\ k[r] \in Made(job) /\ delta_rank[r] \in A!Ranks
             /\ IF A!Scatter(r) THEN to[r] = ToOf(job, c, r) /\ Heard(job, c, r, pc[r], delta_rank[r], fr[r])
                ELSE fr[r] = FrOf(job, c, r) /\ Heard(job, c, r, pc[r], delta_rank[r], to[r])
             /\ \A q \in A!Ranks : Len(A!Known(r)[q]) = Len(Told(job, c, r, q))
<1> DEFINE c == Prog(job)[k[r]]
<1>1. RankIs(job, r, k[r], pc[r], delta_rank[r], to[r], fr[r], made[r], data[r]) /\ job \in DOMAIN Jobs
  BY RankHere
<1>2. pc[r] # "idle"
  BY DEF SetUp
<1>3. /\ k[r] \in 1 .. Len(Prog(job)) /\ c \in DOMAIN Jobs[job].list
      /\ A!Scatter(r) <=> Comm(job, c).kind = "scatter"
  BY <1>2, RankHere
<1> HIDE DEF c
<1>4. /\ New(job, k[r]) /\ delta_rank[r] \in A!Ranks
      /\ IF Comm(job, c).kind = "scatter" THEN to[r] = ToOf(job, c, r) /\ Heard(job, c, r, pc[r], delta_rank[r], fr[r])
         ELSE fr[r] = FrOf(job, c, r) /\ Heard(job, c, r, pc[r], delta_rank[r], to[r])
  BY <1>1 DEF RankIs, c
<1>5. k[r] \in Made(job)
  BY <1>3, <1>4 DEF Made
<1>6. \A q \in A!Ranks : Len(A!Known(r)[q]) = Len(Told(job, c, r, q))
  <2>1. CASE Comm(job, c).kind = "scatter"
    <3>1. \A q \in A!Ranks : Len(ToOf(job, c, r)[q]) = Len(Told(job, c, r, q))
      BY <1>1, <1>3, <2>1, ToldIs
    <3> QED BY <1>3, <1>4, <2>1, <3>1 DEF A!Known
  <2>2. CASE Comm(job, c).kind # "scatter"
    <3>1. \A q \in A!Ranks : Len(FrOf(job, c, r)[q]) = Len(Told(job, c, r, q))
      BY <1>1, <1>3, <2>2, ToldIs
    <3> QED BY <1>3, <1>4, <2>2, <3>1 DEF A!Known
  <2> QED BY <2>1, <2>2
<1> QED BY <1>3, <1>4, <1>5, <1>6 DEF c

\* RingPost
LEMMA RingPostKeeps == ASSUME AllToAllInv, NEW r \in A!Ranks, A!RingPost(r) PROVE AllToAllInv'
<1> DEFINE c == Prog(job)[k[r]]
           d == delta_rank[r]
           q == A!dest_rank(r)
<1>1. Apart(r)
  BY ApartIs DEF A!RankStep, AllToAllInv
<1>2. /\ pc[r] = "ring" /\ pc'[r] = "ringing" /\ delta_rank'[r] = delta_rank[r] /\ k'[r] = k[r] /\ made'[r] = made[r]
      /\ data'[r] = data[r] /\ to'[r] = to[r] /\ fr'[r] = fr[r]
      /\ net' = A!Post(r, "world", [s \in A!Ranks |-> IF s = A!Process(q) THEN <<Len(A!Known(r)[q])>> ELSE <<>>])
  BY DEF A!RingPost, AllToAllInv, Shapes
<1>3. /\ RankIs(job, r, k[r], pc[r], delta_rank[r], to[r], fr[r], made[r], data[r]) /\ job \in DOMAIN Jobs
      /\ k[r] \in Nat /\ A!Ranks \subseteq Nat /\ Shapes /\ \A w \in A!Ranks : A!Process(w) = w /\ world[w] = w
  BY RankHere
<1>4. k[r] \in Made(job) /\ d \in A!Ranks /\ \A s \in A!Ranks : Len(A!Known(r)[s]) = Len(Told(job, c, r, s))
  BY <1>2, SetUpHere DEF SetUp
<1>5. q \in A!Ranks /\ Dist(r, q) = d /\ A!Process(q) = q /\ \A s \in A!Ranks : Dist(r, s) \in Nat /\ (Dist(r, s) = d => s = q)
  <2>1. q = (r + d) % A!nranks
    BY <1>3 DEF A!dest_rank
  <2> HIDE DEF q, d
  <2>2. q \in A!Ranks /\ Dist(r, q) = d
    BY <1>4, <2>1, DistIs
  <2>3. \A s \in A!Ranks : Dist(r, s) \in A!Ranks /\ (r + Dist(r, s)) % A!nranks = s
    BY DistIs
  <2> QED BY <1>3, <2>1, <2>2, <2>3
<1>6. /\ \A s, t \in A!Ranks : net'["world"][s][t] = IF s # r THEN net["world"][s][t]
                                   ELSE net["world"][s][t] \o (IF t = q THEN <<Len(Told(job, c, r, q))>> ELSE <<>>)
      /\ net'["cart"] = net["cart"]
  <2> HIDE DEF q, c
  <2> DEFINE msgs == [s \in A!Ranks |-> IF s = q THEN <<Len(A!Known(r)[q])>> ELSE <<>>]
  <2>1. net' = A!Post(r, "world", msgs)
    BY <1>2, <1>5
  <2>2. \A t \in A!Ranks : msgs[t] = IF t = q THEN <<Len(Told(job, c, r, q))>> ELSE <<>>
    BY <1>4, <1>5
  <2> HIDE DEF msgs
  <2>3. \A s, t \in A!Ranks : net'["world"][s][t] = IF s = r THEN net["world"][s][t] \o msgs[t] ELSE net["world"][s][t]
    BY <1>3, <2>1, Posts
  <2>4. net'["cart"] = net["cart"]
    BY <1>3, <2>1, Posts
  <2> QED BY <2>2, <2>3, <2>4
<1>7. RankIs(job, r, k'[r], pc'[r], delta_rank'[r], to'[r], fr'[r], made'[r], data'[r])
  <2> HIDE DEF q, c, d
  <2>1. \A x, y, z, w : Heard(x, y, z, "ring", d, w) => Heard(x, y, z, "ringing", d, w)
    BY DEF Heard
  <2> QED BY <1>2, <1>3, <2>1 DEF RankIs, SetUp, Finished, d
<1>8. \A x : RingGot(k'[r], pc'[r], delta_rank'[r], x) = RingGot(k[r], pc[r], delta_rank[r], x)
  BY <1>2 DEF RingGot
<1>9. \A s \in A!Ranks : RingSent(k[r], pc[r], delta_rank[r], Dist(r, s)) = IF Dist(r, s) < d THEN k[r] + 1 ELSE k[r]
  BY <1>2 DEF RingSent
<1>10. \A s \in A!Ranks : RingSent(k'[r], pc'[r], delta_rank'[r], Dist(r, s)) = IF Dist(r, s) <= d THEN k[r] + 1 ELSE k[r]
  BY <1>2 DEF RingSent
<1>11. \A s \in A!Ranks : RingStream(job, r, s, net'["world"][r][s], RingGot(k[s], pc[s], delta_rank[s], Dist(r, s)),
                                     RingSent(k'[r], pc'[r], delta_rank'[r], Dist(r, s)))
  <2> SUFFICES ASSUME NEW s \in A!Ranks
               PROVE  RingStream(job, r, s, net'["world"][r][s], RingGot(k[s], pc[s], delta_rank[s], Dist(r, s)),
                                 RingSent(k'[r], pc'[r], delta_rank'[r], Dist(r, s)))
    OBVIOUS
  <2>1. /\ RingStream(job, r, s, net["world"][r][s], RingGot(k[s], pc[s], delta_rank[s], Dist(r, s)),
                      RingSent(k[r], pc[r], delta_rank[r], Dist(r, s)))
        /\ RingGot(k[s], pc[s], delta_rank[s], Dist(r, s)) \in Nat
        /\ net["world"][r][s] \o <<>> = net["world"][r][s]
    BY RingHere
  <2> HIDE DEF q, d
  <2>2. d \in Nat /\ Dist(r, s) \in Nat
    BY <1>3, <1>4, <1>5
  <2>3. CASE s = q
    <3>1. RingSent(k[r], pc[r], delta_rank[r], Dist(r, s)) = k[r] /\ RingSent(k'[r], pc'[r], delta_rank'[r], Dist(r, s)) = k[r] + 1
      BY <1>5, <1>9, <1>10, <2>2, <2>3
    <3>2. net'["world"][r][s] = net["world"][r][s] \o <<Len(Told(job, Prog(job)[k[r]], r, s))>>
      BY <1>6, <2>3
    <3>3. RingStream(job, r, s, net["world"][r][s], RingGot(k[s], pc[s], delta_rank[s], Dist(r, s)), k[r])
      BY <2>1, <3>1
    <3>4. RingStream(job, r, s, net["world"][r][s] \o <<Len(Told(job, Prog(job)[k[r]], r, s))>>,
                     RingGot(k[s], pc[s], delta_rank[s], Dist(r, s)), k[r] + 1)
      BY <1>3, <1>4, <2>1, <3>3, RingGoesOn
    <3> QED BY <3>1, <3>2, <3>4
  <2>4. CASE s # q
    <3>1. Dist(r, s) # d
      BY <1>5, <2>4
    <3>2. RingSent(k[r], pc[r], delta_rank[r], Dist(r, s)) = RingSent(k'[r], pc'[r], delta_rank'[r], Dist(r, s))
      BY <1>9, <1>10, <2>2, <3>1
    <3>3. net'["world"][r][s] = net["world"][r][s]
      BY <1>6, <2>1, <2>4
    <3> QED BY <2>1, <3>2, <3>3
  <2> QED BY <2>3, <2>4
<1>12. RingInv'
  <2> HIDE DEF q, c, d
  <2>1. \A s \in A!Ranks : s # r => RingStream(job, s, r, net'["world"][s][r], RingGot(k'[r], pc'[r], delta_rank'[r], Dist(s, r)),
                                                RingSent(k[s], pc[s], delta_rank[s], Dist(s, r)))
    BY <1>6, <1>8, RingHere
  <2>2. \A s, t \in A!Ranks : s # r => net'["world"][s][t] = net["world"][s][t]
    BY <1>6
  <2>3. RingStream(job, r, r, net'["world"][r][r], RingGot(k'[r], pc'[r], delta_rank'[r], Dist(r, r)),
                   RingSent(k'[r], pc'[r], delta_rank'[r], Dist(r, r)))
    BY <1>8, <1>11
  <2> QED BY <1>1, <1>11, <2>1, <2>2, <2>3, RingKept
<1>13. CartInv'
  BY <1>1, <1>2, <1>6, CartSame DEF CartGot, CartSent
<1> QED BY <1>1, <1>7, <1>12, <1>13, RanksKept DEF AllToAllInv

\* What has been heard, when one more number has come.
LEMMA HeardMore ==
  ASSUME NEW j, NEW c, NEW r \in A!Ranks, NEW d \in A!Ranks, NEW places, Heard(j, c, r, "ringing", d, places),
         NEW s \in A!Ranks, Dist(s, r) = d, Len(Told(j, c, s, r)) \in Nat,
         \A q \in A!Ranks : Dist(q, r) \in Nat /\ (Dist(q, r) = d => q = s)
  PROVE  LET more == [places EXCEPT ![s] = A!Blank(Len(Told(j, c, s, r)))]
         IN  /\ d = A!nranks - 1 => Heard(j, c, r, "explain", d, more)
             /\ d # A!nranks - 1 => d + 1 \in A!Ranks /\ Heard(j, c, r, "ring", d + 1, more)
<1> DEFINE b == A!Blank(Len(Told(j, c, s, r)))
           more == [places EXCEPT ![s] = b]
<1>1. b \in Seq(Int) /\ Len(b) = Len(Told(j, c, s, r))
  BY DEF A!Blank
<1> HIDE DEF b
<1>2. /\ places \in [A!Ranks -> Seq(Int)]
      /\ \A q \in A!Ranks : Len(places[q]) = IF Dist(q, r) < d THEN Len(Told(j, c, q, r)) ELSE 0
  BY DEF Heard
<1>3. more \in [A!Ranks -> Seq(Int)] /\ \A q \in A!Ranks : more[q] = IF q = s THEN b ELSE places[q]
  BY <1>1, <1>2
<1>4. A!nranks \in Nat /\ A!Ranks = 0 .. A!nranks - 1
  BY DistIs
<1>5. \A q \in A!Ranks : Len(more[q]) = IF Dist(q, r) < d + 1 THEN Len(Told(j, c, q, r)) ELSE 0
  <2> HIDE DEF more
  <2> SUFFICES ASSUME NEW q \in A!Ranks
               PROVE  Len(more[q]) = IF Dist(q, r) < d + 1 THEN Len(Told(j, c, q, r)) ELSE 0
    OBVIOUS
  <2>1. d \in Nat /\ Dist(q, r) \in Nat
    BY <1>4
  <2>2. CASE q = s
    BY <1>1, <1>3, <2>1, <2>2
  <2>3. CASE q # s
    <3>1. Dist(q, r) # d
      BY <2>3
    <3> QED BY <1>2, <1>3, <2>1, <2>3, <3>1
  <2> QED BY <2>2, <2>3
<1> HIDE DEF more
<1>6. ASSUME d = A!nranks - 1 PROVE Heard(j, c, r, "explain", d, more)
  <2>1. \A q \in A!Ranks : Dist(q, r) \in A!Ranks
    BY DistIs
  <2>2. \A q \in A!Ranks : Dist(q, r) < d + 1
    BY <1>4, <1>6, <2>1
  <2> QED BY <1>3, <1>5, <2>2 DEF Heard
<1>7. ASSUME d # A!nranks - 1 PROVE d + 1 \in A!Ranks /\ Heard(j, c, r, "ring", d + 1, more)
  BY <1>3, <1>4, <1>5, <1>7 DEF Heard
<1> QED BY <1>6, <1>7 DEF more, b

\* RingDone
LEMMA RingDoneKeeps == ASSUME AllToAllInv, NEW r \in A!Ranks, A!RingDone(r) PROVE AllToAllInv'
<1> DEFINE c == Prog(job)[k[r]]
           d == delta_rank[r]
           s == A!recv_rank(r)
           n == Head(net["world"][s][r])
<1>1. Apart(r)
  BY ApartIs DEF A!RankStep, AllToAllInv
<1>3. /\ RankIs(job, r, k[r], pc[r], delta_rank[r], to[r], fr[r], made[r], data[r]) /\ job \in DOMAIN Jobs
      /\ k[r] \in Nat /\ A!Ranks \subseteq Nat /\ Shapes /\ \A w \in A!Ranks : A!Process(w) = w /\ world[w] = w
  BY RankHere
<1>0. pc[r] = "ringing"
  BY DEF A!RingDone
<1>4. /\ k[r] \in Made(job) /\ d \in A!Ranks
      /\ IF A!Scatter(r) THEN to[r] = ToOf(job, c, r) /\ Heard(job, c, r, "ringing", d, fr[r])
         ELSE fr[r] = FrOf(job, c, r) /\ Heard(job, c, r, "ringing", d, to[r])
      /\ c \in DOMAIN Jobs[job].list /\ (A!Scatter(r) <=> Comm(job, c).kind = "scatter")
  BY <1>0, SetUpHere, RankHere DEF SetUp
<1>5. s \in A!Ranks /\ Dist(s, r) = d /\ A!Process(s) = s /\ \A t \in A!Ranks : Dist(t, r) \in Nat /\ (Dist(t, r) = d => t = s)
  <2>1. s = (r - d) % A!nranks
    BY <1>3 DEF A!recv_rank
  <2> HIDE DEF s, d
  <2>2. s \in A!Ranks /\ Dist(s, r) = d
    BY <1>4, <2>1, DistIs
  <2>3. \A t \in A!Ranks : Dist(t, r) \in A!Ranks /\ (r - Dist(t, r)) % A!nranks = t
    BY DistIs
  <2> QED BY <1>3, <2>1, <2>2, <2>3
<1>2. /\ net' = A!Take(r, "world", {s}) /\ net["world"][s][r] # <<>>
      /\ IF A!Scatter(r) THEN fr'[r] = [fr[r] EXCEPT ![s] = A!Blank(n)] /\ to'[r] = to[r]
         ELSE to'[r] = [to[r] EXCEPT ![s] = A!Blank(n)] /\ fr'[r] = fr[r]
      /\ IF d = A!nranks - 1 THEN pc'[r] = "explain" /\ delta_rank'[r] = d ELSE pc'[r] = "ring" /\ delta_rank'[r] = d + 1
      /\ k'[r] = k[r] /\ made'[r] = made[r] /\ data'[r] = data[r]
  <2> DEFINE p == A!Process(s)
  <2>1. /\ A!Complete(r, "world", {p}) /\ net' = A!Take(r, "world", {p})
        /\ IF A!Scatter(r) THEN fr' = [fr EXCEPT ![r][s] = A!Blank(Head(net["world"][p][r]))] /\ UNCHANGED to
           ELSE to' = [to EXCEPT ![r][s] = A!Blank(Head(net["world"][p][r]))] /\ UNCHANGED fr
        /\ IF d = A!nranks - 1 THEN pc' = [pc EXCEPT ![r] = "explain"] /\ UNCHANGED delta_rank
           ELSE pc' = [pc EXCEPT ![r] = "ring"] /\ delta_rank' = [delta_rank EXCEPT ![r] = @ + 1]
        /\ k' = k /\ made' = made /\ data' = data
    BY DEF A!RingDone
  <2>2. p = s
    BY <1>5
  <2> HIDE DEF p, s
  <2>3. net["world"][s][r] # <<>>
    BY <2>1, <2>2 DEF A!Complete
  <2> QED BY <1>3, <2>1, <2>2, <2>3 DEF Shapes
<1>6. /\ \A t, q \in A!Ranks : net'["world"][t][q] = IF q = r /\ t = s THEN Tail(net["world"][t][q]) ELSE net["world"][t][q]
      /\ net'["cart"] = net["cart"]
  <2> HIDE DEF s
  <2>1. \A t, q \in A!Ranks : net'["world"][t][q] = IF q = r /\ t \in {s} THEN Tail(net["world"][t][q]) ELSE net["world"][t][q]
    <3>1. Shapes /\ net' = A!Take(r, "world", {s})
      BY <1>2, <1>3
    <3> QED BY <3>1, Takes
  <2>2. net'["cart"] = net["cart"]
    <3>1. Shapes /\ net' = A!Take(r, "world", {s})
      BY <1>2, <1>3
    <3> QED BY <3>1, Takes
  <2> QED BY <2>1, <2>2
<1>7. /\ RingStream(job, s, r, net["world"][s][r], k[r], RingSent(k[s], pc[s], delta_rank[s], Dist(s, r)))
      /\ RingSent(k[s], pc[s], delta_rank[s], Dist(s, r)) \in Nat
  <2>1. d \in Nat /\ ~ (d < d)
    BY <1>3, <1>4
  <2>2. RingGot(k[r], pc[r], delta_rank[r], Dist(s, r)) = k[r]
    BY <1>0, <1>5, <2>1 DEF RingGot
  <2> HIDE DEF s
  <2> QED BY <1>5, <2>2, RingHere
<1>8. n = Len(Told(job, c, s, r)) /\ RingStream(job, s, r, Tail(net["world"][s][r]), k[r] + 1,
                                               RingSent(k[s], pc[s], delta_rank[s], Dist(s, r)))
  <2> HIDE DEF s
  <2> QED BY <1>2, <1>3, <1>4, <1>5, <1>7, RingGoesOn
<1>9. Len(Told(job, c, s, r)) \in Nat
  <2> HIDE DEF s, c
  <2> QED BY <1>3, <1>4, <1>5, ToldIs
<1>10. /\ pc'[r] \in {"ring", "explain"} /\ delta_rank'[r] \in A!Ranks
       /\ IF Comm(job, c).kind = "scatter" THEN to'[r] = ToOf(job, c, r) /\ Heard(job, c, r, pc'[r], delta_rank'[r], fr'[r])
          ELSE fr'[r] = FrOf(job, c, r) /\ Heard(job, c, r, pc'[r], delta_rank'[r], to'[r])
  <2> HIDE DEF s, c, d, n
  <2>1. CASE A!Scatter(r)
    <3>1. /\ d = A!nranks - 1 => Heard(job, c, r, "explain", d, [fr[r] EXCEPT ![s] = A!Blank(Len(Told(job, c, s, r)))])
          /\ d # A!nranks - 1 =>
               d + 1 \in A!Ranks /\ Heard(job, c, r, "ring", d + 1, [fr[r] EXCEPT ![s] = A!Blank(Len(Told(job, c, s, r)))])
      BY <1>4, <1>5, <1>9, <2>1, HeardMore
    <3> QED BY <1>2, <1>4, <1>8, <2>1, <3>1
  <2>2. CASE ~ A!Scatter(r)
    <3>1. /\ d = A!nranks - 1 => Heard(job, c, r, "explain", d, [to[r] EXCEPT ![s] = A!Blank(Len(Told(job, c, s, r)))])
          /\ d # A!nranks - 1 =>
               d + 1 \in A!Ranks /\ Heard(job, c, r, "ring", d + 1, [to[r] EXCEPT ![s] = A!Blank(Len(Told(job, c, s, r)))])
      BY <1>4, <1>5, <1>9, <2>2, HeardMore
    <3> QED BY <1>2, <1>4, <1>8, <2>2, <3>1
  <2> QED BY <2>1, <2>2
<1>11. RankIs(job, r, k'[r], pc'[r], delta_rank'[r], to'[r], fr'[r], made'[r], data'[r])
  <2>1. New(job, k[r])
    BY <1>4 DEF Made
  <2> HIDE DEF s, d, n
  <2> QED BY <1>0, <1>2, <1>3, <1>10, <2>1 DEF RankIs, SetUp, Finished
<1>12. \A x \in A!Ranks : /\ RingSent(k'[r], pc'[r], delta_rank'[r], x) = RingSent(k[r], pc[r], delta_rank[r], x)
                          /\ RingGot(k'[r], pc'[r], delta_rank'[r], x) = (IF x <= d THEN k[r] + 1 ELSE k[r])
                          /\ RingGot(k[r], pc[r], delta_rank[r], x) = (IF x < d THEN k[r] + 1 ELSE k[r])
  <2>1. A!nranks \in Nat /\ A!Ranks = 0 .. A!nranks - 1
    BY DistIs
  <2> HIDE DEF s, n
  <2> SUFFICES ASSUME NEW x \in A!Ranks
               PROVE  /\ RingSent(k'[r], pc'[r], delta_rank'[r], x) = RingSent(k[r], pc[r], delta_rank[r], x)
                      /\ RingGot(k'[r], pc'[r], delta_rank'[r], x) = (IF x <= d THEN k[r] + 1 ELSE k[r])
                      /\ RingGot(k[r], pc[r], delta_rank[r], x) = (IF x < d THEN k[r] + 1 ELSE k[r])
    OBVIOUS
  <2>2. CASE d = A!nranks - 1
    <3>1. x <= d /\ x \in Nat /\ d \in Nat
      BY <1>4, <2>1, <2>2
    <3> QED BY <1>0, <1>2, <2>2, <3>1 DEF RingSent, RingGot
  <2>3. CASE d # A!nranks - 1
    <3>1. x \in Nat /\ d \in Nat /\ (x < d + 1 <=> x <= d)
      BY <1>4, <2>1
    <3> QED BY <1>0, <1>2, <2>3, <3>1 DEF RingSent, RingGot
  <2> QED BY <2>2, <2>3
<1>13. \A t \in A!Ranks : RingStream(job, t, r, net'["world"][t][r], RingGot(k'[r], pc'[r], delta_rank'[r], Dist(t, r)),
                                     RingSent(k[t], pc[t], delta_rank[t], Dist(t, r)))
  <2> SUFFICES ASSUME NEW t \in A!Ranks
               PROVE  RingStream(job, t, r, net'["world"][t][r], RingGot(k'[r], pc'[r], delta_rank'[r], Dist(t, r)),
                                 RingSent(k[t], pc[t], delta_rank[t], Dist(t, r)))
    OBVIOUS
  <2> HIDE DEF s, n
  <2>1. Dist(t, r) \in A!Ranks /\ Dist(t, r) \in Nat /\ d \in Nat
    BY <1>3, <1>4, <1>5, DistIs
  <2>2. CASE t = s
    <3>1. RingGot(k'[r], pc'[r], delta_rank'[r], Dist(t, r)) = k[r] + 1
      BY <1>5, <1>12, <2>1, <2>2
    <3> QED BY <1>6, <1>8, <2>2, <3>1
  <2>3. CASE t # s
    <3>1. Dist(t, r) # d
      BY <1>5, <2>3
    <3>2. RingGot(k'[r], pc'[r], delta_rank'[r], Dist(t, r)) = RingGot(k[r], pc[r], delta_rank[r], Dist(t, r))
      BY <1>12, <2>1, <3>1
    <3>3. net'["world"][t][r] = net["world"][t][r]
      BY <1>6, <2>3
    <3> QED BY <3>2, <3>3, RingHere
  <2> QED BY <2>2, <2>3
<1>14. RingInv'
  <2> HIDE DEF s, c, d, n
  <2>1. \A q \in A!Ranks : Dist(r, q) \in A!Ranks
    BY DistIs
  <2>2. \A q \in A!Ranks : q # r => RingStream(job, r, q, net'["world"][r][q], RingGot(k[q], pc[q], delta_rank[q], Dist(r, q)),
                                                RingSent(k'[r], pc'[r], delta_rank'[r], Dist(r, q)))
    BY <1>6, <1>12, <2>1, RingHere
  <2>3. \A q, t \in A!Ranks : q # r => net'["world"][t][q] = net["world"][t][q]
    BY <1>6
  <2>4. RingStream(job, r, r, net'["world"][r][r], RingGot(k'[r], pc'[r], delta_rank'[r], Dist(r, r)),
                   RingSent(k'[r], pc'[r], delta_rank'[r], Dist(r, r)))
    BY <1>12, <1>13, <2>1
  <2> QED BY <1>1, <1>13, <2>2, <2>3, <2>4, RingKept
<1>15. CartInv'
  <2>1. CartGot(k'[r], pc'[r]) = CartGot(k[r], pc[r]) /\ CartSent(k'[r], pc'[r]) = CartSent(k[r], pc[r])
    BY <1>0, <1>2 DEF CartGot, CartSent
  <2> QED BY <1>1, <1>6, <2>1, CartSame
<1> QED BY <1>1, <1>11, <1>14, <1>15, RanksKept DEF AllToAllInv

\* When the ring is over a rank knows from whom it will hear, and how much.
LEMMA NoteFromIs ==
  ASSUME AllToAllInv, NEW r \in A!Ranks, pc[r] \in {"explain", "learn"}
  PROVE  LET c == Prog(job)[k[r]]
         IN  /\ c \in DOMAIN Jobs[job].list /\ job \in DOMAIN Jobs /\ k[r] \in 1 .. Len(Prog(job))
             /\ A!NoteFrom(r) = {q \in A!Ranks : Told(job, c, q, r) # <<>>}
             /\ \A q \in A!Ranks : Len(IF A!Scatter(r) THEN fr[r][q] ELSE to[r][q]) = Len(Told(job, c, q, r))
             /\ \A q \in A!Ranks : k[r] \in Explained(job, q, r) <=> Told(job, c, q, r) # <<>>
             /\ \A q \in A!Ranks : k[r] \in Explained(job, r, q) <=> Told(job, c, r, q) # <<>>
             /\ \A q \in A!Ranks : A!Explanation(r)[q] = Told(job, c, r, q)
             /\ IF Comm(job, c).kind = "scatter" THEN A!Scatter(r) /\ to[r] = ToOf(job, c, r)
                ELSE ~ A!Scatter(r) /\ fr[r] = FrOf(job, c, r)
<1> DEFINE c == Prog(job)[k[r]]
           places == IF A!Scatter(r) THEN fr[r] ELSE to[r]
<1>1. /\ c \in DOMAIN Jobs[job].list /\ job \in DOMAIN Jobs /\ k[r] \in 1 .. Len(Prog(job))
      /\ A!Op(r) = Comm(job, c) /\ (A!Scatter(r) <=> Comm(job, c).kind = "scatter")
  BY RankHere
<1>2. /\ k[r] \in Made(job)
      /\ IF A!Scatter(r) THEN to[r] = ToOf(job, c, r) /\ Heard(job, c, r, pc[r], delta_rank[r], fr[r])
         ELSE fr[r] = FrOf(job, c, r) /\ Heard(job, c, r, pc[r], delta_rank[r], to[r])
  BY SetUpHere DEF SetUp
<1>3. Heard(job, c, r, pc[r], delta_rank[r], places)
  BY <1>2
<1>4. \A q \in A!Ranks : (k[r] \in Explained(job, q, r) <=> Told(job, c, q, r) # <<>>)
                         /\ (k[r] \in Explained(job, r, q) <=> Told(job, c, r, q) # <<>>)
  BY <1>2 DEF Explained
<1> HIDE DEF c
<1>5. \A q \in A!Ranks : A!Explanation(r)[q] = Told(job, c, r, q)
  <2>1. \A q \in A!Ranks :
          A!Fields(Comm(job, c).list[r], IF Comm(job, c).kind = "scatter" THEN "dest" ELSE "loc")[q] = Told(job, c, r, q)
    BY <1>1, ToldIs
  <2> QED BY <1>1, <2>1 DEF A!Explanation
<1>6. \A q \in A!Ranks : places[q] \in Seq(Int) /\ Len(places[q]) = Len(Told(job, c, q, r))
  <2> HIDE DEF places
  <2> QED BY <1>3 DEF Heard
<1>7. \A q \in A!Ranks : places[q] # <<>> <=> Told(job, c, q, r) # <<>>
  <2> HIDE DEF places
  <2>1. \A q \in A!Ranks : Told(job, c, q, r) \in Seq(Int)
    BY <1>1, ToldIs
  <2>2. \A x \in Seq(Int) : x = <<>> <=> Len(x) = 0
    BY EmptySeq
  <2> QED BY <1>6, <2>1, <2>2
<1>8. A!NoteFrom(r) = {q \in A!Ranks : places[q] # <<>>}
  BY DEF A!NoteFrom, A!Ranked
<1>9. \A q \in A!Ranks : places[q] = IF A!Scatter(r) THEN fr[r][q] ELSE to[r][q]
  OBVIOUS
<1> HIDE DEF places
<1>10. A!NoteFrom(r) = {q \in A!Ranks : Told(job, c, q, r) # <<>>}
  BY <1>7, <1>8
<1>11. \A q \in A!Ranks : Len(IF A!Scatter(r) THEN fr[r][q] ELSE to[r][q]) = Len(Told(job, c, q, r))
  BY <1>6, <1>9
<1>12. IF Comm(job, c).kind = "scatter" THEN A!Scatter(r) /\ to[r] = ToOf(job, c, r)
       ELSE ~ A!Scatter(r) /\ fr[r] = FrOf(job, c, r)
  BY <1>1, <1>2
<1> QED BY <1>1, <1>4, <1>5, <1>10, <1>11, <1>12 DEF c

\* Explain
LEMMA ExplainKeeps == ASSUME AllToAllInv, NEW r \in A!Ranks, A!Explain(r) PROVE AllToAllInv'
<1> DEFINE c == Prog(job)[k[r]]
           msgs == [q \in A!Ranks |-> IF A!Explanation(r)[q] = <<>> THEN <<>>
                                      ELSE <<[about |-> "places", of |-> k[r], body |-> A!Explanation(r)[q]]>>]
<1>1. Apart(r)
  BY ApartIs DEF A!RankStep, AllToAllInv
<1>2. /\ pc[r] = "explain" /\ pc'[r] = "learn" /\ delta_rank'[r] = delta_rank[r] /\ k'[r] = k[r] /\ made'[r] = made[r]
      /\ data'[r] = data[r] /\ to'[r] = to[r] /\ fr'[r] = fr[r] /\ net' = A!Post(r, "cart", msgs)
  BY DEF A!Explain, AllToAllInv, Shapes
<1>3. /\ RankIs(job, r, k[r], pc[r], delta_rank[r], to[r], fr[r], made[r], data[r]) /\ job \in DOMAIN Jobs
      /\ k[r] \in Nat /\ Shapes
  BY RankHere
<1>4. /\ k[r] \in 1 .. Len(Prog(job))
      /\ \A q \in A!Ranks : /\ A!Explanation(r)[q] = Told(job, c, r, q)
                            /\ k[r] \in Explained(job, r, q) <=> Told(job, c, r, q) # <<>>
  BY <1>2, NoteFromIs
<1>5. \A q \in A!Ranks : msgs[q] = IF k[r] \in Explained(job, r, q) THEN <<Note(job, k[r], r, q)>> ELSE <<>>
  BY <1>4 DEF Note
<1> HIDE DEF msgs
<1>6. /\ \A s, q \in A!Ranks : net'["cart"][s][q] = IF s = r THEN net["cart"][s][q] \o msgs[q] ELSE net["cart"][s][q]
      /\ net'["world"] = net["world"]
  BY <1>2, <1>3, Posts
<1>7. RankIs(job, r, k'[r], pc'[r], delta_rank'[r], to'[r], fr'[r], made'[r], data'[r])
  <2>1. \A x, y, z, d, w : Heard(x, y, z, "explain", d, w) => Heard(x, y, z, "learn", d, w)
    BY DEF Heard
  <2> QED BY <1>2, <1>3, <2>1 DEF RankIs, SetUp, Finished
<1>8. RingInv'
  <2>1. \A x : /\ RingGot(k'[r], pc'[r], delta_rank'[r], x) = RingGot(k[r], pc[r], delta_rank[r], x)
               /\ RingSent(k'[r], pc'[r], delta_rank'[r], x) = RingSent(k[r], pc[r], delta_rank[r], x)
    BY <1>2 DEF RingSent, RingGot
  <2> QED BY <1>1, <1>6, <2>1, RingSame
<1>9. /\ CartSent(k[r], pc[r]) = 2 * k[r] /\ CartSent(k'[r], pc'[r]) = 2 * k[r] + 1
      /\ CartGot(k'[r], pc'[r]) = CartGot(k[r], pc[r])
  BY <1>2 DEF CartSent, CartGot
<1>10. \A q \in A!Ranks : CartStream(job, r, q, net'["cart"][r][q], CartGot(k[q], pc[q]), CartSent(k'[r], pc'[r]))
  <2> SUFFICES ASSUME NEW q \in A!Ranks
               PROVE  CartStream(job, r, q, net'["cart"][r][q], CartGot(k[q], pc[q]), 2 * k[r] + 1)
    BY <1>9
  <2>1. /\ CartStream(job, r, q, net["cart"][r][q], CartGot(k[q], pc[q]), 2 * k[r])
        /\ CartGot(k[q], pc[q]) \in Nat /\ net["cart"][r][q] \o <<>> = net["cart"][r][q]
    BY <1>9, CartHere
  <2>2. CASE k[r] \in Explained(job, r, q)
    <3>1. net'["cart"][r][q] = net["cart"][r][q] \o <<Note(job, k[r], r, q)>>
      BY <1>5, <1>6, <2>2
    <3> QED BY <1>3, <1>4, <2>1, <2>2, <3>1, CartSends
  <2>3. CASE k[r] \notin Explained(job, r, q)
    <3>1. net'["cart"][r][q] = net["cart"][r][q]
      BY <1>5, <1>6, <2>1, <2>3
    <3> QED BY <1>3, <1>4, <2>1, <2>3, <3>1, CartSends
  <2> QED BY <2>2, <2>3
<1>11. CartInv'
  <2>1. \A s \in A!Ranks : s # r => CartStream(job, s, r, net'["cart"][s][r], CartGot(k'[r], pc'[r]), CartSent(k[s], pc[s]))
    BY <1>6, <1>9, CartHere
  <2>2. \A s, q \in A!Ranks : s # r => net'["cart"][s][q] = net["cart"][s][q]
    BY <1>6
  <2>3. CartStream(job, r, r, net'["cart"][r][r], CartGot(k'[r], pc'[r]), CartSent(k'[r], pc'[r]))
    BY <1>9, <1>10
  <2> QED BY <1>1, <1>10, <2>1, <2>2, <2>3, CartKept
<1> QED BY <1>1, <1>7, <1>8, <1>11, RanksKept DEF AllToAllInv

\* The check of places put twice does not stop a program whose lists are right.
LEMMA NotMultiply ==
  ASSUME NEW j \in DOMAIN Jobs, NEW c \in DOMAIN Jobs[j].list, NEW r \in A!Ranks
  PROVE  ~ A!MultiplyAssigned(FrOf(j, c, r))
<1> SUFFICES ASSUME NEW q \in A!Ranks, NEW s \in A!Ranks, NEW i \in DOMAIN FrOf(j, c, r)[q], NEW n \in DOMAIN FrOf(j, c, r)[s],
                    <<q, i>> # <<s, n>>, FrOf(j, c, r)[q][i] = FrOf(j, c, r)[s][n]
             PROVE  FALSE
  BY DEF A!MultiplyAssigned
<1>1. FrOf(j, c, r)[q] = Between(j, c, q, r, "dest") /\ FrOf(j, c, r)[s] = Between(j, c, s, r, "dest")
  BY DEF FrOf
<1>2. \A t \in A!Ranks : Between(j, c, t, r, "dest") \in Seq(Int) /\ Len(Between(j, c, t, r, "dest")) = Num(j, c, t, r)
  BY BetweenIs
<1>3. i \in 1 .. Num(j, c, q, r) /\ n \in 1 .. Num(j, c, s, r)
  BY <1>1, <1>2, LenProperties
<1> QED BY <1>1, <1>3, OnePlace

\* Learn
LEMMA LearnKeeps == ASSUME AllToAllInv, NEW r \in A!Ranks, A!Learn(r) PROVE AllToAllInv'
<1> DEFINE c == Prog(job)[k[r]]
           F == A!NoteFrom(r)
           note == [q \in A!Ranks |-> IF q \in F THEN Head(net["cart"][q][r]).body ELSE <<>>]
<1>1. Apart(r)
  BY ApartIs DEF A!RankStep, AllToAllInv
<1>2. /\ pc[r] = "learn" /\ net' = A!Take(r, "cart", F) /\ \A q \in F : net["cart"][q][r] # <<>>
      /\ delta_rank'[r] = delta_rank[r] /\ k'[r] = k[r] /\ data'[r] = data[r]
      /\ IF A!Scatter(r) THEN fr'[r] = note /\ to'[r] = to[r] ELSE to'[r] = note /\ fr'[r] = fr[r]
      /\ pc'[r] = IF A!MultiplyAssigned(fr'[r]) THEN "crash" ELSE "send"
      /\ made'[r] = [x \in DOMAIN made[r] \union {A!Name(r)} |->
                       IF x = A!Name(r) THEN [to |-> to'[r], fr |-> fr'[r]] ELSE made[r][x]]
  <2> HIDE DEF F, c
  <2>1. A!Learn(r) /\ DOMAIN fr = A!Ranks /\ DOMAIN to = A!Ranks /\ DOMAIN pc = A!Ranks /\ DOMAIN made = A!Ranks
    BY DEF AllToAllInv, Shapes
  <2> QED BY <2>1 DEF A!Learn, A!Complete, F
<1>3. /\ RankIs(job, r, k[r], pc[r], delta_rank[r], to[r], fr[r], made[r], data[r]) /\ job \in DOMAIN Jobs
      /\ k[r] \in Nat /\ Shapes /\ A!Name(r) = c
  BY <1>2, RankHere
<1>4. /\ k[r] \in 1 .. Len(Prog(job)) /\ c \in DOMAIN Jobs[job].list /\ F = {q \in A!Ranks : Told(job, c, q, r) # <<>>}
      /\ \A q \in A!Ranks : k[r] \in Explained(job, q, r) <=> Told(job, c, q, r) # <<>>
      /\ IF Comm(job, c).kind = "scatter" THEN A!Scatter(r) /\ to[r] = ToOf(job, c, r)
         ELSE ~ A!Scatter(r) /\ fr[r] = FrOf(job, c, r)
  BY <1>2, NoteFromIs
<1>5. /\ CartGot(k[r], pc[r]) = 2 * k[r] /\ CartGot(k'[r], "send") = 2 * k[r] + 1
      /\ CartSent(k'[r], "send") = CartSent(k[r], pc[r])
  BY <1>2 DEF CartSent, CartGot
<1> HIDE DEF c, F
<1>6. \A q \in A!Ranks : q \in F =>
        /\ Head(net["cart"][q][r]) = Note(job, k[r], q, r)
        /\ CartStream(job, q, r, Tail(net["cart"][q][r]), 2 * k[r] + 1, CartSent(k[q], pc[q]))
  <2> SUFFICES ASSUME NEW q \in A!Ranks, q \in F
               PROVE  /\ Head(net["cart"][q][r]) = Note(job, k[r], q, r)
                      /\ CartStream(job, q, r, Tail(net["cart"][q][r]), 2 * k[r] + 1, CartSent(k[q], pc[q]))
    OBVIOUS
  <2>1. CartStream(job, q, r, net["cart"][q][r], 2 * k[r], CartSent(k[q], pc[q])) /\ CartSent(k[q], pc[q]) \in Nat
    BY <1>5, CartHere
  <2>2. k[r] \in Explained(job, q, r) /\ net["cart"][q][r] # <<>>
    BY <1>2, <1>4
  <2> QED BY <1>3, <1>4, <2>1, <2>2, CartTakes
<1>7. \A q \in A!Ranks : q \notin F => CartStream(job, q, r, net["cart"][q][r], 2 * k[r] + 1, CartSent(k[q], pc[q]))
  <2> SUFFICES ASSUME NEW q \in A!Ranks, q \notin F
               PROVE  CartStream(job, q, r, net["cart"][q][r], 2 * k[r] + 1, CartSent(k[q], pc[q]))
    OBVIOUS
  <2>1. CartStream(job, q, r, net["cart"][q][r], 2 * k[r], CartSent(k[q], pc[q])) /\ CartSent(k[q], pc[q]) \in Nat
    BY <1>5, CartHere
  <2>2. k[r] \notin Explained(job, q, r)
    BY <1>4
  <2> QED BY <1>3, <1>4, <2>1, <2>2, CartTakes
<1>8. \A q \in A!Ranks : note[q] = Told(job, c, q, r)
  <2>1. \A q \in A!Ranks : Note(job, k[r], q, r).body = Told(job, c, q, r)
    BY DEF Note, c
  <2>2. \A q \in A!Ranks : q \in F => note[q] = Told(job, c, q, r)
    BY <1>6, <2>1
  <2>3. \A q \in A!Ranks : q \notin F => note[q] = Told(job, c, q, r)
    BY <1>4
  <2> QED BY <2>2, <2>3
<1>9. to'[r] = ToOf(job, c, r) /\ fr'[r] = FrOf(job, c, r)
  <2>1. CASE Comm(job, c).kind = "scatter"
    <3>0. \A q \in A!Ranks : FrOf(job, c, r)[q] = Told(job, c, q, r)
      BY <1>3, <1>4, <2>1, ToldIs
    <3>1. \A q \in A!Ranks : FrOf(job, c, r)[q] = note[q]
      BY <1>8, <3>0
    <3>2. FrOf(job, c, r) = [q \in A!Ranks |-> FrOf(job, c, r)[q]] /\ note = [q \in A!Ranks |-> note[q]]
      BY DEF FrOf
    <3> HIDE DEF note
    <3>3. note = FrOf(job, c, r)
      BY <3>1, <3>2
    <3> QED BY <1>2, <1>4, <2>1, <3>3
  <2>2. CASE Comm(job, c).kind # "scatter"
    <3>0. \A q \in A!Ranks : ToOf(job, c, r)[q] = Told(job, c, q, r)
      BY <1>3, <1>4, <2>2, ToldIs
    <3>1. \A q \in A!Ranks : ToOf(job, c, r)[q] = note[q]
      BY <1>8, <3>0
    <3>2. ToOf(job, c, r) = [q \in A!Ranks |-> ToOf(job, c, r)[q]] /\ note = [q \in A!Ranks |-> note[q]]
      BY DEF ToOf
    <3> HIDE DEF note
    <3>3. note = ToOf(job, c, r)
      BY <3>1, <3>2
    <3> QED BY <1>2, <1>4, <2>2, <3>3
  <2> QED BY <2>1, <2>2
<1>10. pc'[r] = "send"
  BY <1>2, <1>3, <1>4, <1>9, NotMultiply
<1>11. RankIs(job, r, k'[r], pc'[r], delta_rank'[r], to'[r], fr'[r], made'[r], data'[r])
  <2>1. /\ DOMAIN made[r] = {Prog(job)[i] : i \in 1 .. k[r] - 1}
        /\ \A x \in DOMAIN made[r] : made[r][x] = [to |-> ToOf(job, x, r), fr |-> FrOf(job, x, r)]
    BY <1>2, <1>3 DEF RankIs, Finished
  <2>2. \A i : i \in 1 .. k[r] <=> i \in 1 .. k[r] - 1 \/ i = k[r]
    BY <1>4
  <2>3. DOMAIN made'[r] = {Prog(job)[i] : i \in 1 .. k[r]}
    <3>1. DOMAIN made'[r] = DOMAIN made[r] \union {Prog(job)[k[r]]}
      BY <1>2, <1>3 DEF c
    <3> QED BY <2>1, <2>2, <3>1
  <2>4. \A x \in DOMAIN made'[r] : made'[r][x] = [to |-> ToOf(job, x, r), fr |-> FrOf(job, x, r)]
    BY <1>2, <1>3, <1>9, <2>1
  <2> HIDE DEF note
  <2> QED BY <1>2, <1>3, <1>4, <1>9, <1>10, <2>3, <2>4 DEF RankIs, SetUp, Finished, c
<1> HIDE DEF note
<1>12. /\ \A s, q \in A!Ranks : net'["cart"][s][q] = IF q = r /\ s \in F THEN Tail(net["cart"][s][q]) ELSE net["cart"][s][q]
       /\ net'["world"] = net["world"]
  BY <1>2, <1>3, Takes
<1>13. RingInv'
  <2>1. \A x : /\ RingGot(k'[r], pc'[r], delta_rank'[r], x) = RingGot(k[r], pc[r], delta_rank[r], x)
               /\ RingSent(k'[r], pc'[r], delta_rank'[r], x) = RingSent(k[r], pc[r], delta_rank[r], x)
    BY <1>2, <1>10 DEF RingSent, RingGot
  <2> QED BY <1>1, <1>12, <2>1, RingSame
<1>14. \A s \in A!Ranks : CartStream(job, s, r, net'["cart"][s][r], CartGot(k'[r], pc'[r]), CartSent(k[s], pc[s]))
  BY <1>5, <1>6, <1>7, <1>10, <1>12
<1>15. CartInv'
  <2>1. \A q \in A!Ranks : q # r => CartStream(job, r, q, net'["cart"][r][q], CartGot(k[q], pc[q]), CartSent(k'[r], pc'[r]))
    BY <1>5, <1>10, <1>12, CartHere
  <2>2. \A s, q \in A!Ranks : q # r => net'["cart"][s][q] = net["cart"][s][q]
    BY <1>12
  <2>3. CartStream(job, r, r, net'["cart"][r][r], CartGot(k'[r], pc'[r]), CartSent(k'[r], pc'[r]))
    BY <1>5, <1>10, <1>14
  <2> QED BY <1>1, <1>14, <2>1, <2>2, <2>3, CartKept
<1> QED BY <1>1, <1>11, <1>13, <1>15, RanksKept DEF AllToAllInv

\* Reuse
LEMMA ReuseKeeps == ASSUME AllToAllInv, NEW r \in A!Ranks, A!Reuse(r) PROVE AllToAllInv'
<1> DEFINE c == Prog(job)[k[r]]
           n == k[r]
<1>1. Apart(r)
  BY ApartIs DEF A!RankStep, AllToAllInv
<1>2. /\ A!Active(r) /\ pc[r] = "idle" /\ A!Inited(r) /\ pc'[r] = "send" /\ net' = net /\ delta_rank'[r] = delta_rank[r]
      /\ k'[r] = n /\ made'[r] = made[r] /\ data'[r] = data[r]
      /\ to'[r] = made[r][A!Name(r)].to /\ fr'[r] = made[r][A!Name(r)].fr
  BY DEF A!Reuse, AllToAllInv, Shapes
<1>3. /\ n \in 1 .. Len(Prog(job)) /\ A!Name(r) = c /\ Len(Prog(job)) \in Nat
      /\ RankIs(job, r, k[r], pc[r], delta_rank[r], to[r], fr[r], made[r], data[r]) /\ job \in DOMAIN Jobs
  BY <1>2, RankHere
<1>4. ~ New(job, n) /\ to'[r] = ToOf(job, c, r) /\ fr'[r] = FrOf(job, c, r)
  <2> HIDE DEF c, n
  <2>1. ~ New(job, k[r]) /\ made[r][A!Name(r)] = [to |-> ToOf(job, A!Name(r), r), fr |-> FrOf(job, A!Name(r), r)]
    BY <1>2, InitedIs
  <2>2. n = k[r]
    BY DEF n
  <2> QED BY <1>2, <1>3, <2>1, <2>2
<1>5. n \notin Made(job) /\ \A s, q \in A!Ranks : n \notin Explained(job, s, q)
  BY <1>4 DEF Made, Explained
<1>6. RankIs(job, r, k'[r], pc'[r], delta_rank'[r], to'[r], fr'[r], made'[r], data'[r])
  <2>1. /\ DOMAIN made[r] = {Prog(job)[i] : i \in 1 .. n - 1}
        /\ \A x \in DOMAIN made[r] : made[r][x] = [to |-> ToOf(job, x, r), fr |-> FrOf(job, x, r)]
    BY <1>2, <1>3 DEF RankIs, Finished
  <2>2. \A i : i \in 1 .. n <=> i \in 1 .. n - 1 \/ i = n
    BY <1>3
  <2>3. \E i \in 1 .. n - 1 : Prog(job)[i] = Prog(job)[n]
    BY <1>4 DEF New
  <2>4. DOMAIN made[r] = {Prog(job)[i] : i \in 1 .. n}
    <3> HIDE DEF n
    <3> QED BY <2>1, <2>2, <2>3
  <2>5. Finished(n, "send") = n
    BY DEF Finished
  <2>6. delta_rank[r] \in A!Ranks /\ data[r] = Had(job, n)[r]
    BY <1>3 DEF RankIs
  <2>7. c = Prog(job)[n] /\ delta_rank'[r] \in A!Ranks /\ made'[r] = made[r] /\ data'[r] = Had(job, n)[r]
    BY <1>2, <2>6
  <2> HIDE DEF c, n
  <2>8. /\ k'[r] = n /\ pc'[r] = "send" /\ n \in 1 .. Len(Prog(job)) + 1 /\ n <= Len(Prog(job)) /\ delta_rank'[r] \in A!Ranks
        /\ to'[r] = ToOf(job, Prog(job)[n], r) /\ fr'[r] = FrOf(job, Prog(job)[n], r)
        /\ DOMAIN made'[r] = {Prog(job)[i] : i \in 1 .. Finished(n, "send")}
        /\ \A x \in DOMAIN made'[r] : made'[r][x] = [to |-> ToOf(job, x, r), fr |-> FrOf(job, x, r)]
        /\ data'[r] = Had(job, n)[r]
    <3>1. k'[r] = n /\ pc'[r] = "send" /\ n \in 1 .. Len(Prog(job)) + 1 /\ n <= Len(Prog(job))
      BY <1>2, <1>3
    <3>2. DOMAIN made'[r] = {Prog(job)[i] : i \in 1 .. Finished(n, "send")}
      BY <2>4, <2>5, <2>7
    <3>3. \A x \in DOMAIN made'[r] : made'[r][x] = [to |-> ToOf(job, x, r), fr |-> FrOf(job, x, r)]
      BY <2>1, <2>7
    <3>4. to'[r] = ToOf(job, Prog(job)[n], r) /\ fr'[r] = FrOf(job, Prog(job)[n], r)
      BY <1>4, <2>7
    <3> QED BY <2>7, <3>1, <3>2, <3>3, <3>4
  <2> QED BY <2>8 DEF RankIs, SetUp
<1>7. \A x : /\ RingGot(k[r], pc[r], delta_rank[r], x) = n /\ RingSent(k[r], pc[r], delta_rank[r], x) = n
             /\ RingGot(k'[r], pc'[r], delta_rank'[r], x) = n + 1 /\ RingSent(k'[r], pc'[r], delta_rank'[r], x) = n + 1
  BY <1>2 DEF RingGot, RingSent
<1>8. /\ CartGot(k[r], pc[r]) = 2 * n /\ CartSent(k[r], pc[r]) = 2 * n
      /\ CartGot(k'[r], pc'[r]) = 2 * n + 1 /\ CartSent(k'[r], pc'[r]) = 2 * n + 1
  BY <1>2 DEF CartGot, CartSent
<1>0. n \in Nat /\ n + 1 \in Nat /\ 2 * n \in Nat /\ 2 * n + 1 \in Nat
  BY <1>3
<1> HIDE DEF c, n
<1>9. RingInv'
  <2>1. \A q \in A!Ranks : q # r => RingStream(job, r, q, net["world"][r][q], RingGot(k[q], pc[q], delta_rank[q], Dist(r, q)), n + 1)
    <3> SUFFICES ASSUME NEW q \in A!Ranks
                 PROVE  RingStream(job, r, q, net["world"][r][q], RingGot(k[q], pc[q], delta_rank[q], Dist(r, q)), n + 1)
      OBVIOUS
    <3>1. /\ RingStream(job, r, q, net["world"][r][q], RingGot(k[q], pc[q], delta_rank[q], Dist(r, q)), n)
          /\ RingGot(k[q], pc[q], delta_rank[q], Dist(r, q)) \in Nat
      BY <1>7, RingHere
    <3> QED BY <1>0, <1>3, <1>5, <3>1, RingGoesOn
  <2>2. \A q \in A!Ranks : q # r => RingStream(job, q, r, net["world"][q][r], n + 1, RingSent(k[q], pc[q], delta_rank[q], Dist(q, r)))
    <3> SUFFICES ASSUME NEW q \in A!Ranks
                 PROVE  RingStream(job, q, r, net["world"][q][r], n + 1, RingSent(k[q], pc[q], delta_rank[q], Dist(q, r)))
      OBVIOUS
    <3>1. /\ RingStream(job, q, r, net["world"][q][r], n, RingSent(k[q], pc[q], delta_rank[q], Dist(q, r)))
          /\ RingSent(k[q], pc[q], delta_rank[q], Dist(q, r)) \in Nat
      BY <1>7, RingHere
    <3> QED BY <1>0, <1>3, <1>5, <3>1, RingGoesOn
  <2>3. RingStream(job, r, r, net["world"][r][r], n + 1, n + 1)
    <3>1. RingStream(job, r, r, net["world"][r][r], n, n)
      BY <1>7, RingHere
    <3>2. RingStream(job, r, r, net["world"][r][r], n, n + 1)
      BY <1>0, <1>3, <1>5, <3>1, RingGoesOn
    <3> QED BY <1>0, <1>3, <1>5, <3>2, RingGoesOn
  <2> QED BY <1>1, <1>2, <1>7, <2>1, <2>2, <2>3, RingKept
<1>10. CartInv'
  <2>1. \A q \in A!Ranks : q # r => CartStream(job, r, q, net["cart"][r][q], CartGot(k[q], pc[q]), 2 * n + 1)
    <3> SUFFICES ASSUME NEW q \in A!Ranks PROVE CartStream(job, r, q, net["cart"][r][q], CartGot(k[q], pc[q]), 2 * n + 1)
      OBVIOUS
    <3>1. CartStream(job, r, q, net["cart"][r][q], CartGot(k[q], pc[q]), 2 * n) /\ CartGot(k[q], pc[q]) \in Nat
      BY <1>8, CartHere
    <3> QED BY <1>3, <1>5, <3>1, CartSends
  <2>2. \A q \in A!Ranks : q # r => CartStream(job, q, r, net["cart"][q][r], 2 * n + 1, CartSent(k[q], pc[q]))
    <3> SUFFICES ASSUME NEW q \in A!Ranks PROVE CartStream(job, q, r, net["cart"][q][r], 2 * n + 1, CartSent(k[q], pc[q]))
      OBVIOUS
    <3>1. CartStream(job, q, r, net["cart"][q][r], 2 * n, CartSent(k[q], pc[q])) /\ CartSent(k[q], pc[q]) \in Nat
      BY <1>8, CartHere
    <3> QED BY <1>3, <1>5, <3>1, CartTakes
  <2>3. CartStream(job, r, r, net["cart"][r][r], 2 * n + 1, 2 * n + 1)
    <3>1. CartStream(job, r, r, net["cart"][r][r], 2 * n, 2 * n)
      BY <1>8, CartHere
    <3>2. CartStream(job, r, r, net["cart"][r][r], 2 * n, 2 * n + 1)
      BY <1>0, <1>3, <1>5, <3>1, CartSends
    <3> QED BY <1>0, <1>3, <1>5, <3>2, CartTakes
  <2> QED BY <1>1, <1>2, <1>8, <2>1, <2>2, <2>3, CartKept
<1> QED BY <1>1, <1>6, <1>9, <1>10, RanksKept DEF AllToAllInv

\* Sending and receiving, a rank knows both sides.
LEMMA ExchangeHere ==
  ASSUME AllToAllInv, NEW r \in A!Ranks, pc[r] \in {"send", "receive"}
  PROVE  LET c == Prog(job)[k[r]]
         IN  /\ c \in DOMAIN Jobs[job].list /\ job \in DOMAIN Jobs /\ k[r] \in 1 .. Len(Prog(job))
             /\ to[r] = ToOf(job, c, r) /\ fr[r] = FrOf(job, c, r) /\ data[r] = Had(job, k[r])[r]
             /\ \A q \in A!Ranks : /\ Num(job, c, r, q) \in Nat /\ Num(job, c, q, r) \in Nat
                                   /\ Len(to[r][q]) = Num(job, c, r, q) /\ Len(fr[r][q]) = Num(job, c, q, r)
                                   /\ to[r][q] # <<>> <=> k[r] \in Moving(job, r, q)
                                   /\ fr[r][q] # <<>> <=> k[r] \in Moving(job, q, r)
                                   /\ k[r] \in Moving(job, q, r) <=> Num(job, c, q, r) # 0
             /\ A!Ranked(fr[r]) = {q \in A!Ranks : k[r] \in Moving(job, q, r)}
             /\ A!Scatter(r) <=> Comm(job, c).kind = "scatter"
<1> DEFINE c == Prog(job)[k[r]]
<1>1. RankIs(job, r, k[r], pc[r], delta_rank[r], to[r], fr[r], made[r], data[r]) /\ job \in DOMAIN Jobs
  BY RankHere
<1>2. pc[r] # "idle"
  OBVIOUS
<1>3. k[r] \in 1 .. Len(Prog(job)) /\ c \in DOMAIN Jobs[job].list /\ (A!Scatter(r) <=> Comm(job, c).kind = "scatter")
  BY <1>2, RankHere
<1>4. to[r] = ToOf(job, c, r) /\ fr[r] = FrOf(job, c, r) /\ data[r] = Had(job, k[r])[r]
  BY <1>1 DEF RankIs
<1>5. \A q \in A!Ranks : /\ k[r] \in Moving(job, r, q) <=> Num(job, c, r, q) # 0
                         /\ k[r] \in Moving(job, q, r) <=> Num(job, c, q, r) # 0
  BY <1>3 DEF Moving
<1> HIDE DEF c
<1>6. \A q \in A!Ranks : /\ to[r][q] \in Seq(Int) /\ Len(to[r][q]) = Num(job, c, r, q) /\ Num(job, c, r, q) \in Nat
                         /\ fr[r][q] \in Seq(Int) /\ Len(fr[r][q]) = Num(job, c, q, r) /\ Num(job, c, q, r) \in Nat
  <2> SUFFICES ASSUME NEW q \in A!Ranks
               PROVE  /\ to[r][q] \in Seq(Int) /\ Len(to[r][q]) = Num(job, c, r, q) /\ Num(job, c, r, q) \in Nat
                      /\ fr[r][q] \in Seq(Int) /\ Len(fr[r][q]) = Num(job, c, q, r) /\ Num(job, c, q, r) \in Nat
    OBVIOUS
  <2>1. to[r][q] = Between(job, c, r, q, "loc") /\ fr[r][q] = Between(job, c, q, r, "dest")
    BY <1>4 DEF ToOf, FrOf
  <2>2. /\ Between(job, c, r, q, "loc") \in Seq(Int) /\ Len(Between(job, c, r, q, "loc")) = Num(job, c, r, q)
        /\ Num(job, c, r, q) \in Nat
    BY <1>1, <1>3, BetweenIs
  <2>3. /\ Between(job, c, q, r, "dest") \in Seq(Int) /\ Len(Between(job, c, q, r, "dest")) = Num(job, c, q, r)
        /\ Num(job, c, q, r) \in Nat
    BY <1>1, <1>3, BetweenIs
  <2> QED BY <2>1, <2>2, <2>3
<1>7. \A x \in Seq(Int) : x = <<>> <=> Len(x) = 0
  BY EmptySeq
<1>8. \A q \in A!Ranks : /\ to[r][q] # <<>> <=> k[r] \in Moving(job, r, q)
                         /\ fr[r][q] # <<>> <=> k[r] \in Moving(job, q, r)
  BY <1>5, <1>6, <1>7
<1>9. A!Ranked(fr[r]) = {q \in A!Ranks : k[r] \in Moving(job, q, r)}
  BY <1>8 DEF A!Ranked
<1> QED BY <1>1, <1>3, <1>4, <1>5, <1>6, <1>8, <1>9 DEF c

\* Send
LEMMA SendKeeps == ASSUME AllToAllInv, NEW r \in A!Ranks, A!Send(r) PROVE AllToAllInv'
<1> DEFINE c == Prog(job)[k[r]]
           msgs == [q \in A!Ranks |->
                      IF to[r][q] = <<>> THEN <<>>
                      ELSE <<[about |-> "data", of |-> k[r],
                              body |-> [i \in 1 .. Len(to[r][q]) |-> A!Element(r, to[r][q][i])]]>>]
<1>1. Apart(r)
  BY ApartIs DEF A!RankStep, AllToAllInv
<1>2. /\ pc[r] = "send" /\ pc'[r] = "receive" /\ delta_rank'[r] = delta_rank[r] /\ k'[r] = k[r] /\ made'[r] = made[r]
      /\ data'[r] = data[r] /\ to'[r] = to[r] /\ fr'[r] = fr[r] /\ net' = A!Post(r, "cart", msgs)
  BY DEF A!Send, AllToAllInv, Shapes
<1>3. /\ RankIs(job, r, k[r], pc[r], delta_rank[r], to[r], fr[r], made[r], data[r]) /\ job \in DOMAIN Jobs
      /\ k[r] \in Nat /\ Shapes
  BY RankHere
<1>4. /\ k[r] \in 1 .. Len(Prog(job)) /\ c \in DOMAIN Jobs[job].list /\ to[r] = ToOf(job, c, r) /\ data[r] = Had(job, k[r])[r]
      /\ \A q \in A!Ranks : /\ Len(to[r][q]) = Num(job, c, r, q) /\ (to[r][q] # <<>> <=> k[r] \in Moving(job, r, q))
  BY <1>2, ExchangeHere
<1>5. \A q \in A!Ranks : msgs[q] = IF k[r] \in Moving(job, r, q) THEN <<Load(job, k[r], r, q)>> ELSE <<>>
  <2> SUFFICES ASSUME NEW q \in A!Ranks
               PROVE  msgs[q] = IF k[r] \in Moving(job, r, q) THEN <<Load(job, k[r], r, q)>> ELSE <<>>
    OBVIOUS
  <2>1. [i \in 1 .. Len(to[r][q]) |-> A!Element(r, to[r][q][i])] = Carried(job, c, Had(job, k[r]), r, q)
    BY <1>4 DEF A!Element, ToOf, Carried
  <2>2. Load(job, k[r], r, q) = [about |-> "data", of |-> k[r], body |-> [i \in 1 .. Len(to[r][q]) |-> A!Element(r, to[r][q][i])]]
    BY <2>1 DEF Load
  <2> QED BY <1>4, <2>2
<1> HIDE DEF msgs, c
<1>6. /\ \A s, q \in A!Ranks : net'["cart"][s][q] = IF s = r THEN net["cart"][s][q] \o msgs[q] ELSE net["cart"][s][q]
      /\ net'["world"] = net["world"]
  BY <1>2, <1>3, Posts
<1>7. RankIs(job, r, k'[r], pc'[r], delta_rank'[r], to'[r], fr'[r], made'[r], data'[r])
  BY <1>2, <1>3 DEF RankIs, SetUp, Finished
<1>8. RingInv'
  <2>1. \A x : /\ RingGot(k'[r], pc'[r], delta_rank'[r], x) = RingGot(k[r], pc[r], delta_rank[r], x)
               /\ RingSent(k'[r], pc'[r], delta_rank'[r], x) = RingSent(k[r], pc[r], delta_rank[r], x)
    BY <1>2 DEF RingSent, RingGot
  <2> QED BY <1>1, <1>6, <2>1, RingSame
<1>9. /\ CartSent(k[r], pc[r]) = 2 * k[r] + 1 /\ CartSent(k'[r], pc'[r]) = 2 * k[r] + 2
      /\ CartGot(k'[r], pc'[r]) = CartGot(k[r], pc[r])
  BY <1>2 DEF CartSent, CartGot
<1>10. \A q \in A!Ranks : CartStream(job, r, q, net'["cart"][r][q], CartGot(k[q], pc[q]), CartSent(k'[r], pc'[r]))
  <2> SUFFICES ASSUME NEW q \in A!Ranks
               PROVE  CartStream(job, r, q, net'["cart"][r][q], CartGot(k[q], pc[q]), 2 * k[r] + 2)
    BY <1>9
  <2>1. /\ CartStream(job, r, q, net["cart"][r][q], CartGot(k[q], pc[q]), 2 * k[r] + 1)
        /\ CartGot(k[q], pc[q]) \in Nat /\ net["cart"][r][q] \o <<>> = net["cart"][r][q]
    BY <1>9, CartHere
  <2>2. CASE k[r] \in Moving(job, r, q)
    <3>1. net'["cart"][r][q] = net["cart"][r][q] \o <<Load(job, k[r], r, q)>>
      BY <1>5, <1>6, <2>2
    <3> QED BY <1>3, <1>4, <2>1, <2>2, <3>1, CartSends
  <2>3. CASE k[r] \notin Moving(job, r, q)
    <3>1. net'["cart"][r][q] = net["cart"][r][q]
      BY <1>5, <1>6, <2>1, <2>3
    <3> QED BY <1>3, <1>4, <2>1, <2>3, <3>1, CartSends
  <2> QED BY <2>2, <2>3
<1>11. CartInv'
  <2>1. \A s \in A!Ranks : s # r => CartStream(job, s, r, net'["cart"][s][r], CartGot(k'[r], pc'[r]), CartSent(k[s], pc[s]))
    BY <1>6, <1>9, CartHere
  <2>2. \A s, q \in A!Ranks : s # r => net'["cart"][s][q] = net["cart"][s][q]
    BY <1>6
  <2>3. CartStream(job, r, r, net'["cart"][r][r], CartGot(k'[r], pc'[r]), CartSent(k'[r], pc'[r]))
    BY <1>9, <1>10
  <2> QED BY <1>1, <1>10, <2>1, <2>2, <2>3, CartKept
<1> QED BY <1>1, <1>7, <1>8, <1>11, RanksKept DEF AllToAllInv

\* Receive
LEMMA ReceiveKeeps == ASSUME AllToAllInv, NEW r \in A!Ranks, A!Receive(r) PROVE AllToAllInv'
<1> DEFINE c == Prog(job)[k[r]]
           F == A!Ranked(fr[r])
           block == [q \in F |-> Head(net["cart"][q][r]).body]
<1>1. Apart(r)
  BY ApartIs DEF A!RankStep, AllToAllInv
<1>2. /\ pc[r] = "receive" /\ net' = A!Take(r, "cart", F) /\ \A q \in F : net["cart"][q][r] # <<>>
      /\ delta_rank'[r] = delta_rank[r] /\ k'[r] = k[r] + 1 /\ data'[r] = A!Unpacked(r, block)
      /\ fr'[r] = fr[r] /\ to'[r] = to[r] /\ pc'[r] = "idle" /\ made'[r] = made[r]
  BY DEF A!Receive, A!Complete, AllToAllInv, Shapes
<1>3. /\ RankIs(job, r, k[r], pc[r], delta_rank[r], to[r], fr[r], made[r], data[r]) /\ job \in DOMAIN Jobs
      /\ k[r] \in Nat /\ Shapes /\ Len(Prog(job)) \in Nat
  BY RankHere
<1>4. /\ k[r] \in 1 .. Len(Prog(job)) /\ c \in DOMAIN Jobs[job].list /\ F = {q \in A!Ranks : k[r] \in Moving(job, q, r)}
      /\ fr[r] = FrOf(job, c, r) /\ data[r] = Had(job, k[r])[r] /\ (A!Scatter(r) <=> Comm(job, c).kind = "scatter")
      /\ \A q \in A!Ranks : k[r] \in Moving(job, q, r) <=> Num(job, c, q, r) # 0
  BY <1>2, ExchangeHere
<1>5. /\ CartGot(k[r], pc[r]) = 2 * k[r] + 1 /\ CartGot(k'[r], pc'[r]) = 2 * k[r] + 2
      /\ CartSent(k'[r], pc'[r]) = CartSent(k[r], pc[r])
  BY <1>2, <1>3 DEF CartSent, CartGot
<1> HIDE DEF c, F
<1>6. \A q \in A!Ranks : q \in F =>
        /\ Head(net["cart"][q][r]) = Load(job, k[r], q, r)
        /\ CartStream(job, q, r, Tail(net["cart"][q][r]), 2 * k[r] + 2, CartSent(k[q], pc[q]))
  <2> SUFFICES ASSUME NEW q \in A!Ranks, q \in F
               PROVE  /\ Head(net["cart"][q][r]) = Load(job, k[r], q, r)
                      /\ CartStream(job, q, r, Tail(net["cart"][q][r]), 2 * k[r] + 2, CartSent(k[q], pc[q]))
    OBVIOUS
  <2>1. CartStream(job, q, r, net["cart"][q][r], 2 * k[r] + 1, CartSent(k[q], pc[q])) /\ CartSent(k[q], pc[q]) \in Nat
    BY <1>5, CartHere
  <2>2. k[r] \in Moving(job, q, r) /\ net["cart"][q][r] # <<>>
    BY <1>2, <1>4
  <2> QED BY <1>3, <1>4, <2>1, <2>2, CartTakes
<1>7. \A q \in A!Ranks : q \notin F => CartStream(job, q, r, net["cart"][q][r], 2 * k[r] + 2, CartSent(k[q], pc[q]))
  <2> SUFFICES ASSUME NEW q \in A!Ranks, q \notin F
               PROVE  CartStream(job, q, r, net["cart"][q][r], 2 * k[r] + 2, CartSent(k[q], pc[q]))
    OBVIOUS
  <2>1. CartStream(job, q, r, net["cart"][q][r], 2 * k[r] + 1, CartSent(k[q], pc[q])) /\ CartSent(k[q], pc[q]) \in Nat
    BY <1>5, CartHere
  <2>2. k[r] \notin Moving(job, q, r)
    BY <1>4
  <2> QED BY <1>3, <1>4, <2>1, <2>2, CartTakes
<1>8. \A q \in A!Ranks : Num(job, c, q, r) # 0 =>
        block[q] = Carried(job, c, Had(job, k[r]), q, r)
  <2>1. \A q \in A!Ranks : Load(job, k[r], q, r).body = Carried(job, c, Had(job, k[r]), q, r)
    BY DEF Load, c
  <2>2. \A q \in A!Ranks : Num(job, c, q, r) # 0 => q \in F
    BY <1>4
  <2>3. \A q \in F : block[q] = Head(net["cart"][q][r]).body
    OBVIOUS
  <2> HIDE DEF block
  <2> QED BY <1>6, <2>1, <2>2, <2>3
<1> HIDE DEF block
<1>9. data'[r] = Had(job, k[r] + 1)[r]
  <2>1. A!Unpacked(r, block) = A!Moved(Comm(job, c), Had(job, k[r]))[r]
    <3>1. /\ job \in DOMAIN Jobs /\ c \in DOMAIN Jobs[job].list /\ fr[r] = FrOf(job, c, r) /\ data[r] = Had(job, k[r])[r]
          /\ A!Scatter(r) <=> Comm(job, c).kind = "scatter"
      BY <1>3, <1>4
    <3> QED BY <1>8, <3>1, UnpackedIs
  <2>2. Jobs[job].want[k[r]] = A!Moved(Comm(job, c), Had(job, k[r]))
    <3>1. \A n \in DOMAIN Jobs[job].program :
            Jobs[job].want[n] = A!Moved(Jobs[job].list[Jobs[job].program[n]], Had(job, n))
      BY <1>3, ListsAssumption DEF A!JobsAssumption, Had
    <3>2. Jobs[job].program \in Seq(DOMAIN Jobs[job].list)
      BY <1>3, ListsAssumption DEF A!JobsAssumption
    <3>3. k[r] \in DOMAIN Jobs[job].program
      BY <1>4, <3>2, LenProperties DEF Prog
    <3> QED BY <3>1, <3>3 DEF Comm, Prog, c
  <2>3. k[r] + 1 # 1 /\ (k[r] + 1) - 1 = k[r]
    BY <1>4
  <2>4. Had(job, k[r] + 1) = Jobs[job].want[k[r]]
    BY <2>3 DEF Had
  <2> QED BY <1>2, <2>1, <2>2, <2>4
<1>10. RankIs(job, r, k'[r], pc'[r], delta_rank'[r], to'[r], fr'[r], made'[r], data'[r])
  <2>1. (k[r] + 1) - 1 = k[r] /\ k[r] + 1 \in 1 .. Len(Prog(job)) + 1
    BY <1>3, <1>4
  <2>2. Finished(k[r] + 1, "idle") = k[r] /\ Finished(k[r], "receive") = k[r]
    BY <2>1 DEF Finished
  <2>3. /\ delta_rank[r] \in A!Ranks /\ DOMAIN made[r] = {Prog(job)[i] : i \in 1 .. k[r]}
        /\ \A x \in DOMAIN made[r] : made[r][x] = [to |-> ToOf(job, x, r), fr |-> FrOf(job, x, r)]
    BY <1>2, <1>3, <2>2 DEF RankIs
  <2> QED BY <1>2, <1>9, <2>1, <2>2, <2>3 DEF RankIs, SetUp
<1>11. /\ \A s, q \in A!Ranks : net'["cart"][s][q] = IF q = r /\ s \in F THEN Tail(net["cart"][s][q]) ELSE net["cart"][s][q]
       /\ net'["world"] = net["world"]
  BY <1>2, <1>3, Takes
<1>12. RingInv'
  <2>1. \A x : /\ RingGot(k'[r], pc'[r], delta_rank'[r], x) = RingGot(k[r], pc[r], delta_rank[r], x)
               /\ RingSent(k'[r], pc'[r], delta_rank'[r], x) = RingSent(k[r], pc[r], delta_rank[r], x)
    BY <1>2 DEF RingSent, RingGot
  <2> QED BY <1>1, <1>11, <2>1, RingSame
<1>13. \A s \in A!Ranks : CartStream(job, s, r, net'["cart"][s][r], CartGot(k'[r], pc'[r]), CartSent(k[s], pc[s]))
  BY <1>5, <1>6, <1>7, <1>11
<1>14. CartInv'
  <2>1. \A q \in A!Ranks : q # r => CartStream(job, r, q, net'["cart"][r][q], CartGot(k[q], pc[q]), CartSent(k'[r], pc'[r]))
    BY <1>5, <1>11, CartHere
  <2>2. \A s, q \in A!Ranks : q # r => net'["cart"][s][q] = net["cart"][s][q]
    BY <1>11
  <2>3. CartStream(job, r, r, net'["cart"][r][r], CartGot(k'[r], pc'[r]), CartSent(k'[r], pc'[r]))
    BY <1>5, <1>13
  <2> QED BY <1>1, <1>13, <2>1, <2>2, <2>3, CartKept
<1> QED BY <1>1, <1>10, <1>12, <1>14, RanksKept DEF AllToAllInv

\* The invariant is kept by all steps.
LEMMA AllToAllInvNext == AllToAllInv /\ [A!Next]_(A!vars) => AllToAllInv'
<1> SUFFICES ASSUME AllToAllInv, [A!Next]_(A!vars) PROVE AllToAllInv'
  OBVIOUS
<1>1. CASE UNCHANGED A!vars
  <2>1. Shapes' /\ RanksInv'
    BY <1>1 DEF A!vars, AllToAllInv, Shapes, OnRanks, RanksInv
  <2>2. RingInv' /\ CartInv'
    BY <1>1 DEF A!vars, AllToAllInv, RingInv, CartInv
  <2> QED BY <2>1, <2>2 DEF AllToAllInv
<1>2. CASE A!End
  BY <1>1, <1>2 DEF A!End
<1>3. ASSUME NEW r \in A!Ranks, A!RankStep(r) PROVE AllToAllInv'
  BY <1>3, BeginKeeps, RingPostKeeps, RingDoneKeeps, ExplainKeeps, LearnKeeps, ReuseKeeps, SendKeeps, ReceiveKeeps
     DEF A!RankStep
<1> QED BY <1>1, <1>2, <1>3 DEF A!Next

\* A message that a rank takes is the one it waits for.
LEMMA RightMessageFollows == AllToAllInv => A!RightMessage
<1> SUFFICES ASSUME AllToAllInv, NEW r \in A!Ranks, NEW s \in A!Ranks, net["cart"][s][r] # <<>>
             PROVE  /\ pc[r] = "learn" /\ s \in A!NoteFrom(r) =>
                         LET m == Head(net["cart"][s][r])
                         IN  /\ m.about = "places" /\ m.of = k[r]
                             /\ Len(m.body) = Len(IF A!Scatter(r) THEN fr[r][s] ELSE to[r][s])
                    /\ pc[r] = "receive" /\ s \in A!Ranked(fr[r]) =>
                         LET m == Head(net["cart"][s][r])
                         IN  m.about = "data" /\ m.of = k[r] /\ Len(m.body) = Len(fr[r][s])
  BY DEF A!RightMessage
<1> DEFINE c == Prog(job)[k[r]]
           m == Head(net["cart"][s][r])
<1>1. /\ CartStream(job, s, r, net["cart"][s][r], CartGot(k[r], pc[r]), CartSent(k[s], pc[s])) /\ CartSent(k[s], pc[s]) \in Nat
      /\ job \in DOMAIN Jobs
  BY CartHere, RankHere
<1>2. ASSUME pc[r] = "learn", s \in A!NoteFrom(r)
      PROVE  m.about = "places" /\ m.of = k[r] /\ Len(m.body) = Len(IF A!Scatter(r) THEN fr[r][s] ELSE to[r][s])
  <2>1. /\ k[r] \in 1 .. Len(Prog(job)) /\ s \in {q \in A!Ranks : Told(job, c, q, r) # <<>>}
        /\ k[r] \in Explained(job, s, r) <=> Told(job, c, s, r) # <<>>
        /\ Len(IF A!Scatter(r) THEN fr[r][s] ELSE to[r][s]) = Len(Told(job, c, s, r))
    BY <1>2, NoteFromIs
  <2>2. CartGot(k[r], pc[r]) = 2 * k[r]
    BY <1>2 DEF CartGot
  <2>3. m = Note(job, k[r], s, r)
    <3> HIDE DEF c
    <3> QED BY <1>1, <2>1, <2>2, CartTakes
  <2> HIDE DEF m
  <2> QED BY <2>1, <2>3 DEF Note
<1>3. ASSUME pc[r] = "receive", s \in A!Ranked(fr[r])
      PROVE  m.about = "data" /\ m.of = k[r] /\ Len(m.body) = Len(fr[r][s])
  <2>1. /\ k[r] \in 1 .. Len(Prog(job)) /\ s \in {q \in A!Ranks : k[r] \in Moving(job, q, r)}
        /\ Len(fr[r][s]) = Num(job, c, s, r) /\ Num(job, c, s, r) \in Nat
    BY <1>3, ExchangeHere
  <2>2. CartGot(k[r], pc[r]) = 2 * k[r] + 1
    BY <1>3 DEF CartGot
  <2>3. m = Load(job, k[r], s, r)
    <3> HIDE DEF c
    <3> QED BY <1>1, <2>1, <2>2, CartTakes
  <2>4. Len(Carried(job, c, Had(job, k[r]), s, r)) = Num(job, c, s, r)
    BY <2>1 DEF Carried
  <2> HIDE DEF m
  <2> QED BY <2>1, <2>3, <2>4 DEF Load
<1> QED BY <1>2, <1>3

\* When all ranks have ended nothing is on its way.
LEMMA NothingLeftFollows == AllToAllInv => A!NothingLeft
<1> SUFFICES ASSUME AllToAllInv, \A r \in A!Ranks : ~ A!Active(r), NEW s \in A!Ranks, NEW r \in A!Ranks
             PROVE  net["world"][s][r] = <<>> /\ net["cart"][s][r] = <<>>
  BY DEF A!NothingLeft, A!Channels
<1>1. \A q \in {s, r} : k[q] = Len(Prog(job)) + 1 /\ pc[q] = "idle"
  <2> SUFFICES ASSUME NEW q \in A!Ranks PROVE k[q] = Len(Prog(job)) + 1 /\ pc[q] = "idle"
    OBVIOUS
  <2> QED BY RankHere
<1>2. Len(Prog(job)) \in Nat /\ job \in DOMAIN Jobs
  BY RankHere
<1>3. PICK e \in Nat : e = Len(Prog(job)) + 1
  BY <1>2
<1>4. /\ RingGot(k[r], pc[r], delta_rank[r], Dist(s, r)) = e /\ RingSent(k[s], pc[s], delta_rank[s], Dist(s, r)) = e
      /\ CartGot(k[r], pc[r]) = 2 * e /\ CartSent(k[s], pc[s]) = 2 * e
  BY <1>1, <1>3 DEF RingGot, RingSent, CartGot, CartSent
<1>5. PICK f \in Nat : f = 2 * e
  OBVIOUS
<1>6. Stream(net["world"][s][r], Made(job), e, e, RingMessages(job, s, r)) /\ Made(job) \in SUBSET Nat
  BY <1>2, <1>4, RingHere, CartAt DEF RingStream
<1>7. Stream(net["cart"][s][r], CartNumbers(job, s, r), f, f, CartMessages(job, s, r)) /\ CartNumbers(job, s, r) \in SUBSET Nat
  BY <1>2, <1>4, <1>5, CartHere, CartAt DEF CartStream
<1>8. \A c \in Nat : ~ (e <= c /\ c < e) /\ ~ (f <= c /\ c < f)
  OBVIOUS
<1>9. net["world"][s][r] = <<>>
  BY <1>6, <1>8, StreamEmpty
<1>10. net["cart"][s][r] = <<>>
  BY <1>7, <1>8, StreamEmpty
<1> QED BY <1>9, <1>10

\* What each rank holds is in the invariant.
LEMMA DeliveredFollows == AllToAllInv => A!TypeOK /\ A!Delivered
<1> SUFFICES ASSUME AllToAllInv PROVE A!TypeOK /\ A!Delivered
  OBVIOUS
<1>1. Shapes /\ \A r \in A!Ranks : RankIs(job, r, k[r], pc[r], delta_rank[r], to[r], fr[r], made[r], data[r])
  BY DEF AllToAllInv, RanksInv
<1>2. \A r \in A!Ranks : /\ k[r] \in 1 .. Len(Prog(job)) + 1 /\ delta_rank[r] \in A!Ranks
                         /\ pc[r] \in {"idle", "ring", "ringing", "explain", "learn", "send", "receive"}
                         /\ data[r] = Had(job, k[r])[r]
  BY <1>1 DEF RankIs, SetUp
<1>3. /\ k = [r \in A!Ranks |-> k[r]] /\ pc = [r \in A!Ranks |-> pc[r]] /\ delta_rank = [r \in A!Ranks |-> delta_rank[r]]
      /\ world \in Worlds
  BY <1>1 DEF Shapes, OnRanks
<1>4. A!TypeOK
  <2>1. k \in [A!Ranks -> 1 .. Len(Jobs[job].program) + 1]
    BY <1>2, <1>3 DEF Prog
  <2>2. pc \in [A!Ranks -> {"idle", "ring", "ringing", "explain", "learn", "send", "receive", "crash"}]
    BY <1>2, <1>3
  <2>3. delta_rank \in [A!Ranks -> A!Ranks]
    BY <1>2, <1>3
  <2>4. \A r \in A!Ranks : pc[r] # "crash"
    BY <1>2
  <2> QED BY <1>3, <2>1, <2>2, <2>3, <2>4 DEF A!TypeOK
<1>5. A!Delivered
  <2> SUFFICES ASSUME NEW r \in A!Ranks
               PROVE  data[r] = IF k[r] = 1 THEN Jobs[job].start[r] ELSE Jobs[job].want[k[r] - 1][r]
    BY DEF A!Delivered
  <2> QED BY <1>2 DEF Had
<1> QED BY <1>4, <1>5

\* all_to_all_comm_t: each rank ends up with the elements the lists mean it to have, for any
\* number of ranks, any lists whose elements go to places of their own, and any program.
THEOREM AllDeliveredHolds == ExchangesSpec => []AllDelivered
<1> DEFINE Inv == part = "all_to_all" => AllToAllInv
<1>1. ExchangesInit => Inv
  BY AllToAllInvInit DEF ExchangesInit
<1>2. Inv /\ [ExchangesNext]_ExchangesVars => Inv'
  <2> SUFFICES ASSUME Inv, [ExchangesNext]_ExchangesVars, part' = "all_to_all" PROVE AllToAllInv'
    OBVIOUS
  <2>1. part = "all_to_all" /\ [A!Next]_(A!vars)
    BY DEF ExchangesNext, ExchangesVars, all_to_all_vars, A!vars
  <2> QED BY <2>1, AllToAllInvNext
<1>3. Inv => AllDelivered
  BY DeliveredFollows, RightMessageFollows, NothingLeftFollows DEF AllDelivered
<1> HIDE DEF Inv
<1> QED BY <1>1, <1>2, <1>3, PTL DEF ExchangesSpec
=============================================================================
