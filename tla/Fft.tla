-------------------------------- MODULE Fft ---------------------------------
(***************************************************************************)
(* fft4d without the FFTW library: one direction after another is            *)
(* transformed, over the ranks of a line, and the data turned so that the    *)
(* next direction runs slowest.  In a direction the elements go to bit       *)
(* reversed places, on whichever rank those are; odd blocks are transformed  *)
(* directly; blocks are joined by twos, first those of a rank and then,      *)
(* exchanging all they have, those of two ranks.                            *)
(*                                                                         *)
(* The recurrences for the powers of a root are taken for the powers; of     *)
(* the threads of a rank the master does it all.                            *)
(***************************************************************************)
EXTENDS Fourier, Factors

CONSTANT Job   \* what the ranks start with, the calls, and what each should leave on them

\* Of other numbers of ranks in a direction fft1d says that it is not implemented.
PowerOfTwo(n) == n = 2 ^ find_max_pow2(n)

FftAssumption ==
  /\ FourierAssumption
  /\ \A n \in DOMAIN Job.calls :
       LET c == Job.calls[n]
       IN  /\ c.dirs \subseteq Dirs /\ c.sign \in {-1, 1} /\ c.normalize \in BOOLEAN
           /\ \A d \in c.dirs : PowerOfTwo(nrank_dir[d])

VARIABLES icall, mu,    \* per rank: the call, the direction
          stage,        \* "begin", "scramble", "exchange", "combine"
          delta_rank, out, buf,
          line_inbox    \* per rank: messages on their way, by sender, communicator and tag

vars == <<icall, mu, stage, delta_rank, out, buf, line_inbox>>

Call(r) == Job.calls[icall[r]]
Over(r) == icall[r] > Len(Job.calls)

-----------------------------------------------------------------------------
(***************************************************************************)
(* The order of the data: direction d slowest, then the following ones.      *)
(***************************************************************************)
Turned(s, d) == [n \in Dirs |-> s[(d + n) % NDIM]]

\* data_coordinate_order_shift: what was in the order of d is put in that of d + 1.
Shifted(v, d) ==
  LET in_size == Turned(loc_size, d)
      out_size == Turned(in_size, 1)
  IN  [i \in Local |-> v[lx_of_coord(Turned(coord_of_lx(i, out_size), NDIM - 1), in_size)]]

\* The numbers of an element of direction d, which are Ncpp(d), are kept together.
Ncpp(d) == loc_vol \div loc_size[d]
Element(v, d, e) == LET ncpp == Ncpp(d) IN [ic \in 0 .. ncpp - 1 |-> v[e * ncpp + ic]]
Elements(d) == 0 .. loc_size[d] - 1

-----------------------------------------------------------------------------
(***************************************************************************)
(* First part of fft1d: elements to bit reversed blocks.                    *)
(***************************************************************************)
log2glb_nblk(d) == find_max_pow2(glb_size[d])
glb_nblk(d) == 2 ^ log2glb_nblk(d)
blk_size(d) == glb_size[d] \div glb_nblk(d)
loc_nblk(d) == glb_nblk(d) \div nrank_dir[d]

OnLine(r, d, c) == rank_of_coord([rank_coord[r] EXCEPT ![d] = c])

\* Where an element goes, and where the one of a place comes from.
ScrambledTo(r, d, e) ==
  LET glb_iel_in == rank_coord[r][d] * loc_size[d] + e
      iblk_out == bitrev(glb_iel_in % glb_nblk(d), log2glb_nblk(d))
  IN  [rank |-> OnLine(r, d, iblk_out \div loc_nblk(d)),
       place |-> ((iblk_out % loc_nblk(d)) * blk_size(d)) + (glb_iel_in \div glb_nblk(d))]
ScrambledFrom(r, d, e) ==
  LET glb_iblk_in == (rank_coord[r][d] * loc_nblk(d)) + (e \div blk_size(d))
      glb_iel_send == ((e % blk_size(d)) * glb_nblk(d)) + bitrev(glb_iblk_in, log2glb_nblk(d))
  IN  OnLine(r, d, glb_iel_send \div loc_size[d])

Key(s, d, tag) == <<s, d, tag>>
\* msgs: the messages of rank r in direction d, a function of receiver and tag.
Posted(r, d, msgs) ==
  [q \in Ranks |->
     LET new == {Key(r, d, m[2]) : m \in {x \in DOMAIN msgs : x[1] = q}}
     IN  [key \in DOMAIN line_inbox[q] \union new |->
            (IF key \in DOMAIN line_inbox[q] THEN line_inbox[q][key] ELSE <<>>)
              \o IF key \in new THEN <<msgs[<<q, key[3]>>]>> ELSE <<>>]]
Taken(r, keys) ==
  [line_inbox EXCEPT ![r] =
     [key \in {x \in DOMAIN line_inbox[r] : ~(x \in keys /\ Len(line_inbox[r][x]) = 1)} |->
        IF key \in keys THEN Tail(line_inbox[r][key]) ELSE line_inbox[r][key]]]

-----------------------------------------------------------------------------
(***************************************************************************)
(* Second, third and fourth part.                                          *)
(***************************************************************************)
OddBlocks(elements, d, sign) ==
  LET blk == blk_size(d)
      ncpp == Ncpp(d)
  IN  [i \in Local |->
         LET e == i \div ncpp
             sum[k \in 0 .. blk] ==
               IF k = 0 THEN 0
               ELSE sum[k - 1] + Root(sign * (k - 1) * (e % blk), blk)
                                   * elements[(e - (e % blk)) + (k - 1)][i % ncpp]
         IN  sum[blk] % Prime]

\* Numbers of two blocks joined, which root tells how, for the first or the second half.
Join(first, second, root, lower) ==
  (first + IF lower THEN root * second ELSE -(root * second)) % Prime

\* Mutant: the root of the blocks that are joined, not of the one they make.
LanczosWide(v, d, sign) ==
  LET ncpp == Ncpp(d)
      steps == find_max_pow2(loc_nblk(d))
      Joined(u, delta) ==
        LET far == delta * ncpp
        IN  [i \in Local |->
               LET e == i \div ncpp
               IN  IF e % (2 * delta) < delta THEN Join(u[i], u[i + far], Root(sign * (e % delta), 4 * delta), TRUE)
                   ELSE Join(u[i - far], u[i], Root(sign * (e % delta), 4 * delta), FALSE)]
      after[n \in 0 .. steps] ==
        IF n = 0 THEN v ELSE Joined(after[n - 1], blk_size(d) * 2 ^ (n - 1))
  IN  after[steps]
\* What needs no communication.
Lanczos(v, d, sign) ==
  LET ncpp == Ncpp(d)
      steps == find_max_pow2(loc_nblk(d))
      Joined(u, delta) ==
        LET far == delta * ncpp
        IN  [i \in Local |->
               LET e == i \div ncpp
               IN  IF e % (2 * delta) < delta THEN Join(u[i], u[i + far], Root(sign * (e % delta), 2 * delta), TRUE)
                   ELSE Join(u[i - far], u[i], Root(sign * (e % delta), 2 * delta), FALSE)]
      after[n \in 0 .. steps] ==
        IF n = 0 THEN v ELSE Joined(after[n - 1], blk_size(d) * 2 ^ (n - 1))
  IN  after[steps]

\* A rank holds the first or the second of two blocks as wide as delta_rank ranks.
HoldsFirst(r) == (rank_coord[r][mu[r]] \div delta_rank[r]) % 2 = 0
Partner(r) ==
  OnLine(r, mu[r], rank_coord[r][mu[r]] + IF HoldsFirst(r) THEN delta_rank[r] ELSE -delta_rank[r])
\* Mutant: the rank's place in the block is forgotten.
CombinedFromZero(r, other) ==
  LET d == mu[r]
      ncpp == Ncpp(d)
      delta == delta_rank[r] * loc_size[d]
      root(m) == Root(Call(r).sign * m, 2 * delta)
  IN  [i \in Local |->
         IF HoldsFirst(r) THEN Join(out[r][i], other[i], root(i \div ncpp), TRUE)
         ELSE Join(other[i], out[r][i], root(i \div ncpp), FALSE)]
Combined(r, other) ==
  LET d == mu[r]
      ncpp == Ncpp(d)
      delta == delta_rank[r] * loc_size[d]
      pos_delta == (rank_coord[r][d] % delta_rank[r]) * loc_size[d]
      root(m) == Root(Call(r).sign * (pos_delta + m), 2 * delta)
  IN  [i \in Local |->
         IF HoldsFirst(r) THEN Join(out[r][i], other[i], root(i \div ncpp), TRUE)
         ELSE Join(other[i], out[r][i], root(i \div ncpp), FALSE)]

Normalized(v, d, c) ==
  LET factor == OneOver(glb_size[d])
  IN  IF c.normalize THEN [i \in Local |-> (v[i] * factor) % Prime] ELSE v

-----------------------------------------------------------------------------
(***************************************************************************)
(* fft4d.                                                                  *)
(***************************************************************************)
Init ==
  /\ icall = [r \in Ranks |-> 1]
  /\ mu = [r \in Ranks |-> 0]
  /\ stage = [r \in Ranks |-> "begin"]
  /\ delta_rank = [r \in Ranks |-> 1]
  /\ out = Job.start
  /\ buf = [r \in Ranks |-> <<>>]
  /\ line_inbox = [r \in Ranks |-> <<>>]

\* The direction is done, with v as the result: on to the next one, or to the next call.
Onward(r, v) ==
  /\ out' = [out EXCEPT ![r] = Shifted(v, mu[r])]
  /\ mu' = [mu EXCEPT ![r] = (@ + 1) % NDIM]
  /\ icall' = [icall EXCEPT ![r] = IF mu[r] = NDIM - 1 THEN @ + 1 ELSE @]
  /\ stage' = [stage EXCEPT ![r] = "begin"]
  /\ delta_rank' = [delta_rank EXCEPT ![r] = 1]

Skip(r) ==
  /\ ~Over(r) /\ stage[r] = "begin" /\ mu[r] \notin Call(r).dirs
  /\ Onward(r, out[r])
  /\ UNCHANGED <<buf, line_inbox>>

\* Elements that stay are copied, others sent.
Scramble(r) ==
  /\ ~Over(r) /\ stage[r] = "begin" /\ mu[r] \in Call(r).dirs
  /\ LET d == mu[r]
         to == [e \in Elements(d) |-> ScrambledTo(r, d, e)]
         leaving == {e \in Elements(d) : to[e].rank # r}
         Left(q, tag) == CHOOSE e \in leaving : to[e].rank = q /\ 1241 + to[e].place = tag
         kept == {e \in Elements(d) : to[e].rank = r}
     IN  /\ line_inbox' = Posted(r, d, [m \in {<<to[e].rank, 1241 + to[e].place>> : e \in leaving} |->
                                          Element(out[r], d, Left(m[1], m[2]))])
         /\ buf' = [buf EXCEPT ![r] = [p \in {to[e].place : e \in kept} |->
                      Element(out[r], d, CHOOSE e \in kept : to[e].place = p)]]
  /\ stage' = [stage EXCEPT ![r] = "scramble"]
  /\ UNCHANGED <<icall, mu, delta_rank, out>>

\* All elements are there; what is done with them up to the next communication.
Unscramble(r) ==
  /\ stage[r] = "scramble"
  /\ LET d == mu[r]
         from == [e \in Elements(d) |-> ScrambledFrom(r, d, e)]
         coming == {e \in Elements(d) : from[e] # r}
         KeyOf(e) == Key(from[e], d, 1241 + e)
     IN  /\ \A e \in coming : KeyOf(e) \in DOMAIN line_inbox[r]
         /\ line_inbox' = Taken(r, {KeyOf(e) : e \in coming})
         /\ buf' = [buf EXCEPT ![r] = [e \in Elements(d) |->
                      IF e \in coming THEN Head(line_inbox[r][KeyOf(e)]) ELSE buf[r][e]]]
         /\ LET v == Lanczos(OddBlocks(buf'[r], d, Call(r).sign), d, Call(r).sign)
            IN  IF nrank_dir[d] = 1 THEN Onward(r, Normalized(v, d, Call(r)))
                ELSE /\ out' = [out EXCEPT ![r] = v]
                     /\ stage' = [stage EXCEPT ![r] = "exchange"]
                     /\ UNCHANGED <<mu, icall, delta_rank>>

Exchange(r) ==
  /\ stage[r] = "exchange"
  /\ LET tag == 113 + rank_coord[Partner(r)][mu[r]]
     IN  line_inbox' = Posted(r, mu[r], [m \in {<<Partner(r), tag>>} |-> out[r]])
  /\ stage' = [stage EXCEPT ![r] = "combine"]
  /\ UNCHANGED <<icall, mu, delta_rank, out, buf>>

Combine(r) ==
  /\ stage[r] = "combine"
  /\ LET d == mu[r]
         key == Key(Partner(r), d, 113 + rank_coord[r][d])
     IN  /\ key \in DOMAIN line_inbox[r]
         /\ line_inbox' = Taken(r, {key})
         /\ LET v == Combined(r, Head(line_inbox[r][key]))
            IN  IF 2 * delta_rank[r] >= nrank_dir[d] THEN Onward(r, Normalized(v, d, Call(r)))
                ELSE /\ out' = [out EXCEPT ![r] = v]
                     /\ delta_rank' = [delta_rank EXCEPT ![r] = 2 * @]
                     /\ stage' = [stage EXCEPT ![r] = "exchange"]
                     /\ UNCHANGED <<mu, icall>>
  /\ UNCHANGED buf

End == (\A r \in Ranks : Over(r)) /\ UNCHANGED vars

RankStep(r) == Skip(r) \/ Scramble(r) \/ Unscramble(r) \/ Exchange(r) \/ Combine(r)
Next == (\E r \in Ranks : RankStep(r)) \/ End

\* Every step takes a rank further: without a deadlock all of them end.
Spec == Init /\ [][Next]_vars

-----------------------------------------------------------------------------
(***************************************************************************)
(* Properties.                                                             *)
(***************************************************************************)
TypeOK ==
  /\ icall \in [Ranks -> 1 .. Len(Job.calls) + 1]
  /\ mu \in [Ranks -> Dirs]
  /\ stage \in [Ranks -> {"begin", "scramble", "exchange", "combine"}]
  /\ \A r \in Ranks : DOMAIN out[r] = Local /\ \A i \in Local : out[r][i] \in 0 .. Prime - 1

\* After each call a rank holds its part of the transform, in the order of sites.
Transformed ==
  \A r \in Ranks : stage[r] = "begin" /\ mu[r] = 0 /\ icall[r] > 1 =>
    out[r] = Job.want[icall[r] - 1][r]

\* When all have ended no message is left.
NothingLeft ==
  (\A r \in Ranks : Over(r)) => \A r \in Ranks : line_inbox[r] = <<>>
=============================================================================
