---------------------------- MODULE MCExchanges -----------------------------
(***************************************************************************)
(* What ranks exchange besides the borders; which is told by part.          *)
(*                                                                         *)
(* all_to_all   A lattice divided among three ranks along the last           *)
(*              direction.  Vectors are turned until a direction is whole    *)
(*              on each rank and turned back, as fft4d does, and the links   *)
(*              of some staples are gathered.                               *)
(* ildg_file    The same lattice: the direction that is divided is last in   *)
(*              memory and not in the file.                                 *)
(* temporal     A chain of three ranks in time for each of two in space.     *)
(* sweep        Two sweeps with two threads on two ranks, one on four ranks,   *)
(*              for the plaquette action in two directions; and one on two    *)
(*              ranks with the rectangles, which need four.                   *)
(* fft          Four ranks in a line of 24 sites, in blocks of three: a vector is  *)
(*              transformed, and then transformed back in two directions.      *)
(*                                                                         *)
(* In all_to_all a site is its coordinates and a link its site and           *)
(* direction, so that what each rank must hold can be said with no lists.    *)
(***************************************************************************)
EXTENDS Exchanges, FiniteSets, TLC

VARIABLES use_mpi_io, file, op, stage, pos, ori_pos, pend, bar, crashed,
          buffering, chain_pc, fixm, buf, mail, surface, fixed_conf,
          icall, fft_mu, fft_stage, fft_delta, fft_out, fft_buf, line_inbox

file_vars == <<use_mpi_io, file, op, stage, pos, ori_pos, pend, bar, crashed>>
temporal_vars == <<buffering, chain_pc, fixm, buf, mail, surface, fixed_conf>>
fft_vars == <<icall, fft_mu, fft_stage, fft_delta, fft_out, fft_buf, line_inbox>>
MCVars == <<ExchangesVars, file_vars, temporal_vars, fft_vars>>

OnDirs(s) == [mu \in 0 .. Len(s) - 1 |-> s[mu + 1]]

-----------------------------------------------------------------------------
ThinSize == OnDirs(<<2, 2, 6>>)
ThinRanks == OnDirs(<<1, 1, 3>>)

R == INSTANCE Remap

Lexical == [r \in R!Ranks |-> [i \in R!Local |-> R!glb_coord(r, i)]]
\* Lines in direction mu one after the other, in order of the other coordinates.
Lines(mu) ==
  LET all == {R!glb_coord_of_glblx(gx) : gx \in 0 .. R!glb_vol - 1}
      Earlier(g) == {h \in all : h[mu] = 0 /\ R!glblx_of_coord(h) < R!glblx_of_coord([g EXCEPT ![mu] = 0])}
  IN  [r \in R!Ranks |-> [i \in R!Locd(r, mu) |->
         CHOOSE g \in all :
           /\ g[mu] = i % ThinSize[mu]
           /\ Cardinality(Earlier(g)) = r * R!max_locd_perp_size_per_dir(mu) + i \div ThinSize[mu]]]
Turn(mu) ==
  [program |-> <<"make", "unmake", "make">>,
   list |-> [make |-> R!remap_lx_to_locd(mu), unmake |-> R!remap_locd_to_lx(mu)],
   start |-> Lexical, want |-> <<Lines(mu), Lexical, Lines(mu)>>]

\* The links of the two staples of (g, mu) towards nu, for sites of the rank.
Shifted(g, mu, by) == [g EXCEPT ![mu] = (@ + by) % ThinSize[mu]]
StapleLinks(g, mu, nu) ==
  <<[g |-> g, mu |-> nu], [g |-> Shifted(g, nu, 1), mu |-> mu], [g |-> Shifted(g, mu, 1), mu |-> nu],
    [g |-> Shifted(g, nu, -1), mu |-> nu], [g |-> Shifted(g, nu, -1), mu |-> mu],
    [g |-> Shifted(Shifted(g, nu, -1), mu, 1), mu |-> nu]>>
StaplesOf(r) ==
  StapleLinks(R!glb_coord(r, R!loc_vol - 1), 0, 2) \o StapleLinks(R!glb_coord(r, 0), 2, 0)
    \o StapleLinks(R!glb_coord(r, 0), 0, 2)
OwnLinks(r) ==
  [el \in 0 .. 3 * R!loc_vol - 1 |-> [g |-> R!glb_coord(r, el \div 3), mu |-> el % 3]]
WithGathered(r) ==
  LET links == StaplesOf(r)
      places == R!Asked(r, links).places
      got == {places[i] : i \in DOMAIN places}
  IN  [el \in DOMAIN OwnLinks(r) \union got |->
         IF el \in DOMAIN OwnLinks(r) THEN OwnLinks(r)[el]
         ELSE links[CHOOSE i \in DOMAIN places : places[i] = el]]
Around ==
  LET all == [r \in R!Ranks |-> WithGathered(r)]
  IN  [program |-> <<"gather", "gather">>,
       list |-> [gather |-> R!gathering_list([r \in R!Ranks |-> StaplesOf(r)])],
       start |-> [r \in R!Ranks |-> OwnLinks(r)], want |-> <<all, all>>]
TurnLast == Turn(2)
ThinJobs == [turn |-> TurnLast, around |-> Around]

ThinWorlds == {[r \in R!Ranks |-> r]}

F == INSTANCE IldgFile WITH Texts <- <<3, 1>>, BUFSIZ <- 4, UseMpiIo <- BOOLEAN
T == INSTANCE TemporalGauge WITH
       NDIM <- 2, glb_size <- OnDirs(<<6, 4>>), nrank_dir <- OnDirs(<<3, 2>>),
       Buffering <- BOOLEAN, pc <- chain_pc, bord <- surface

WilsonTwo == INSTANCE Sweeper WITH
  NDIM <- 2, glb_size <- OnDirs(<<4, 6>>), nrank_dir <- OnDirs(<<1, 2>>), action <- "Wilson"
WilsonFour == INSTANCE Sweeper WITH
  NDIM <- 2, glb_size <- OnDirs(<<4, 6>>), nrank_dir <- OnDirs(<<2, 2>>), action <- "Wilson"
Symanzik == INSTANCE Sweeper WITH
  NDIM <- 4, glb_size <- OnDirs(<<4, 4, 4, 8>>), nrank_dir <- OnDirs(<<1, 1, 1, 2>>), action <- "Symanzik"
WilsonTwoTables == WilsonTwo!Tables(2, 2)
WilsonFourTables == WilsonFour!Tables(1, 1)
SymanzikTables == Symanzik!Tables(1, 1)
MCSweepers == {"wilson_two", "wilson_four", "symanzik"}
MCTablesOf(n) ==
  CASE n = "wilson_two" -> WilsonTwoTables
    [] n = "wilson_four" -> WilsonFourTables
    [] n = "symanzik" -> SymanzikTables

FftPowers == LET power[e \in 0 .. 71] == IF e = 0 THEN 1 ELSE (5 * power[e - 1]) % 73 IN [e \in 0 .. 71 |-> power[e]]
FftSize == OnDirs(<<24, 2, 3>>)
D == INSTANCE Fourier WITH
       NDIM <- 3, glb_size <- FftSize, nrank_dir <- OnDirs(<<4, 1, 1>>), Prime <- 73, Powers <- FftPowers
FftCalls == <<[dirs |-> 0 .. 2, sign |-> 1, normalize |-> FALSE],
              [dirs |-> {0, 2}, sign |-> -1, normalize |-> TRUE]>>
FftStart == [gx \in 0 .. D!glb_vol - 1 |-> (gx * gx * gx + 5 * gx + 1) % 73]
FftFirst == D!Dft(FftStart, FftCalls[1])
FftSecond == D!Dft(FftFirst, FftCalls[2])
FftJob == [start |-> D!Parts(FftStart), calls |-> FftCalls,
           want |-> <<D!Parts(FftFirst), D!Parts(FftSecond)>>]
P == INSTANCE Fft WITH
       NDIM <- 3, glb_size <- FftSize, nrank_dir <- OnDirs(<<4, 1, 1>>), Prime <- 73, Powers <- FftPowers,
       Job <- FftJob, mu <- fft_mu, stage <- fft_stage, delta_rank <- fft_delta,
       out <- fft_out, buf <- fft_buf

ASSUME F!IldgFileAssumption
ASSUME T!TemporalGaugeAssumption
ASSUME WilsonTwo!SweeperAssumption /\ WilsonFour!SweeperAssumption /\ Symanzik!SweeperAssumption
ASSUME P!FftAssumption
\* The staples of a link are the loops of the action around it.
ASSUME StaplesOfLoops ==
  /\ WilsonTwo!StaplesOfLoops({WilsonTwo!glb_coord_of_glblx(gx) : gx \in 0 .. WilsonTwo!glb_vol - 1})
  /\ Symanzik!StaplesOfLoops({OnDirs(<<0, 0, 0, 0>>), OnDirs(<<3, 2, 3, 7>>), OnDirs(<<1, 3, 2, 3>>)})

-----------------------------------------------------------------------------
NoFile ==
  /\ use_mpi_io = FALSE /\ file = <<>> /\ op = <<>> /\ stage = <<>> /\ pos = <<>>
  /\ ori_pos = <<>> /\ pend = <<>> /\ bar = <<>> /\ crashed = {}
NoTemporal ==
  /\ buffering = FALSE /\ chain_pc = <<>> /\ fixm = <<>> /\ buf = <<>> /\ mail = <<>>
  /\ surface = <<>> /\ fixed_conf = <<>>
NoFft ==
  /\ icall = <<>> /\ fft_mu = <<>> /\ fft_stage = <<>> /\ fft_delta = <<>> /\ fft_out = <<>>
  /\ fft_buf = <<>> /\ line_inbox = <<>>

MCInit ==
  /\ part \in {"all_to_all", "ildg_file", "temporal", "sweep", "fft"}
  /\ ExchangesInit
  /\ IF part = "ildg_file" THEN F!Init ELSE NoFile
  /\ IF part = "temporal" THEN T!Init ELSE NoTemporal
  /\ IF part = "fft" THEN P!Init ELSE NoFft

MCNext ==
  \/ ExchangesNext /\ UNCHANGED <<file_vars, temporal_vars, fft_vars>>
  \/ part = "ildg_file" /\ F!Next /\ UNCHANGED <<ExchangesVars, temporal_vars, fft_vars>>
  \/ part = "temporal" /\ T!Next /\ UNCHANGED <<ExchangesVars, file_vars, fft_vars>>
  \/ part = "fft" /\ P!Next /\ UNCHANGED <<ExchangesVars, file_vars, temporal_vars>>

\* Every step takes a rank further: without a deadlock all of them end.
MCSpec == MCInit /\ [][MCNext]_MCVars

-----------------------------------------------------------------------------

\* ILDG_File.cpp: no rank empties the file after another has written to it, or
\* writes over what another has written.
FileKept == F!NothingLost

\* gauge_fixing.cpp: each rank computes the transformation that the division in
\* time must not change, the configuration becomes the temporal gauge, and no slice is
\* sent to a rank that does not wait for it.
TemporalRight == part = "temporal" =>
  T!TypeOK /\ T!FixmRight /\ T!TemporalGaugeReached /\ T!EveryMessageAwaited

\* fft.cpp: after each call a rank holds its part of the transform, with its sites in their
\* usual order, whatever the order in which the ranks of a line worked.
FftRight == part = "fft" => P!TypeOK /\ P!Transformed /\ P!NothingLeft
=============================================================================
