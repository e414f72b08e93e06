-------------------------- MODULE ProductionProofs --------------------------
(***************************************************************************)
(* Safety of the production of a chain, for all input files and any number *)
(* of sessions, crashes and requests to restart.                           *)
(*                                                                         *)
(* What survives a session is the running configuration, and the argument  *)
(* is that it is always one the session in memory has gone through         *)
(* (Branch), so that what is true of the chain in memory is true of the    *)
(* one the next session reads, and conversely:                             *)
(*                                                                         *)
(*   - every random number of a chain precedes the state of the global     *)
(*     generator that is saved with it, and the sites are seeded by a      *)
(*     number of that generator, which moves on at once (Fresh);           *)
(*   - a line is written for a trajectory before the running configuration *)
(*     that contains it is (Measured);                                     *)
(*   - a stored configuration is missing or wrong only if a crash came     *)
(*     after the trajectory and before it was stored: what is pending at   *)
(*     the crash is at most the trajectory in memory (Chained);            *)
(*   - the last configuration is whole on disk before the session goes     *)
(*     past the place where it is written (LastKept);                      *)
(*   - the file of the potential follows the running configuration, but in *)
(*     the middle of a write (Potential).                                  *)
(*                                                                         *)
(* A configuration that was read broken has no known history, and is kept  *)
(* apart by Sound.                                                         *)
(***************************************************************************)
EXTENDS Production, FiniteSetTheorems, SequenceTheorems, TLAPS

USE ProductionAssumption

-----------------------------------------------------------------------------
\* The generators, an entry of a history, and what a file holds.
GlbGen == [seed : {"input", "new"}, drawn : Nat]
LocGen == [seed : GlbGen, drawn : Nat]
Entry == [loc : LocGen, glb : GlbGen]
Histories == Seq(Entry \cup {Junk})
Files == {Missing, Short} \cup
         [state : {"holed", "whole"}, conf : Histories, traj : Trajs, rnd : GlbGen,
          grid : Seq(Nat)]
Readable == {"holed", "whole"}

\* What memory and disk hold.
Types ==
  /\ drv \in Inputs
  /\ conf \in Histories /\ itraj \in Trajs /\ Len(conf) = itraj /\ ntraj_prod \in 0 .. itraj
  /\ glb_rnd_gen \in GlbGen /\ loc_rnd_gen \in LocGen /\ grid \in Seq(Nat)
  /\ running \in Files /\ stored \in [Trajs -> Files]
  /\ topo \in {Missing, Short} \cup [state : {"whole"}, grid : Seq(Nat)]
  /\ obs \in [Trajs -> Histories]
  /\ \A file \in {running} \cup {stored[n] : n \in Trajs} :
       file.state \in Readable => Len(file.conf) = file.traj
  /\ seed_new \in BOOLEAN /\ restart \in BOOLEAN /\ stop \in BOOLEAN
  /\ conf_created \in BOOLEAN /\ stored_last_conf \in BOOLEAN
  /\ pc \in Places \cup {"off", "loop", "traj", "measure", "increase", "end"}
  /\ writing \in {"no", "data", "rest", "topo", "grid"}
  /\ crashes \in 0 .. MaxCrashes /\ requests \in 0 .. MaxRequests

\* What goes with the place in the program.
Course ==
  /\ writing # "no" => pc \in Places /\ WriteDue(pc)
  /\ pc = "traj" => itraj < drv.ntraj_tot
  /\ pc \in {"measure", "run", "store", "increase"} => ntraj_prod > 0
  /\ pc = "off" => conf = <<>> /\ grid = <<>> /\ ntraj_prod = 0 /\ ~ stored_last_conf
  /\ seed_new => pc = "off" /\ running = Missing

\* The running configuration is one that the session has gone through.
Branch ==
  /\ conf_created /\ pc \in {"loop", "traj", "measure"} =>
       running = Missing /\ itraj = (IF pc = "measure" THEN 1 ELSE 0)
  /\ pc # "off" /\ running.state \in Readable =>
       /\ running.traj <= itraj
       /\ pc = "measure" => running.traj < itraj
  /\ pc # "off" /\ running.state = "whole" => running.conf = Upto(conf, running.traj)

\* All that a chain is made of was drawn before a state of the generator.
Past(c, g) ==
  \A i \in DOMAIN c :
    /\ c[i].loc.seed.seed = g.seed /\ c[i].loc.seed.drawn < g.drawn
    /\ c[i].glb.seed = g.seed /\ c[i].glb.drawn <= g.drawn
    /\ ~ drv.quenched => c[i].glb.drawn < g.drawn

\* What NoRandomReuse says of one chain.
NoReuse(c) ==
  \A i, j \in DOMAIN c :
    /\ i # j => c[i].loc # c[j].loc
    /\ (i # j /\ ~ drv.quenched) => c[i].glb # c[j].glb
    /\ ~ drv.quenched => c[i].glb # c[j].loc.seed

\* The numbers of a chain are past for the generators that will continue it.
Fresh ==
  /\ pc # "off" =>
       /\ loc_rnd_gen.seed.seed = glb_rnd_gen.seed
       /\ loc_rnd_gen.seed.drawn < glb_rnd_gen.drawn
  /\ Sound(conf) =>
       /\ Past(conf, glb_rnd_gen) /\ NoReuse(conf)
       /\ \A i \in DOMAIN conf :
            /\ conf[i].loc.seed = loc_rnd_gen.seed => conf[i].loc.drawn < loc_rnd_gen.drawn
            /\ ~ drv.quenched => conf[i].glb # loc_rnd_gen.seed
  /\ running.state = "whole" /\ Sound(running.conf) =>
       Past(running.conf, running.rnd) /\ NoReuse(running.conf)

\* The lines of an observable are those of a history, up to a trajectory.
Due(n, each) == n % each = 0
MeasuredUpto(lines, c, t) ==
  \A n \in 1 .. t : Due(n, drv.meas_each) => lines[n] = Upto(c, n)

Measured ==
  drv.meas_each > 0 =>
    /\ pc # "off" /\ Sound(conf) =>
         MeasuredUpto(obs, conf, IF pc = "measure" THEN itraj - 1 ELSE itraj)
    /\ running.state = "whole" /\ Sound(running.conf) =>
         MeasuredUpto(obs, running.conf, running.traj)

\* The stored configurations that should be of a chain and are not, but for the
\* one that may be about to be stored.
Right(file, c, n) == file.state = "whole" /\ file.conf = Upto(c, n)
Bad(files, c, t) == {n \in 1 .. t : Due(n, drv.store_each) /\ ~ Right(files[n], c, n)}
PendingAt(l, t) == IF l \in {"measure", "run", "store"} THEN {t} ELSE {}

Chained ==
  drv.store_each > 0 =>
    /\ pc # "off" /\ Sound(conf) =>
         Cardinality(Bad(stored, conf, itraj) \ PendingAt(pc, itraj)) <= crashes
    /\ running.state = "whole" /\ Sound(running.conf) =>
         Cardinality(Bad(stored, running.conf, running.traj) \ PendingAt(pc, itraj)) <= crashes

\* What is on disk of the state of the session.
Whole(file) == file.state = "whole" /\ file.conf = conf /\ file.rnd = glb_rnd_gen

LastKept ==
  /\ stored_last_conf /\ pc \in {"increase", "loop", "last", "end"} => Whole(stored[itraj])
  /\ writing \in {"topo", "grid"} => Whole(IF pc = "store" THEN stored[itraj] ELSE running)
  /\ LastConfOnDisk

\* The potential of the first n trajectories.
Count(n) == [i \in 1 .. n |-> i - 1]
TopoOf(n) == topo.state = "whole" /\ topo.grid = Count(n)
Saved == running.state = "whole" /\ running.traj = itraj /\ TopoOf(itraj)
Rested ==
  \/ running = Missing /\ topo = Missing
  \/ running.state = "whole" /\ TopoOf(running.traj)

Potential ==
  drv.meta /\ KeepsRunning /\ crashes = 0 =>
    /\ pc # "off" => grid = Count(itraj)
    /\ stored_last_conf => drv.store_running = 1
    /\ pc = "off" => Rested
    /\ pc \in {"loop", "last", "end"} /\ ntraj_prod = 0 => Rested /\ writing = "no"
    /\ pc \in {"increase", "loop", "last"} /\ writing = "no" /\ ntraj_prod > 0
         /\ drv.store_running = 1 => Saved
    /\ pc = "end" /\ ntraj_prod > 0 => Saved
    /\ pc = "store" /\ drv.store_running = 1 =>
         /\ running.state = "whole" /\ running.traj = itraj
         /\ writing # "grid" => TopoOf(itraj)
    /\ pc \in {"run", "last"} /\ writing \in {"topo", "grid"} =>
         running.state = "whole" /\ running.traj = itraj

\* The inductive invariant.
IInv == Types /\ Course /\ Branch /\ Fresh /\ Measured /\ Chained /\ LastKept /\ Potential

-----------------------------------------------------------------------------
\* The fields of an input.
LEMMA InputFields ==
  ASSUME drv \in Inputs
  PROVE  /\ drv.ntraj_tot \in Nat /\ drv.store_each \in Nat /\ drv.store_running \in Nat
         /\ drv.meas_each \in Nat /\ drv.hot \in BOOLEAN /\ drv.quenched \in BOOLEAN
         /\ drv.meta \in BOOLEAN /\ drv.ntraj_tot > 0 /\ (drv.meta => ~ drv.quenched)
OBVIOUS

\* No step changes the input.
LEMMA SameInput ==
  ASSUME [Next]_vars
  PROVE  drv' = drv /\ Trajs' = Trajs /\ Files' = Files
<1>1. drv' = drv
  BY DEF Next, Session, Create, Load, Continue, Break, Trajectory, Measure, SkipWrite, WriteOpen,
         WriteData, WriteRest, TopoOpen, TopoSave, Increase, Exit, Crash, AskRestart,
         RemoveRestart, Rest, vars
<1> QED BY <1>1 DEF Trajs, Files

\* A number is drawn.
LEMMA Draw ==
  /\ \A g \in GlbGen : /\ Drawn(g) \in GlbGen /\ Drawn(g).seed = g.seed
                       /\ Drawn(g).drawn = g.drawn + 1 /\ g.drawn \in Nat
  /\ \A l \in LocGen : /\ Drawn(l) \in LocGen /\ Drawn(l).seed = l.seed
                       /\ Drawn(l).drawn = l.drawn + 1 /\ l.drawn \in Nat
                       /\ l.seed \in GlbGen
BY DEF GlbGen, LocGen, Drawn

\* The generators of a session that begins.
LEMMA Seeding ==
  ASSUME NEW saved \in GlbGen, NEW n \in Nat, seed_new \in BOOLEAN, InitRnd(saved, n)
  PROVE  /\ ~ seed_new' /\ glb_rnd_gen' \in GlbGen /\ loc_rnd_gen' \in LocGen
         /\ loc_rnd_gen'.seed.seed = glb_rnd_gen'.seed
         /\ loc_rnd_gen'.seed.drawn + 1 = glb_rnd_gen'.drawn
         /\ loc_rnd_gen'.drawn = n
         /\ ~ seed_new => loc_rnd_gen'.seed = saved /\ glb_rnd_gen'.seed = saved.seed
<1> DEFINE g == IF seed_new THEN Seeded("new") ELSE saved
<1>1. g \in GlbGen
  BY DEF Seeded, GlbGen
<1>2. ~ seed_new' /\ glb_rnd_gen' = Drawn(g) /\ loc_rnd_gen' = [seed |-> g, drawn |-> n]
  BY DEF InitRnd
<1> QED BY <1>1, <1>2, Draw DEF LocGen

\* A history that grows, and its beginnings.
LEMMA Grown ==
  ASSUME NEW c \in Histories, NEW e \in Entry \cup {Junk}
  PROVE  /\ Append(c, e) \in Histories /\ Len(Append(c, e)) = Len(c) + 1
         /\ Append(c, e)[Len(c) + 1] = e
         /\ \A i \in 1 .. Len(c) : Append(c, e)[i] = c[i]
         /\ \A n \in 0 .. Len(c) : Upto(Append(c, e), n) = Upto(c, n)
         /\ Upto(c, Len(c)) = c
<1>1. /\ Append(c, e) \in Histories /\ Len(Append(c, e)) = Len(c) + 1 /\ Len(c) \in Nat
      /\ Append(c, e)[Len(c) + 1] = e
      /\ \A i \in 1 .. Len(c) : Append(c, e)[i] = c[i]
  BY DEF Histories
<1>2. ASSUME NEW n \in 0 .. Len(c) PROVE Upto(Append(c, e), n) = Upto(c, n)
  BY <1>1, SubSeqProperties DEF Histories, Upto
<1>3. Upto(c, Len(c)) = c
  BY SubSeqFull DEF Histories, Upto
<1> QED BY <1>1, <1>2, <1>3

\* The file of what is in memory.
LEMMA ConfFile ==
  ASSUME Types, NEW s \in Readable
  PROVE  /\ Conf(s) \in Files /\ Conf(s).state = s /\ Conf(s).conf = conf /\ Conf(s).traj = itraj
         /\ Conf(s).rnd = glb_rnd_gen /\ Conf(s).grid = grid
BY DEF Types, Files, Conf, Readable

\* What can be read of a file.
LEMMA Reading ==
  ASSUME Types, running.state \in Readable
  PROVE  /\ running.conf \in Histories /\ running.traj \in Trajs /\ running.rnd \in GlbGen
         /\ running.grid \in Seq(Nat) /\ Len(running.conf) = running.traj
         /\ SavedTraj(running) = running.traj /\ SavedRnd(running) = running.rnd
         /\ SavedConf(running) \in Histories /\ Len(SavedConf(running)) = running.traj
         /\ running.state = "whole" => SavedConf(running) = running.conf
         /\ running.state # "whole" /\ running.traj > 0 => ~ Sound(SavedConf(running))
         /\ running.traj = 0 => SavedConf(running) = <<>>
<1>1. running \in [state : Readable, conf : Histories, traj : Trajs, rnd : GlbGen, grid : Seq(Nat)]
  BY DEF Types, Files, Readable, Missing, Short
<1>2. Len(running.conf) = running.traj
  BY DEF Types
<1>3. running.traj \in Nat
  BY <1>1, InputFields DEF Trajs, Types
<1>4. CASE running.state = "whole"
  <2>1. SavedConf(running) = running.conf
    BY <1>4 DEF SavedConf
  <2>2. running.traj = 0 => running.conf = <<>>
    BY <1>1, <1>2 DEF Histories
  <2> QED BY <1>1, <1>2, <1>4, <2>1, <2>2 DEF SavedTraj, SavedRnd
<1>5. CASE running.state # "whole"
  <2>1. SavedConf(running) = [i \in 1 .. running.traj |-> Junk]
    BY <1>5 DEF SavedConf
  <2>2. SavedConf(running) \in Histories /\ Len(SavedConf(running)) = running.traj
    BY <1>3, <2>1 DEF Histories
  <2>3. running.traj > 0 => 1 \in DOMAIN SavedConf(running) /\ SavedConf(running)[1] = Junk
    BY <1>3, <2>1
  <2>4. running.traj = 0 => SavedConf(running) = <<>>
    BY <2>2 DEF Histories
  <2> QED BY <1>1, <1>2, <1>5, <2>2, <2>3, <2>4 DEF SavedTraj, SavedRnd, Sound
<1> QED BY <1>4, <1>5

\* A file is put in its place.
LEMMA Putting ==
  ASSUME Types, NEW l \in Places, NEW file \in Files, Put(l, file),
         file.state \in Readable => Len(file.conf) = file.traj
  PROVE  /\ running' \in Files /\ stored' \in [Trajs -> Files]
         /\ \A f \in {running'} \cup {stored'[n] : n \in Trajs} :
              f.state \in Readable => Len(f.conf) = f.traj
         /\ l # "store" => running' = file /\ stored' = stored
         /\ l = "store" => /\ running' = running /\ stored'[itraj] = file
                           /\ \A n \in Trajs : n # itraj => stored'[n] = stored[n]
<1>1. CASE l # "store"
  BY <1>1 DEF Put, Types
<1>2. CASE l = "store"
  <2>1. running' = running /\ stored' = [stored EXCEPT ![itraj] = file]
    BY <1>2 DEF Put
  <2> QED BY <1>2, <2>1 DEF Types
<1> QED BY <1>1, <1>2

\* Where the program goes from a place of writing.
LEMMA Leaving ==
  ASSUME Types, NEW l \in Places, NEW written \in BOOLEAN, Leave(l, written)
  PROVE  /\ writing' = "no" /\ stored_last_conf' \in BOOLEAN
         /\ l = "run" => pc' = "store" /\ stored_last_conf' = stored_last_conf
         /\ l = "store" => pc' = "increase" /\ stored_last_conf' = written
         /\ l = "last" => pc' = "end" /\ stored_last_conf' = stored_last_conf
BY DEF Types, Places, Leave, Goto

\* Memory is lost.
LEMMA Going ==
  ASSUME Types, Gone
  PROVE  /\ conf' \in Histories /\ itraj' \in Trajs /\ Len(conf') = itraj' /\ ntraj_prod' = 0
         /\ ntraj_prod' \in 0 .. itraj'
         /\ glb_rnd_gen' \in GlbGen /\ loc_rnd_gen' \in LocGen /\ grid' \in Seq(Nat)
         /\ pc' = "off" /\ writing' = "no" /\ conf' = <<>> /\ itraj' = 0 /\ grid' = <<>>
         /\ conf_created' = FALSE /\ stored_last_conf' = FALSE
<1>1. Seeded("input") \in GlbGen /\ Seeded(Seeded("input")) \in LocGen
  BY DEF Seeded, GlbGen, LocGen
<1>2. 0 \in Trajs
  BY InputFields DEF Types, Trajs
<1> QED BY <1>1, <1>2 DEF Gone, Histories

\* Every step keeps the types.
LEMMA TypesStep == Types /\ Course /\ [Next]_vars => Types'
<1> SUFFICES ASSUME Types, Course, [Next]_vars PROVE Types'
  OBVIOUS
<1> USE SameInput
<1>0. /\ drv \in Inputs /\ drv.ntraj_tot \in Nat /\ itraj \in Nat /\ itraj <= drv.ntraj_tot
      /\ ntraj_prod \in Nat /\ crashes \in Nat /\ requests \in Nat
  BY InputFields DEF Types, Trajs
<1>1. CASE Create
  <2>1. Seeded("input") \in GlbGen /\ (IF drv.hot THEN 1 ELSE 0) \in Nat /\ seed_new \in BOOLEAN
    BY DEF Seeded, GlbGen, Types
  <2>2. InitRnd(Seeded("input"), IF drv.hot THEN 1 ELSE 0)
    BY <1>1 DEF Create
  <2>3. ~ seed_new' /\ glb_rnd_gen' \in GlbGen /\ loc_rnd_gen' \in LocGen
    BY <2>1, <2>2, Seeding
  <2>4. seed_new' = FALSE
    BY <1>1 DEF Create, InitRnd
  <2> QED BY <1>1, <2>3, <2>4 DEF Create, Types, Goto, confs, counts
<1>2. CASE Load
  <2>1. running.state \in Readable /\ seed_new \in BOOLEAN /\ topo.state = "whole" => topo.grid \in Seq(Nat)
    BY <1>2 DEF Load, Readable, Types, Missing, Short
  <2>2. running.rnd \in GlbGen /\ SavedRnd(running) = running.rnd /\ running.grid \in Seq(Nat)
    BY <1>2, Reading DEF Load, Readable
  <2>3. glb_rnd_gen' \in GlbGen /\ loc_rnd_gen' \in LocGen /\ seed_new' = FALSE
    BY <1>2, <2>2, Seeding DEF Load, InitRnd, Types
  <2>4. itraj' \in Trajs /\ conf' \in Histories /\ Len(conf') = itraj'
    BY <1>2, Reading DEF Load, Readable
  <2>5. grid' \in Seq(Nat)
    BY <1>2, <2>2 DEF Load, LoadGrid, Types, Missing, Short
  <2>6. ntraj_prod' \in 0 .. itraj'
    BY <1>2, <2>4, <1>0 DEF Load, Course, Trajs
  <2> QED BY <1>2, <2>3, <2>4, <2>5, <2>6 DEF Load, Types, Goto, confs, counts
<1>3. CASE Continue \/ Break
  <2>1. stop' \in BOOLEAN /\ pc' \in {"traj", "last"}
    BY <1>3 DEF Continue, Break, Types, Goto, notes
  <2>2. /\ UNCHANGED <<drv, confs, obs, seed_new, restart, writing, chain, flags, counts>>
    BY <1>3 DEF Continue, Break, notes
  <2> QED BY <2>1, <2>2 DEF Types, confs, chain, flags, counts, Places
<1>4. CASE Trajectory
  <2>1. itraj + 1 \in Trajs /\ ntraj_prod + 1 \in 0 .. itraj + 1
    BY <1>0, <1>4, SMTT(40) DEF Trajectory, Course, Trajs, Types
  <2>2. [loc |-> loc_rnd_gen, glb |-> glb_rnd_gen] \in Entry
    BY DEF Types, Entry
  <2>3. conf' \in Histories /\ Len(conf') = itraj + 1
    BY <1>4, <2>2, Grown DEF Trajectory, Types
  <2>4. loc_rnd_gen' \in LocGen /\ glb_rnd_gen' \in GlbGen
    BY <1>4, Draw DEF Trajectory, Types
  <2>5. grid' \in Seq(Nat)
    BY <1>0, <1>4 DEF Trajectory, Types
  <2> QED BY <1>4, <2>1, <2>3, <2>4, <2>5 DEF Trajectory, Types, Goto, confs, notes, counts
<1>5. CASE Measure
  <2>1. loc_rnd_gen' \in LocGen
    BY <1>5, Draw DEF Measure, Types
  <2>2. NoLines \in [Trajs -> Histories]
    BY DEF NoLines, Histories
  <2>3. obs' \in [Trajs -> Histories]
    BY <1>5, <2>2 DEF Measure, Types
  <2>4. /\ UNCHANGED <<drv, confs, notes, writing, conf, itraj, glb_rnd_gen, grid, flags, counts>>
        /\ pc' = "run"
    BY <1>5 DEF Measure, Goto
  <2> QED BY <2>1, <2>3, <2>4 DEF Types, confs, notes, flags, counts, Places
<1>6. ASSUME NEW l \in Places, SkipWrite(l) PROVE Types'
  <2>1. /\ writing' = "no" /\ stored_last_conf' \in BOOLEAN /\ pc' \in {"store", "increase", "end"}
    BY <1>6, Leaving DEF SkipWrite, Places
  <2> QED BY <1>6, <2>1 DEF SkipWrite, Types, confs, notes, chain, counts, Places
<1>7. ASSUME NEW l \in Places, WriteOpen(l) \/ WriteData(l) \/ WriteRest(l) PROVE Types'
  <2>1. PICK file \in {Short, Conf("holed"), Conf("whole")} : Put(l, file)
    BY <1>7 DEF WriteOpen, WriteData, WriteRest
  <2>2. file \in Files /\ (file.state \in Readable => Len(file.conf) = file.traj)
    BY <2>1, ConfFile, SMTT(40) DEF Types, Files, Short, Readable
  <2>3. /\ running' \in Files /\ stored' \in [Trajs -> Files]
        /\ \A f \in {running'} \cup {stored'[n] : n \in Trajs} :
              f.state \in Readable => Len(f.conf) = f.traj
    BY <2>1, <2>2, Putting
  <2>4. CASE WriteOpen(l) \/ WriteData(l)
    BY <2>3, <2>4 DEF WriteOpen, WriteData, Types, notes, chain, flags, counts
  <2>5. CASE WriteRest(l)
    <3>1. /\ stored_last_conf' \in BOOLEAN
          /\ pc' \in Places \cup {"off", "loop", "traj", "measure", "increase", "end"}
          /\ writing' \in {"no", "data", "rest", "topo", "grid"}
      BY <2>5, Leaving DEF WriteRest, Types, Places
    <3> QED BY <2>3, <2>5, <3>1 DEF WriteRest, Types, notes, chain, counts
  <2> QED BY <1>7, <2>4, <2>5
<1>8. ASSUME NEW l \in Places, TopoOpen(l) PROVE Types'
  BY <1>8 DEF TopoOpen, Types, notes, chain, flags, counts
<1>9. ASSUME NEW l \in Places, TopoSave(l) PROVE Types'
  <2>1. /\ writing' = "no" /\ stored_last_conf' \in BOOLEAN /\ pc' \in {"store", "increase", "end"}
    BY <1>9, Leaving DEF TopoSave, Places
  <2>2. topo' \in [state : {"whole"}, grid : Seq(Nat)]
    BY <1>9 DEF TopoSave, Types
  <2> QED BY <1>9, <2>1, <2>2 DEF TopoSave, Types, notes, chain, counts, Places
<1>10. CASE Increase
  BY <1>10 DEF Increase, Types, Goto, confs, notes, chain, counts
<1>11. CASE Exit \/ Crash
  <2>1. crashes' \in 0 .. MaxCrashes
    BY <1>0, <1>11 DEF Exit, Crash, counts, Types
  <2> QED BY <1>11, <2>1, Going DEF Exit, Crash, Types, confs, notes, counts
<1>12. CASE AskRestart \/ RemoveRestart
  <2>1. restart' \in BOOLEAN /\ requests' \in 0 .. MaxRequests
    <3>1. requests \in 0 .. MaxRequests
      BY DEF Types
    <3>2. CASE AskRestart
      BY <3>1, <3>2 DEF AskRestart
    <3>3. CASE RemoveRestart
      BY <3>1, <3>3 DEF RemoveRestart, counts
    <3> QED BY <1>12, <3>2, <3>3
  <2>2. UNCHANGED <<drv, confs, obs, seed_new, stop, pc, writing, chain, flags, crashes>>
    BY <1>12 DEF AskRestart, RemoveRestart, counts
  <2> QED BY <2>1, <2>2 DEF Types, confs, chain, flags
<1>13. CASE UNCHANGED vars
  BY <1>13 DEF vars, Types, confs, notes, chain, flags, counts
<1> QED
  BY <1>1, <1>2, <1>3, <1>4, <1>5, <1>6, <1>7, <1>8, <1>9, <1>10, <1>11, <1>12, <1>13
     DEF Next, Session, Rest

-----------------------------------------------------------------------------
\* The place in the program goes with the flags, and with what is to be written.
LEMMA CourseStep == Types /\ Course /\ [Next]_vars => Course'
<1> SUFFICES ASSUME Types, Course, [Next]_vars PROVE Course'
  OBVIOUS
<1> USE SameInput
<1>0. ntraj_prod \in Nat /\ itraj \in Nat /\ drv' = drv /\ seed_new \in BOOLEAN
  BY InputFields DEF Types, Trajs
<1>1. CASE Create
  <2>1. seed_new' = FALSE
    BY <1>1 DEF Create, InitRnd
  <2> QED BY <1>1, <2>1 DEF Create, Course, Goto, Places
<1>2. CASE Load
  <2>1. seed_new' = FALSE
    BY <1>2 DEF Load, InitRnd
  <2> QED BY <1>2, <2>1 DEF Load, Course, Goto, Places
<1>3. CASE Continue
  BY <1>3 DEF Continue, Course, Goto, Places, chain, flags, notes
<1>4. CASE Break
  BY <1>4 DEF Break, Course, Goto, Places, chain, flags
<1>5. CASE Trajectory
  BY <1>0, <1>5 DEF Trajectory, Course, Goto, Places, notes
<1>6. CASE Measure
  BY <1>6 DEF Measure, Course, Goto, Places, notes, flags
<1>7. ASSUME NEW l \in Places, SkipWrite(l) PROVE Course'
  <2>1. writing' = "no" /\ pc' \in {"store", "increase", "end"} /\ (l = "last" => pc' = "end")
    BY <1>7, Leaving DEF SkipWrite, Places
  <2> QED BY <1>7, <2>1 DEF SkipWrite, Course, notes, Places
<1>8. ASSUME NEW l \in Places, WriteOpen(l) \/ WriteData(l) PROVE Course'
  <2>1. pc = l /\ pc' = l /\ WriteDue(l) /\ UNCHANGED <<drv, notes, chain, flags>>
    BY <1>8 DEF WriteOpen, WriteData, Course
  <2>2. WriteDue(l)'
    BY <2>1 DEF WriteDue, chain, flags, Places
  <2> QED BY <2>1, <2>2 DEF Course, notes, chain, flags, Places
<1>9. ASSUME NEW l \in Places, WriteRest(l) PROVE Course'
  <2>1. CASE Leave(l, TRUE)
    <3>1. writing' = "no" /\ pc' \in {"store", "increase", "end"} /\ (l = "last" => pc' = "end")
      BY <2>1, Leaving DEF Places
    <3> QED BY <1>9, <3>1 DEF WriteRest, Course, notes, Places
  <2>2. CASE writing' = "topo" /\ UNCHANGED <<pc, stored_last_conf>>
    <3>1. pc = l /\ WriteDue(l) /\ UNCHANGED <<drv, notes, chain, ntraj_prod>>
      BY <1>9 DEF WriteRest, Course
    <3>2. WriteDue(l)'
      BY <2>2, <3>1 DEF WriteDue, chain, Places
    <3> QED BY <2>2, <3>1, <3>2 DEF Course, notes, chain, Places
  <2> QED BY <1>9, <2>1, <2>2 DEF WriteRest
<1>10. ASSUME NEW l \in Places, TopoOpen(l) PROVE Course'
  <2>1. pc = l /\ pc' = l /\ WriteDue(l) /\ UNCHANGED <<drv, notes, chain, flags>>
    BY <1>10 DEF TopoOpen, Course
  <2>2. WriteDue(l)'
    BY <2>1 DEF WriteDue, chain, flags, Places
  <2> QED BY <2>1, <2>2 DEF Course, notes, chain, flags, Places
<1>11. ASSUME NEW l \in Places, TopoSave(l) PROVE Course'
  <2>1. writing' = "no" /\ pc' \in {"store", "increase", "end"} /\ (l = "last" => pc' = "end")
    BY <1>11, Leaving DEF TopoSave, Places
  <2> QED BY <1>11, <2>1 DEF TopoSave, Course, notes, Places
<1>12. CASE Increase
  BY <1>12 DEF Increase, Course, Goto, Places, notes, chain
<1>13. CASE Exit \/ Crash
  <2>1. pc # "off" /\ Gone /\ seed_new' = seed_new
    BY <1>13 DEF Exit, Crash, notes
  <2>2. ~ seed_new
    BY <2>1 DEF Course
  <2> QED BY <2>1, <2>2, Going DEF Course
<1>14. CASE AskRestart \/ RemoveRestart \/ UNCHANGED vars
  <2>1. UNCHANGED <<drv, confs, seed_new, pc, writing, chain, flags>>
    BY <1>14 DEF AskRestart, RemoveRestart, vars, notes
  <2>2. \A l \in Places : WriteDue(l)' = WriteDue(l)
    BY <2>1 DEF WriteDue, chain, flags, Places
  <2> QED BY <2>1, <2>2 DEF Course, confs, chain, flags
<1> QED
  BY <1>1, <1>2, <1>3, <1>4, <1>5, <1>6, <1>7, <1>8, <1>9, <1>10, <1>11, <1>12, <1>13, <1>14
     DEF Next, Session, Rest

-----------------------------------------------------------------------------
\* What a write leaves: the files of what is in memory, or short ones.
LEMMA Writing ==
  ASSUME Types, NEW l \in Places, WriteOpen(l) \/ WriteData(l) \/ WriteRest(l)
  PROVE  /\ pc = l /\ UNCHANGED <<drv, topo, obs, notes, chain, ntraj_prod, conf_created, counts>>
         /\ \E file \in {Short, Conf("holed"), Conf("whole")} :
              /\ file = (IF WriteRest(l) THEN Conf("whole")
                         ELSE IF WriteData(l) THEN Conf("holed") ELSE Short)
              /\ l # "store" => running' = file /\ stored' = stored
              /\ l = "store" => /\ running' = running /\ stored'[itraj] = file
                                /\ \A n \in Trajs : n # itraj => stored'[n] = stored[n]
<1>1. pc = l /\ UNCHANGED <<drv, topo, obs, notes, chain, ntraj_prod, conf_created, counts>>
  BY DEF WriteOpen, WriteData, WriteRest, flags
<1>2. /\ WriteOpen(l) => writing = "no" /\ Put(l, Short)
      /\ WriteData(l) => writing = "data" /\ Put(l, Conf("holed"))
      /\ WriteRest(l) => writing = "rest" /\ Put(l, Conf("whole"))
  BY DEF WriteOpen, WriteData, WriteRest
<1>3. /\ Short \in Files /\ Short.state \notin Readable /\ "holed" \in Readable /\ "whole" \in Readable
  BY DEF Files, Short, Readable
<1>4. \A s \in Readable : Conf(s) \in Files /\ Len(Conf(s).conf) = Conf(s).traj
  BY ConfFile DEF Types
<1>5. PICK file \in {Short, Conf("holed"), Conf("whole")} :
        /\ Put(l, file)
        /\ file = (IF WriteRest(l) THEN Conf("whole")
                   ELSE IF WriteData(l) THEN Conf("holed") ELSE Short)
  BY <1>2
<1>6. file \in Files /\ (file.state \in Readable => Len(file.conf) = file.traj)
  BY <1>3, <1>4, <1>5
<1> QED BY <1>1, <1>5, <1>6, Putting

\* The running configuration stays one that the session has gone through.
LEMMA BranchStep == Types /\ Course /\ Branch /\ [Next]_vars => Branch'
<1> SUFFICES ASSUME Types, Course, Branch, [Next]_vars PROVE Branch'
  OBVIOUS
<1> USE SameInput
<1>0. /\ itraj \in Nat /\ Len(conf) = itraj /\ conf \in Histories /\ drv' = drv
      /\ running.state \in Readable => running.traj \in Nat /\ running.conf \in Histories
  BY InputFields, Reading DEF Types, Trajs
<1>1. CASE Create
  <2>1. running = Missing /\ running' = running /\ itraj = 0 /\ itraj' = itraj /\ pc' = "loop"
    BY <1>0, <1>1 DEF Create, Goto, confs, Course
  <2> QED BY <2>1 DEF Branch, Missing, Readable
<1>2. CASE Load
  <2>1. /\ running.state \in Readable /\ running' = running /\ pc' = "loop" /\ ~ conf_created'
        /\ itraj' = SavedTraj(running) /\ conf' = SavedConf(running)
    BY <1>2 DEF Load, Goto, confs, Readable
  <2>2. /\ itraj' = running.traj /\ Len(conf') = itraj' /\ conf' \in Histories /\ running.traj \in Nat
        /\ running.state = "whole" => conf' = running.conf
    BY <1>0, <2>1, Reading
  <2>3. Upto(conf', Len(conf')) = conf'
    BY <2>2, SubSeqFull DEF Histories, Upto
  <2> QED BY <2>1, <2>2, <2>3 DEF Branch
<1>3. CASE Continue \/ Break
  <2>1. UNCHANGED <<running, conf, itraj, conf_created>> /\ pc = "loop" /\ pc' \in {"traj", "last"}
    BY <1>3 DEF Continue, Break, Goto, confs, chain, flags
  <2> QED BY <2>1 DEF Branch
<1>4. CASE Trajectory
  <2>1. /\ UNCHANGED <<running, conf_created>> /\ pc = "traj" /\ pc' = "measure" /\ itraj' = itraj + 1
        /\ conf' = Append(conf, [loc |-> loc_rnd_gen, glb |-> glb_rnd_gen])
    BY <1>4 DEF Trajectory, Goto, confs
  <2>2. [loc |-> loc_rnd_gen, glb |-> glb_rnd_gen] \in Entry
    BY DEF Types, Entry
  <2>3. \A n \in 0 .. itraj : Upto(conf', n) = Upto(conf, n)
    BY <1>0, <2>1, <2>2, Grown
  <2>4. running.state \in Readable => running.traj <= itraj /\ running.traj \in 0 .. itraj
    BY <1>0, <2>1 DEF Branch
  <2> QED BY <1>0, <2>1, <2>3, <2>4 DEF Branch, Readable
<1>5. CASE Measure
  <2>1. UNCHANGED <<running, conf, itraj>> /\ pc = "measure" /\ pc' = "run"
    BY <1>5 DEF Measure, Goto, confs
  <2> QED BY <1>0, <2>1 DEF Branch
<1>6. ASSUME NEW l \in Places, SkipWrite(l) PROVE Branch'
  <2>1. UNCHANGED <<running, conf, itraj>> /\ pc = l /\ pc' \in {"store", "increase", "end"}
    BY <1>6, Leaving DEF SkipWrite, confs, chain, Places
  <2> QED BY <2>1 DEF Branch, Places
<1>7. ASSUME NEW l \in Places, WriteOpen(l) \/ WriteData(l) \/ WriteRest(l) PROVE Branch'
  <2>1. pc = l /\ UNCHANGED <<conf, itraj>>
    BY <1>7, Writing DEF chain
  <2>2. pc' \in Places \cup {"increase", "end"}
    BY <1>7, Leaving DEF WriteOpen, WriteData, WriteRest, Places
  <2>3. running' \in {running, Short, Conf("holed"), Conf("whole")}
    BY <1>7, Writing
  <2>4. \A s \in Readable : /\ Conf(s).state = s /\ Conf(s).traj = itraj /\ Conf(s).conf = conf
    BY ConfFile
  <2>5. Upto(conf, itraj) = conf
    BY <1>0, SubSeqFull DEF Histories, Upto
  <2>6. CASE running' = running
    BY <2>1, <2>2, <2>6 DEF Branch, Places
  <2>7. CASE running' # running
    BY <1>0, <2>1, <2>2, <2>3, <2>4, <2>5, <2>7 DEF Branch, Places, Short, Readable
  <2> QED BY <2>6, <2>7
<1>8. ASSUME NEW l \in Places, TopoOpen(l) \/ TopoSave(l) PROVE Branch'
  <2>1. /\ UNCHANGED <<running, conf, itraj>> /\ pc = l /\ pc' \in Places \cup {"increase", "end"}
    BY <1>8, Leaving DEF TopoOpen, TopoSave, chain, Places
  <2> QED BY <2>1 DEF Branch, Places
<1>9. CASE Increase
  BY <1>9 DEF Increase, Branch, Goto, confs, chain
<1>10. CASE Exit \/ Crash
  BY <1>10, Going DEF Exit, Crash, Branch
<1>11. CASE AskRestart \/ RemoveRestart \/ UNCHANGED vars
  <2>1. UNCHANGED <<running, pc, conf, itraj, conf_created>>
    BY <1>11 DEF AskRestart, RemoveRestart, vars, confs, chain, flags
  <2> QED BY <2>1 DEF Branch
<1> QED
  BY <1>1, <1>2, <1>3, <1>4, <1>5, <1>6, <1>7, <1>8, <1>9, <1>10, <1>11 DEF Next, Session, Rest

-----------------------------------------------------------------------------
\* What is past stays past.
LEMMA PastLater ==
  ASSUME NEW c \in Histories, Sound(c), NEW g \in GlbGen, NEW h \in GlbGen, Past(c, g),
         h.seed = g.seed, g.drawn <= h.drawn
  PROVE  Past(c, h) /\ (g.drawn < h.drawn => \A i \in DOMAIN c : c[i].glb.drawn < h.drawn)
<1>1. \A i \in DOMAIN c : c[i] \in Entry
  BY DEF Histories, Sound
<1>2. g.drawn \in Nat /\ h.drawn \in Nat
  BY DEF GlbGen
<1>3. \A i \in DOMAIN c : c[i].loc.seed.drawn \in Nat /\ c[i].glb.drawn \in Nat
  BY <1>1 DEF Entry, LocGen, GlbGen
<1> QED BY <1>2, <1>3 DEF Past

\* A trajectory takes numbers that were not taken.
LEMMA FreshTrajectory ==
  ASSUME Types, Fresh, Trajectory, Sound(conf')
  PROVE  Past(conf', glb_rnd_gen') /\ NoReuse(conf')
         /\ \A i \in DOMAIN conf' :
              /\ conf'[i].loc.seed = loc_rnd_gen'.seed => conf'[i].loc.drawn < loc_rnd_gen'.drawn
              /\ ~ drv.quenched => conf'[i].glb # loc_rnd_gen'.seed
<1> DEFINE e == [loc |-> loc_rnd_gen, glb |-> glb_rnd_gen]
           n == itraj
<1>1. /\ conf' = Append(conf, e) /\ loc_rnd_gen' = Drawn(loc_rnd_gen) /\ pc # "off"
      /\ glb_rnd_gen' = IF drv.quenched THEN glb_rnd_gen ELSE Drawn(glb_rnd_gen)
  BY DEF Trajectory
<1>2. /\ e \in Entry /\ conf \in Histories /\ Len(conf) = n /\ n \in Nat
      /\ glb_rnd_gen \in GlbGen /\ loc_rnd_gen \in LocGen
  BY InputFields DEF Types, Entry, Trajs
<1>3. /\ DOMAIN conf = 1 .. n /\ DOMAIN conf' = 1 .. n + 1 /\ conf'[n + 1] = e
      /\ \A i \in 1 .. n : conf'[i] = conf[i]
  BY <1>1, <1>2, Grown DEF Histories
<1>4. Sound(conf)
  BY <1>2, <1>3 DEF Sound
<1>5. /\ loc_rnd_gen.seed.seed = glb_rnd_gen.seed /\ loc_rnd_gen.seed.drawn < glb_rnd_gen.drawn
      /\ Past(conf, glb_rnd_gen) /\ NoReuse(conf)
      /\ \A i \in 1 .. n :
           /\ conf[i].loc.seed = loc_rnd_gen.seed => conf[i].loc.drawn < loc_rnd_gen.drawn
           /\ ~ drv.quenched => conf[i].glb # loc_rnd_gen.seed
  BY <1>1, <1>3, <1>4 DEF Fresh
<1>6. /\ glb_rnd_gen' \in GlbGen /\ glb_rnd_gen'.seed = glb_rnd_gen.seed
      /\ glb_rnd_gen.drawn <= glb_rnd_gen'.drawn /\ glb_rnd_gen.drawn \in Nat
      /\ ~ drv.quenched => glb_rnd_gen.drawn < glb_rnd_gen'.drawn
      /\ loc_rnd_gen'.seed = loc_rnd_gen.seed /\ loc_rnd_gen.drawn < loc_rnd_gen'.drawn
      /\ loc_rnd_gen.drawn \in Nat /\ loc_rnd_gen'.drawn \in Nat
      /\ loc_rnd_gen.seed.drawn \in Nat /\ glb_rnd_gen'.drawn \in Nat
  <2>1. /\ Drawn(loc_rnd_gen).seed = loc_rnd_gen.seed /\ loc_rnd_gen.drawn \in Nat
        /\ Drawn(loc_rnd_gen).drawn = loc_rnd_gen.drawn + 1 /\ loc_rnd_gen.seed \in GlbGen
    BY <1>2, Draw
  <2>2. /\ Drawn(glb_rnd_gen).seed = glb_rnd_gen.seed /\ glb_rnd_gen.drawn \in Nat
        /\ Drawn(glb_rnd_gen).drawn = glb_rnd_gen.drawn + 1 /\ Drawn(glb_rnd_gen) \in GlbGen
    BY <1>2, Draw
  <2>3. loc_rnd_gen.seed.drawn \in Nat
    BY <2>1, Draw
  <2> QED BY <1>1, <1>2, <2>1, <2>2, <2>3
<1>7. Past(conf, glb_rnd_gen')
  BY <1>2, <1>4, <1>5, <1>6, PastLater
<1>8. \A i \in 1 .. n : conf[i] \in Entry
  BY <1>2, <1>3, <1>4 DEF Histories, Sound
<1>9. \A i \in 1 .. n : conf[i].loc.drawn \in Nat /\ conf[i].glb.drawn \in Nat
                        /\ conf[i].loc.seed.drawn \in Nat
  BY <1>8 DEF Entry, LocGen, GlbGen
<1>10. Past(conf', glb_rnd_gen')
  <2>1. /\ e.loc.seed.seed = glb_rnd_gen'.seed /\ e.loc.seed.drawn < glb_rnd_gen'.drawn
        /\ e.glb.seed = glb_rnd_gen'.seed /\ e.glb.drawn <= glb_rnd_gen'.drawn
        /\ ~ drv.quenched => e.glb.drawn < glb_rnd_gen'.drawn
    BY <1>5, <1>6
  <2>2. ASSUME NEW i \in 1 .. n PROVE conf'[i] = conf[i] /\ i \in DOMAIN conf
    BY <1>3, <2>2
  <2> HIDE DEF e, n
  <2>3. \A i \in DOMAIN conf' : i \in 1 .. n \/ i = n + 1
    BY <1>2, <1>3 DEF n
  <2> QED BY <1>3, <1>7, <2>1, <2>2, <2>3 DEF Past
<1>11. \A i \in 1 .. n : /\ conf[i].loc # e.loc
                         /\ ~ drv.quenched => /\ conf[i].glb # e.glb /\ conf[i].glb # e.loc.seed
                                              /\ e.glb # conf[i].loc.seed
  BY <1>3, <1>5, <1>6, <1>9 DEF Past
<1>12. e.glb # e.loc.seed
  BY <1>5, <1>6
<1>13. NoReuse(conf')
  <2> SUFFICES ASSUME NEW i \in 1 .. n + 1, NEW k \in 1 .. n + 1
               PROVE  /\ i # k => conf'[i].loc # conf'[k].loc
                      /\ (i # k /\ ~ drv.quenched) => conf'[i].glb # conf'[k].glb
                      /\ ~ drv.quenched => conf'[i].glb # conf'[k].loc.seed
    BY <1>3 DEF NoReuse
  <2> HIDE DEF e
  <2>1. CASE i \in 1 .. n /\ k \in 1 .. n
    BY <1>3, <1>5, <2>1 DEF NoReuse
  <2>2. CASE i = n + 1 /\ k \in 1 .. n
    BY <1>3, <1>11, <2>2
  <2>3. CASE i \in 1 .. n /\ k = n + 1
    BY <1>3, <1>11, <2>3
  <2>4. CASE i = n + 1 /\ k = n + 1
    BY <1>3, <1>12, <2>4
  <2> QED BY <1>2, <2>1, <2>2, <2>3, <2>4
<1>14. ASSUME NEW i \in 1 .. n + 1
       PROVE  /\ conf'[i].loc.seed = loc_rnd_gen'.seed => conf'[i].loc.drawn < loc_rnd_gen'.drawn
              /\ ~ drv.quenched => conf'[i].glb # loc_rnd_gen'.seed
  <2>1. CASE i = n + 1
    BY <1>3, <1>6, <1>12, <2>1
  <2>2. CASE i \in 1 .. n
    BY <1>3, <1>5, <1>6, <1>9, <2>2
  <2> QED BY <1>2, <2>1, <2>2
<1> QED BY <1>3, <1>10, <1>13, <1>14

\* No step makes a chain use again what it has used.
LEMMA FreshStep == Types /\ Course /\ Fresh /\ [Next]_vars => Fresh'
<1> SUFFICES ASSUME Types, Course, Fresh, [Next]_vars PROVE Fresh'
  OBVIOUS
<1> USE SameInput
<1>0. drv' = drv /\ seed_new \in BOOLEAN
  BY DEF Types
<1>1. ASSUME UNCHANGED <<running, conf, glb_rnd_gen, loc_rnd_gen>>, pc # "off" PROVE Fresh'
  BY <1>0, <1>1 DEF Fresh, Past, NoReuse
<1>2. CASE Create
  <2>1. Seeded("input") \in GlbGen /\ (IF drv.hot THEN 1 ELSE 0) \in Nat
    BY DEF Seeded, GlbGen
  <2>2. /\ loc_rnd_gen'.seed.seed = glb_rnd_gen'.seed
        /\ loc_rnd_gen'.seed.drawn < glb_rnd_gen'.drawn
    BY <1>0, <1>2, <2>1, Seeding DEF Create, GlbGen, LocGen
  <2>3. conf' = <<>> /\ running' = Missing
    BY <1>2 DEF Create, Course, confs
  <2> QED BY <2>2, <2>3 DEF Fresh, Past, NoReuse, Missing
<1>3. CASE Load
  <2>1. running.state \in Readable /\ running' = running /\ conf' = SavedConf(running) /\ pc = "off"
    BY <1>3 DEF Load, confs, Readable
  <2>2. ~ seed_new /\ running.rnd \in GlbGen /\ SavedRnd(running) = running.rnd
    BY <2>1, Reading DEF Course, Missing, Readable
  <2>3. /\ glb_rnd_gen' \in GlbGen /\ loc_rnd_gen' \in LocGen
        /\ loc_rnd_gen'.seed.seed = glb_rnd_gen'.seed
        /\ loc_rnd_gen'.seed.drawn + 1 = glb_rnd_gen'.drawn
        /\ loc_rnd_gen'.seed = running.rnd /\ glb_rnd_gen'.seed = running.rnd.seed
    BY <1>0, <1>3, <2>2, Seeding DEF Load
  <2>4. /\ loc_rnd_gen'.seed.drawn \in Nat /\ running.rnd.drawn \in Nat
        /\ loc_rnd_gen'.seed.drawn < glb_rnd_gen'.drawn
    BY <2>2, <2>3 DEF GlbGen, LocGen
  <2>5. CASE running.state = "whole" /\ Sound(running.conf)
    <3>1. conf' = running.conf /\ conf' \in Histories
      BY <2>1, <2>5, Reading
    <3>2. Past(conf', running.rnd) /\ NoReuse(conf')
      BY <2>5, <3>1 DEF Fresh
    <3>3. Past(conf', glb_rnd_gen')
      BY <2>2, <2>3, <2>4, <2>5, <3>1, <3>2, PastLater
    <3>4. \A i \in DOMAIN conf' : conf'[i] \in Entry
      BY <2>5, <3>1 DEF Histories, Sound
    <3>5. \A i \in DOMAIN conf' : conf'[i].loc.seed.drawn \in Nat /\ conf'[i].glb.drawn \in Nat
      BY <3>4 DEF Entry, LocGen, GlbGen
    <3>6. \A i \in DOMAIN conf' : /\ conf'[i].loc.seed # loc_rnd_gen'.seed
                                  /\ ~ drv.quenched => conf'[i].glb # loc_rnd_gen'.seed
      BY <2>3, <2>4, <3>2, <3>5 DEF Past
    <3> QED BY <1>0, <2>1, <2>3, <2>4, <3>1, <3>2, <3>3, <3>6 DEF Fresh, Past, NoReuse
  <2>6. CASE ~ (running.state = "whole" /\ Sound(running.conf))
    <3>1. Sound(conf') => conf' = <<>>
      <4>1. running.traj \in Nat
        BY <2>1, Reading, InputFields DEF Trajs, Types
      <4> QED BY <2>1, <2>6, <4>1, Reading
    <3> QED BY <2>1, <2>3, <2>4, <2>6, <3>1 DEF Fresh, Past, NoReuse
  <2> QED BY <2>5, <2>6
<1>4. CASE Trajectory
  <2>1. /\ running' = running /\ glb_rnd_gen' \in {glb_rnd_gen, Drawn(glb_rnd_gen)}
        /\ loc_rnd_gen' = Drawn(loc_rnd_gen) /\ pc # "off"
    BY <1>4 DEF Trajectory, confs
  <2>2. /\ loc_rnd_gen'.seed.seed = glb_rnd_gen'.seed
        /\ loc_rnd_gen'.seed.drawn < glb_rnd_gen'.drawn
    <3>1. /\ Drawn(loc_rnd_gen).seed = loc_rnd_gen.seed
          /\ Drawn(glb_rnd_gen).seed = glb_rnd_gen.seed /\ glb_rnd_gen.drawn \in Nat
          /\ Drawn(glb_rnd_gen).drawn = glb_rnd_gen.drawn + 1 /\ loc_rnd_gen.seed \in GlbGen
      BY Draw DEF Types
    <3>2. loc_rnd_gen.seed.drawn \in Nat
      BY <3>1, Draw
    <3>3. /\ loc_rnd_gen.seed.seed = glb_rnd_gen.seed
          /\ loc_rnd_gen.seed.drawn < glb_rnd_gen.drawn
      BY <2>1 DEF Fresh
    <3> QED BY <2>1, <3>1, <3>2, <3>3
  <2> QED BY <1>0, <1>4, <2>1, <2>2, FreshTrajectory DEF Fresh, Past, NoReuse
<1>5. CASE Measure
  <2>1. /\ UNCHANGED <<running, conf, glb_rnd_gen>> /\ pc # "off"
        /\ loc_rnd_gen' \in {loc_rnd_gen, Drawn(loc_rnd_gen)}
    BY <1>5 DEF Measure, confs
  <2>2. /\ loc_rnd_gen'.seed = loc_rnd_gen.seed /\ loc_rnd_gen.drawn <= loc_rnd_gen'.drawn
        /\ loc_rnd_gen.drawn \in Nat /\ loc_rnd_gen'.drawn \in Nat
    <3>1. /\ Drawn(loc_rnd_gen).seed = loc_rnd_gen.seed /\ loc_rnd_gen.drawn \in Nat
          /\ Drawn(loc_rnd_gen).drawn = loc_rnd_gen.drawn + 1
      BY Draw DEF Types
    <3> QED BY <2>1, <3>1
  <2>3. Sound(conf) => \A i \in DOMAIN conf : conf[i].loc.drawn \in Nat
    <3>1. Sound(conf) => \A i \in DOMAIN conf : conf[i] \in Entry
      BY DEF Types, Histories, Sound
    <3> QED BY <3>1 DEF Entry, LocGen
  <2> QED BY <1>0, <2>1, <2>2, <2>3 DEF Fresh, Past, NoReuse
<1>6. CASE Continue \/ Break \/ Increase
  BY <1>1, <1>6 DEF Continue, Break, Increase, confs, chain
<1>7. ASSUME NEW l \in Places, SkipWrite(l) \/ TopoOpen(l) \/ TopoSave(l) PROVE Fresh'
  BY <1>1, <1>7 DEF SkipWrite, TopoOpen, TopoSave, confs, chain, Places
<1>8. ASSUME NEW l \in Places, WriteOpen(l) \/ WriteData(l) \/ WriteRest(l) PROVE Fresh'
  <2>1. UNCHANGED <<conf, glb_rnd_gen, loc_rnd_gen>> /\ pc # "off"
    BY <1>8, Writing DEF chain, Places
  <2>2. running' \in {running, Short, Conf("holed"), Conf("whole")}
    BY <1>8, Writing
  <2>3. /\ Short.state # "whole" /\ Conf("holed").state # "whole" /\ Conf("whole").conf = conf
        /\ Conf("whole").rnd = glb_rnd_gen
    BY DEF Short, Conf
  <2> QED BY <1>0, <1>1, <2>1, <2>2, <2>3 DEF Fresh, Past, NoReuse
<1>9. CASE Exit \/ Crash
  <2>1. pc' = "off" /\ conf' = <<>> /\ running' = running
    BY <1>9, Going DEF Exit, Crash, confs
  <2>2. DOMAIN conf' = {}
    BY <2>1
  <2> QED BY <1>0, <2>1, <2>2 DEF Fresh, Past, NoReuse
<1>10. CASE AskRestart \/ RemoveRestart \/ UNCHANGED vars
  <2>1. UNCHANGED <<running, pc, conf, glb_rnd_gen, loc_rnd_gen>>
    BY <1>10 DEF AskRestart, RemoveRestart, vars, confs, chain
  <2> QED BY <1>0, <2>1 DEF Fresh, Past, NoReuse
<1> QED
  BY <1>2, <1>3, <1>4, <1>5, <1>6, <1>7, <1>8, <1>9, <1>10 DEF Next, Session, Rest

-----------------------------------------------------------------------------
\* What one has read of the running configuration.
LEMMA Loaded ==
  ASSUME Types, Load
  PROVE  /\ pc = "off" /\ pc' = "loop" /\ running' = running /\ stored' = stored /\ topo' = topo
         /\ running.state \in Readable /\ itraj' = running.traj /\ running.traj \in Nat
         /\ UNCHANGED <<obs, writing, ntraj_prod, stored_last_conf, crashes>>
         /\ \/ running.state = "whole" /\ conf' = running.conf
            \/ ~ Sound(conf') \/ (conf' = <<>> /\ itraj' = 0)
<1>1. /\ running.state \in Readable /\ running' = running /\ pc = "off" /\ pc' = "loop"
      /\ stored' = stored /\ topo' = topo
      /\ itraj' = SavedTraj(running) /\ conf' = SavedConf(running)
      /\ UNCHANGED <<obs, writing, ntraj_prod, stored_last_conf, crashes>>
  BY DEF Load, Goto, confs, counts, Readable
<1>2. running.traj \in Nat
  BY <1>1, Reading, InputFields DEF Trajs, Types
<1> QED BY <1>1, <1>2, Reading

\* A chain that grows is sound only if it was.
LEMMA GrownSound ==
  ASSUME Types, Trajectory
  PROVE  /\ pc = "traj" /\ pc' = "measure" /\ itraj' = itraj + 1 /\ itraj \in Nat
         /\ UNCHANGED <<running, stored, topo, obs, writing, stored_last_conf, crashes>>
         /\ Sound(conf') => Sound(conf)
         /\ \A n \in 0 .. itraj : Upto(conf', n) = Upto(conf, n)
<1>1. /\ pc = "traj" /\ pc' = "measure" /\ itraj' = itraj + 1
      /\ UNCHANGED <<running, stored, topo, obs, writing, stored_last_conf, crashes>>
      /\ conf' = Append(conf, [loc |-> loc_rnd_gen, glb |-> glb_rnd_gen])
  BY DEF Trajectory, Goto, confs, counts
<1>2. /\ [loc |-> loc_rnd_gen, glb |-> glb_rnd_gen] \in Entry /\ conf \in Histories
      /\ Len(conf) = itraj /\ itraj \in Nat
  BY InputFields DEF Types, Entry, Trajs
<1>3. /\ \A n \in 0 .. itraj : Upto(conf', n) = Upto(conf, n)
      /\ \A i \in 1 .. itraj : conf'[i] = conf[i]
      /\ DOMAIN conf = 1 .. itraj /\ DOMAIN conf' = 1 .. itraj + 1
  BY <1>1, <1>2, Grown DEF Histories
<1>4. Sound(conf') => Sound(conf)
  BY <1>2, <1>3 DEF Sound
<1> QED BY <1>1, <1>2, <1>3, <1>4

\* The observables follow the chain.
LEMMA MeasuredStep == Types /\ Course /\ Branch /\ Measured /\ [Next]_vars => Measured'
<1> SUFFICES ASSUME Types, Course, Branch, Measured, [Next]_vars, drv.meas_each > 0
             PROVE  /\ pc' # "off" /\ Sound(conf') =>
                         MeasuredUpto(obs', conf', IF pc' = "measure" THEN itraj' - 1 ELSE itraj')
                    /\ running'.state = "whole" /\ Sound(running'.conf) =>
                         MeasuredUpto(obs', running'.conf, running'.traj)
  BY SameInput DEF Measured, MeasuredUpto
<1> DEFINE Goal == /\ pc' # "off" /\ Sound(conf') =>
                         MeasuredUpto(obs', conf', IF pc' = "measure" THEN itraj' - 1 ELSE itraj')
                   /\ running'.state = "whole" /\ Sound(running'.conf) =>
                         MeasuredUpto(obs', running'.conf, running'.traj)
<1>0. /\ pc # "off" /\ Sound(conf) =>
           MeasuredUpto(obs, conf, IF pc = "measure" THEN itraj - 1 ELSE itraj)
      /\ running.state = "whole" /\ Sound(running.conf) =>
           MeasuredUpto(obs, running.conf, running.traj)
      /\ itraj \in Nat /\ Len(conf) = itraj /\ conf \in Histories
  BY InputFields DEF Measured, Types, Trajs
<1>1. CASE Create
  <2>1. running' = Missing /\ itraj' = 0 /\ pc' = "loop"
    BY <1>1 DEF Create, confs, Goto, Course, Types
  <2>2. running'.state # "whole"
    BY <2>1 DEF Missing
  <2>3. MeasuredUpto(obs', conf', 0)
    BY DEF MeasuredUpto
  <2> QED BY <2>1, <2>2, <2>3
<1>2. CASE Load
  <2>1. MeasuredUpto(obs', <<>>, 0)
    BY DEF MeasuredUpto
  <2> QED BY <1>0, <1>2, <2>1, Loaded
<1>3. CASE Trajectory
  <2>1. ASSUME Sound(conf') PROVE MeasuredUpto(obs', conf', itraj' - 1)
    <3>1. MeasuredUpto(obs, conf, itraj)
      BY <1>0, <1>3, <2>1, GrownSound
    <3> QED BY <1>0, <1>3, <3>1, GrownSound DEF MeasuredUpto
  <2> QED BY <1>0, <1>3, <2>1, GrownSound
<1>4. CASE Measure
  <2>1. /\ pc = "measure" /\ pc' = "run" /\ UNCHANGED <<conf, itraj, running, drv>>
        /\ \/ ~ Due(itraj, drv.meas_each) /\ obs' = obs
           \/ obs' = [IF conf_created THEN NoLines ELSE obs EXCEPT ![itraj] = conf]
    BY <1>4 DEF Measure, Goto, MeasureDue, BeginObs, Due, confs
  <2>2. Upto(conf, itraj) = conf
    BY <1>0, Grown
  <2>3. obs \in [Trajs -> Histories] /\ NoLines \in [Trajs -> Histories] /\ itraj \in Trajs
    BY DEF NoLines, Histories, Types
  <2>4. Due(itraj, drv.meas_each) => obs'[itraj] = Upto(conf, itraj)
    BY <2>1, <2>2, <2>3
  <2>5. \A n \in 1 .. itraj - 1 : obs'[n] = obs[n]
    <3>1. CASE conf_created
      BY <1>0, <2>1, <3>1 DEF Branch
    <3>2. CASE ~ conf_created
      <4>1. \A n \in 1 .. itraj - 1 : n \in Trajs /\ n # itraj
        BY <1>0, <2>3, InputFields DEF Trajs, Types
      <4> QED BY <2>1, <2>3, <3>2, <4>1
    <3> QED BY <3>1, <3>2
  <2>6. Sound(conf) => MeasuredUpto(obs', conf, itraj)
    <3> SUFFICES ASSUME Sound(conf), NEW n \in 1 .. itraj, Due(n, drv.meas_each)
                 PROVE  obs'[n] = Upto(conf, n)
      BY DEF MeasuredUpto
    <3>1. CASE n = itraj
      BY <2>4, <3>1
    <3>2. CASE n \in 1 .. itraj - 1
      BY <1>0, <2>1, <2>5, <3>2 DEF MeasuredUpto
    <3> QED BY <1>0, <3>1, <3>2
  <2>7. ASSUME running.state = "whole", Sound(running.conf)
        PROVE  MeasuredUpto(obs', running.conf, running.traj)
    <3>1. running.traj < itraj /\ running.traj \in Nat
      BY <2>1, <2>7, Reading, InputFields, SMTT(40) DEF Branch, Readable, Types, Trajs
    <3>2. \A n \in 1 .. running.traj : obs'[n] = obs[n]
      BY <1>0, <2>5, <3>1
    <3> QED BY <1>0, <2>7, <3>2 DEF MeasuredUpto
  <2> QED BY <2>1, <2>6, <2>7
<1>5. ASSUME UNCHANGED <<running, conf, itraj, obs>>, pc' # "measure", pc # "measure", pc # "off"
      PROVE  Goal
  BY <1>0, <1>5
<1>6. CASE Continue \/ Break \/ Increase
  BY <1>5, <1>6 DEF Continue, Break, Increase, Goto, confs, chain
<1>7. ASSUME NEW l \in Places, SkipWrite(l) \/ TopoOpen(l) \/ TopoSave(l) PROVE Goal
  <2>1. pc = l /\ pc' \in Places \cup {"increase", "end"} /\ UNCHANGED <<running, conf, itraj, obs>>
    BY <1>7, Leaving DEF SkipWrite, TopoOpen, TopoSave, confs, chain, Places
  <2> QED BY <1>5, <2>1 DEF Places
<1>8. ASSUME NEW l \in Places, WriteOpen(l) \/ WriteData(l) \/ WriteRest(l) PROVE Goal
  <2>1. pc = l /\ UNCHANGED <<conf, itraj, obs>>
    BY <1>8, Writing DEF chain
  <2>2. pc' \in Places \cup {"increase", "end"}
    BY <1>8, Leaving DEF WriteOpen, WriteData, WriteRest, Places
  <2>3. running' \in {running, Short, Conf("holed"), Conf("whole")}
    BY <1>8, Writing
  <2>4. /\ Short.state # "whole" /\ Conf("holed").state # "whole"
        /\ Conf("whole").conf = conf /\ Conf("whole").traj = itraj
    BY DEF Short, Conf
  <2>5. pc # "measure" /\ pc' # "measure" /\ pc # "off"
    BY <2>1, <2>2 DEF Places
  <2> QED BY <1>0, <2>1, <2>3, <2>4, <2>5
<1>9. CASE Exit \/ Crash
  <2>1. pc' = "off" /\ running' = running /\ obs' = obs
    BY <1>9, Going DEF Exit, Crash, confs
  <2> QED BY <1>0, <2>1
<1>10. CASE AskRestart \/ RemoveRestart \/ UNCHANGED vars
  <2>1. UNCHANGED <<running, pc, conf, itraj, obs>>
    BY <1>10 DEF AskRestart, RemoveRestart, vars, confs, chain
  <2> QED BY <1>0, <2>1
<1> QED
  BY <1>1, <1>2, <1>3, <1>4, <1>6, <1>7, <1>8, <1>9, <1>10 DEF Next, Session, Rest

-----------------------------------------------------------------------------
\* What the session produced last is on disk when it ends.
LEMMA LastStep == Types /\ Course /\ LastKept /\ [Next]_vars => LastKept'
<1> SUFFICES ASSUME Types, Course, LastKept, [Next]_vars PROVE LastKept'
  OBVIOUS
<1>1. ASSUME pc' \notin {"increase", "loop", "last", "end"}, writing' \notin {"topo", "grid"}
      PROVE  LastKept'
  BY <1>1 DEF LastKept, LastConfOnDisk
<1>2. CASE Create
  BY <1>2 DEF Create, Goto, Course, LastKept, LastConfOnDisk, Places
<1>3. CASE Load
  BY <1>3 DEF Load, Goto, Course, LastKept, LastConfOnDisk, Places
<1>4. CASE Continue
  BY <1>1, <1>4 DEF Continue, Goto, Course, Places
<1>5. CASE Break
  <2>1. /\ UNCHANGED <<stored, stored_last_conf, itraj, conf, glb_rnd_gen>>
        /\ writing' = "no" /\ pc' = "last" /\ pc = "loop"
    BY <1>5 DEF Break, Goto, Course, Places, confs, chain, flags
  <2> QED BY <2>1 DEF LastKept, LastConfOnDisk, Whole
<1>6. CASE Trajectory
  BY <1>1, <1>6, GrownSound DEF Course, Places
<1>7. CASE Measure
  BY <1>1, <1>7 DEF Measure, Goto, Course, Places
<1>8. ASSUME NEW l \in Places, SkipWrite(l) PROVE LastKept'
  <2>1. /\ UNCHANGED <<running, stored, itraj, conf, glb_rnd_gen, ntraj_prod>>
        /\ writing' = "no" /\ pc = l /\ ~ WriteDue(l)
    BY <1>8, Leaving DEF SkipWrite, confs, chain
  <2>2. CASE l = "run"
    BY <1>1, <1>8, <2>1, <2>2, Leaving DEF SkipWrite
  <2>3. CASE l = "store"
    <3>1. pc' = "increase" /\ stored_last_conf' = FALSE
      BY <1>8, <2>3, Leaving DEF SkipWrite
    <3> QED BY <2>1, <3>1 DEF LastKept, LastConfOnDisk
  <2>4. CASE l = "last"
    <3>1. pc' = "end" /\ stored_last_conf' = stored_last_conf
      BY <1>8, <2>4, Leaving DEF SkipWrite
    <3>2. ntraj_prod > 0 => stored_last_conf
      BY <2>1, <2>4 DEF WriteDue
    <3> QED BY <2>1, <2>4, <3>1, <3>2 DEF LastKept, LastConfOnDisk, Whole
  <2> QED BY <2>2, <2>3, <2>4 DEF Places
<1>9. ASSUME NEW l \in Places, writing \in {"data", "rest", "topo", "grid"} \/ WriteDue(l), pc = l
      PROVE  l = "last" => ~ stored_last_conf
  BY <1>9 DEF Course, WriteDue
<1>10. ASSUME NEW l \in Places, WriteOpen(l) \/ WriteData(l) \/ TopoOpen(l) PROVE LastKept'
  <2>1. /\ pc = l /\ pc' = l /\ stored_last_conf' = stored_last_conf
        /\ writing' \in {"data", "rest", "grid"}
        /\ writing \in {"data", "topo"} \/ WriteDue(l)
    BY <1>10 DEF WriteOpen, WriteData, TopoOpen, flags
  <2>2. l = "last" => ~ stored_last_conf
    BY <1>9, <2>1
  <2>3. CASE TopoOpen(l)
    <3>1. UNCHANGED <<running, stored, itraj, conf, glb_rnd_gen>> /\ writing = "topo"
      BY <2>3 DEF TopoOpen, chain
    <3> QED BY <2>1, <2>2, <3>1 DEF LastKept, LastConfOnDisk, Whole, Places
  <2>4. CASE WriteOpen(l) \/ WriteData(l)
    <3>1. writing' \in {"data", "rest"}
      BY <2>4 DEF WriteOpen, WriteData
    <3> QED BY <2>1, <2>2, <3>1 DEF LastKept, LastConfOnDisk, Places
  <2> QED BY <1>10, <2>3, <2>4
<1>11. ASSUME NEW l \in Places, pc = l, l = "last" => ~ stored_last_conf, Leave(l, TRUE),
              UNCHANGED <<itraj, conf, glb_rnd_gen>>,
              Whole(IF l = "store" THEN stored[itraj] ELSE running)'
       PROVE  LastKept'
  <2>1. writing' = "no"
    BY <1>11, Leaving
  <2>2. CASE l = "run"
    BY <1>1, <1>11, <2>1, <2>2, Leaving
  <2>3. CASE l = "store"
    BY <1>11, <2>1, <2>3, Leaving DEF LastKept, LastConfOnDisk
  <2>4. CASE l = "last"
    BY <1>11, <2>1, <2>4, Leaving DEF LastKept, LastConfOnDisk, Whole
  <2> QED BY <2>2, <2>3, <2>4 DEF Places
<1>12. ASSUME NEW l \in Places, WriteRest(l) PROVE LastKept'
  <2>1. pc = l /\ writing = "rest" /\ UNCHANGED <<itraj, conf, glb_rnd_gen>>
    BY <1>12 DEF WriteRest, chain
  <2>2. l = "last" => ~ stored_last_conf
    BY <1>9, <2>1
  <2>3. Whole(IF l = "store" THEN stored[itraj] ELSE running)'
    <3>1. Conf("whole").state = "whole" /\ Conf("whole").conf = conf /\ Conf("whole").rnd = glb_rnd_gen
      BY DEF Conf
    <3>2. (IF l = "store" THEN stored'[itraj] ELSE running') = Conf("whole")
      BY <1>12, Writing
    <3> QED BY <2>1, <3>1, <3>2 DEF Whole
  <2>4. CASE Leave(l, TRUE)
    BY <1>11, <2>1, <2>2, <2>3, <2>4
  <2>5. CASE writing' = "topo" /\ UNCHANGED <<pc, stored_last_conf>>
    BY <2>1, <2>2, <2>3, <2>5 DEF LastKept, LastConfOnDisk, Places
  <2> QED BY <1>12, <2>4, <2>5 DEF WriteRest
<1>13. ASSUME NEW l \in Places, TopoSave(l) PROVE LastKept'
  <2>1. /\ pc = l /\ writing = "grid" /\ Leave(l, TRUE)
        /\ UNCHANGED <<running, stored, itraj, conf, glb_rnd_gen>>
    BY <1>13 DEF TopoSave, chain
  <2>2. Whole(IF l = "store" THEN stored[itraj] ELSE running)'
    BY <2>1 DEF LastKept, Whole
  <2> QED BY <1>9, <1>11, <2>1, <2>2
<1>14. CASE Increase
  <2>1. /\ UNCHANGED <<stored, itraj, conf, glb_rnd_gen, stored_last_conf>>
        /\ writing' = "no" /\ pc' = "loop" /\ pc = "increase"
    BY <1>14 DEF Increase, Goto, Course, Places, confs, chain
  <2> QED BY <2>1 DEF LastKept, LastConfOnDisk, Whole
<1>15. CASE Exit \/ Crash
  BY <1>1, <1>15, Going DEF Exit, Crash
<1>16. CASE AskRestart \/ RemoveRestart \/ UNCHANGED vars
  <2>1. UNCHANGED <<running, stored, pc, writing, conf, itraj, glb_rnd_gen, ntraj_prod,
                    stored_last_conf>>
    BY <1>16 DEF AskRestart, RemoveRestart, vars, confs, chain, flags
  <2> QED BY <2>1 DEF LastKept, LastConfOnDisk, Whole
<1> QED
  BY <1>2, <1>3, <1>4, <1>5, <1>6, <1>7, <1>8, <1>10, <1>12, <1>13, <1>14, <1>15, <1>16
     DEF Next, Session, Rest

-----------------------------------------------------------------------------
\* The sets of bad stored configurations are finite, and count as they should.
LEMMA Fewer ==
  ASSUME NEW t \in Int, NEW T \in SUBSET (1 .. t), NEW S \in SUBSET T
  PROVE  Cardinality(S) <= Cardinality(T) /\ Cardinality(S) \in Nat /\ Cardinality(T) \in Nat
<1>1. IsFiniteSet(T)
  <2>1. IsFiniteSet(1 .. t)
    BY FS_Interval
  <2> QED BY <2>1, FS_Subset
<1>2. IsFiniteSet(S) /\ Cardinality(S) <= Cardinality(T)
  BY <1>1, FS_Subset
<1> QED BY <1>1, <1>2, FS_CardinalityType

\* One element more counts one more at most.
LEMMA OneMore ==
  ASSUME NEW t \in Int, NEW T \in SUBSET (1 .. t), NEW x, NEW S \in SUBSET (T \cup {x})
  PROVE  Cardinality(S) <= Cardinality(T) + 1
<1>1. IsFiniteSet(T) /\ Cardinality(T) \in Nat
  <2>1. IsFiniteSet(1 .. t)
    BY FS_Interval
  <2>2. IsFiniteSet(T)
    BY <2>1, FS_Subset
  <2> QED BY <2>2, FS_CardinalityType
<1>2. IsFiniteSet(T \cup {x}) /\ Cardinality(T \cup {x}) <= Cardinality(T) + 1
  <2>1. IsFiniteSet(T \cup {x})
        /\ (Cardinality(T \cup {x}) = Cardinality(T) \/ Cardinality(T \cup {x}) = Cardinality(T) + 1)
    BY <1>1, FS_AddElement
  <2> QED BY <1>1, <2>1
<1>3. IsFiniteSet(S) /\ Cardinality(S) <= Cardinality(T \cup {x})
  BY <1>2, FS_Subset
<1>4. Cardinality(T \cup {x}) \in Nat /\ Cardinality(S) \in Nat
  BY <1>2, <1>3, FS_CardinalityType
<1> QED BY <1>1, <1>2, <1>3, <1>4

\* A chain loses no more stored configurations than there are crashes.
LEMMA ChainedStep ==
  Types /\ Course /\ Branch /\ LastKept /\ Chained /\ [Next]_vars => Chained'
<1> SUFFICES ASSUME Types, Course, Branch, LastKept, Chained, [Next]_vars, drv.store_each > 0
             PROVE  /\ pc' # "off" /\ Sound(conf') =>
                         Cardinality(Bad(stored', conf', itraj') \ PendingAt(pc', itraj')) <= crashes'
                    /\ running'.state = "whole" /\ Sound(running'.conf) =>
                         Cardinality(Bad(stored', running'.conf, running'.traj)
                                     \ PendingAt(pc', itraj')) <= crashes'
  BY SameInput DEF Chained, Bad
<1> DEFINE OfConf == pc' # "off" /\ Sound(conf') =>
             Cardinality(Bad(stored', conf', itraj') \ PendingAt(pc', itraj')) <= crashes'
           OfRunning == running'.state = "whole" /\ Sound(running'.conf) =>
             Cardinality(Bad(stored', running'.conf, running'.traj) \ PendingAt(pc', itraj'))
               <= crashes'
<1>0. /\ pc # "off" /\ Sound(conf) =>
           Cardinality(Bad(stored, conf, itraj) \ PendingAt(pc, itraj)) <= crashes
      /\ running.state = "whole" /\ Sound(running.conf) =>
           Cardinality(Bad(stored, running.conf, running.traj) \ PendingAt(pc, itraj)) <= crashes
      /\ itraj \in Nat /\ crashes \in Nat /\ itraj \in Trajs
      /\ running.state \in Readable => running.traj \in Nat
  BY InputFields, Reading DEF Chained, Types, Trajs
<1>1. \A files, c, t : Bad(files, c, t) \subseteq 1 .. t
  BY DEF Bad
<1>2. PendingAt("off", itraj) = {} /\ PendingAt("loop", itraj) = {}
  BY DEF PendingAt
<1>3. CASE Create
  <2>1. /\ running' = Missing /\ itraj' = 0 /\ crashes' = crashes
    BY <1>3 DEF Create, confs, Course, counts, Types
  <2>2. running'.state # "whole"
    BY <2>1 DEF Missing
  <2>3. Bad(stored', conf', 0) \ PendingAt(pc', itraj') = {}
    BY DEF Bad
  <2> QED BY <1>0, <2>1, <2>2, <2>3, FS_EmptySet
<1>4. CASE Load
  <2>1. PendingAt(pc', itraj') = {} /\ PendingAt(pc, itraj) = {}
    BY <1>4, Loaded DEF PendingAt
  <2>2. Bad(stored', <<>>, 0) \ PendingAt(pc', itraj') = {}
    BY DEF Bad
  <2>3. UNCHANGED <<running, stored, crashes>>
    BY <1>4 DEF Load, confs, counts
  <2>4. ASSUME running.state = "whole", conf' = running.conf PROVE OfConf
    BY <1>0, <1>4, <2>1, <2>3, <2>4, Loaded
  <2>5. ASSUME conf' = <<>>, itraj' = 0 PROVE OfConf
    <3>1. Cardinality(Bad(stored', conf', itraj') \ PendingAt(pc', itraj')) = 0
      BY <2>2, <2>5, FS_EmptySet
    <3> QED BY <1>0, <2>3, <3>1
  <2>6. OfRunning
    BY <1>0, <2>1, <2>3
  <2> QED BY <1>4, <2>4, <2>5, <2>6, Loaded
<1>5. CASE Trajectory
  <2>1. PendingAt(pc, itraj) = {} /\ PendingAt(pc', itraj') = {itraj + 1} /\ pc # "off"
    BY <1>5, GrownSound DEF PendingAt
  <2>2. stored' = stored /\ running' = running /\ crashes' = crashes
    BY <1>5, GrownSound
  <2>3. Bad(stored', conf', itraj') \ {itraj + 1} \subseteq Bad(stored, conf, itraj)
    <3> SUFFICES ASSUME NEW n \in Bad(stored', conf', itraj'), n # itraj + 1
                 PROVE  n \in Bad(stored, conf, itraj)
      OBVIOUS
    <3>1. n \in 1 .. itraj
      BY <1>0, <1>5, GrownSound DEF Bad
    <3> QED BY <1>0, <1>5, <2>2, <3>1, GrownSound DEF Bad, Right
  <2>4. Bad(stored, conf, itraj) \ {} = Bad(stored, conf, itraj)
    OBVIOUS
  <2>5. OfConf
    <3>1. /\ Bad(stored, conf, itraj) \in SUBSET (1 .. itraj) /\ itraj \in Int
          /\ Bad(stored', conf', itraj') \ {itraj + 1} \in SUBSET Bad(stored, conf, itraj)
      BY <1>0, <1>1, <2>3
    <3>2. Cardinality(Bad(stored', conf', itraj') \ {itraj + 1}) <= Cardinality(Bad(stored, conf, itraj))
          /\ Cardinality(Bad(stored', conf', itraj') \ {itraj + 1}) \in Nat
          /\ Cardinality(Bad(stored, conf, itraj)) \in Nat
      BY <3>1, Fewer
    <3> QED BY <1>0, <1>5, <2>1, <2>2, <2>4, <3>2, GrownSound
  <2>6. OfRunning
    <3> SUFFICES ASSUME running.state = "whole", Sound(running.conf)
                 PROVE  Cardinality(Bad(stored, running.conf, running.traj) \ {itraj + 1}) <= crashes
      BY <2>1, <2>2
    <3>1. Bad(stored, running.conf, running.traj) \in SUBSET (1 .. running.traj) /\ running.traj \in Int
      BY <1>0, <1>1 DEF Readable
    <3>2. /\ Cardinality(Bad(stored, running.conf, running.traj) \ {itraj + 1})
               <= Cardinality(Bad(stored, running.conf, running.traj))
          /\ Cardinality(Bad(stored, running.conf, running.traj) \ {itraj + 1}) \in Nat
          /\ Cardinality(Bad(stored, running.conf, running.traj)) \in Nat
      BY <3>1, Fewer
    <3>3. Bad(stored, running.conf, running.traj) \ {} = Bad(stored, running.conf, running.traj)
      OBVIOUS
    <3> QED BY <1>0, <2>1, <3>2, <3>3
  <2> QED BY <2>5, <2>6
<1>6. ASSUME UNCHANGED <<running, stored, conf, itraj, crashes>>, pc # "off",
             PendingAt(pc', itraj) = PendingAt(pc, itraj)
      PROVE  OfConf /\ OfRunning
  BY <1>0, <1>6
<1>7. CASE Continue \/ Break \/ Increase
  <2>1. UNCHANGED <<running, stored, conf, itraj, crashes>> /\ pc # "off"
    BY <1>7 DEF Continue, Break, Increase, confs, chain, counts
  <2>2. PendingAt(pc', itraj) = PendingAt(pc, itraj)
    BY <1>7 DEF Continue, Break, Increase, Goto, PendingAt
  <2> QED BY <1>6, <2>1, <2>2
<1>8. CASE Measure
  <2>1. UNCHANGED <<running, stored, conf, itraj, crashes>> /\ pc = "measure" /\ pc' = "run"
    BY <1>8 DEF Measure, confs, counts, Goto
  <2> QED BY <1>6, <2>1 DEF PendingAt
\* The place "store" is left: nothing is pending any more.
<1>9. ASSUME UNCHANGED <<running, conf, itraj, crashes>>, pc = "store", pc' = "increase",
             \A n \in Trajs : n # itraj => stored'[n] = stored[n],
             ~ Due(itraj, drv.store_each) \/ (stored'[itraj].state = "whole" /\ stored'[itraj].conf = conf)
      PROVE  OfConf /\ OfRunning
  <2>1. PendingAt(pc, itraj) = {itraj} /\ PendingAt(pc', itraj') = {}
    BY <1>9 DEF PendingAt
  <2>2. conf = Upto(conf, itraj) /\ drv.ntraj_tot \in Nat
    BY Grown, InputFields DEF Types
  <2>3. ASSUME NEW c, NEW t \in 0 .. itraj, t = itraj => c = conf
        PROVE  Bad(stored', c, t) \subseteq Bad(stored, c, t) \ {itraj}
    <3> SUFFICES ASSUME NEW n \in Bad(stored', c, t) PROVE n \in Bad(stored, c, t) /\ n # itraj
      OBVIOUS
    <3>1. n \in 1 .. t /\ n \in Trajs
      BY <1>0, <2>2 DEF Bad, Trajs
    <3>2. n # itraj
      BY <1>9, <1>0, <2>2, <2>3, <3>1 DEF Bad, Right
    <3> QED BY <1>9, <3>1, <3>2 DEF Bad, Right
  <2>4. ASSUME NEW c, NEW t \in 0 .. itraj, t = itraj => c = conf,
               Cardinality(Bad(stored, c, t) \ {itraj}) <= crashes
        PROVE  Cardinality(Bad(stored', c, t) \ {}) <= crashes
    <3>1. Bad(stored', c, t) \ {} \subseteq Bad(stored, c, t) \ {itraj}
      BY <2>3, <2>4
    <3>2. Bad(stored, c, t) \ {itraj} \in SUBSET (1 .. t) /\ t \in Int
      BY <1>1
    <3>3. /\ Cardinality(Bad(stored', c, t) \ {}) <= Cardinality(Bad(stored, c, t) \ {itraj})
          /\ Cardinality(Bad(stored', c, t) \ {}) \in Nat
          /\ Cardinality(Bad(stored, c, t) \ {itraj}) \in Nat
      BY <3>1, <3>2, Fewer
    <3> QED BY <1>0, <2>4, <3>3
  <2>5. OfConf
    <3> SUFFICES ASSUME Sound(conf) PROVE Cardinality(Bad(stored', conf, itraj) \ {}) <= crashes
      BY <1>9, <2>1
    <3>1. Cardinality(Bad(stored, conf, itraj) \ {itraj}) <= crashes
      BY <1>0, <1>9, <2>1
    <3>2. itraj \in 0 .. itraj
      BY <1>0
    <3> QED BY <2>4, <3>1, <3>2
  <2>6. running.state = "whole" => /\ running.traj \in 0 .. itraj
                                   /\ running.traj = itraj => running.conf = conf
    BY <1>0, <1>9, <2>2 DEF Branch, Readable
  <2>7. OfRunning
    BY <1>0, <1>9, <2>1, <2>4, <2>6
  <2> QED BY <2>5, <2>7
<1>10. ASSUME NEW l \in Places, SkipWrite(l) PROVE OfConf /\ OfRunning
  <2>1. pc = l /\ ~ WriteDue(l) /\ UNCHANGED <<running, stored, conf, itraj, crashes>>
    BY <1>10 DEF SkipWrite, confs, chain, counts
  <2>2. CASE l = "store"
    <3>1. pc' = "increase" /\ ~ Due(itraj, drv.store_each)
      BY <1>10, <2>1, <2>2, Leaving DEF SkipWrite, WriteDue, Due
    <3> QED BY <1>9, <2>1, <2>2, <3>1
  <2>3. CASE l # "store"
    <3>1. (l = "run" /\ pc' = "store") \/ (l = "last" /\ pc' = "end")
      BY <1>10, <2>3, Leaving DEF SkipWrite, Places
    <3> QED BY <1>6, <2>1, <3>1 DEF PendingAt
  <2> QED BY <2>2, <2>3
<1>11. ASSUME NEW l \in Places, l # "store", WriteOpen(l) \/ WriteData(l) \/ WriteRest(l)
       PROVE  OfConf /\ OfRunning
  <2>1. pc = l /\ UNCHANGED <<conf, itraj, crashes>> /\ stored' = stored /\ pc # "off"
    BY <1>11, Writing DEF chain, counts, Places
  <2>2. pc' \in {l, IF l = "run" THEN "store" ELSE "end"}
    BY <1>11, Leaving DEF WriteOpen, WriteData, WriteRest, Places
  <2>3. PendingAt(pc', itraj') = PendingAt(pc, itraj)
    BY <1>11, <2>1, <2>2 DEF PendingAt, Places
  <2>4. running' \in {running, Short, Conf("holed"), Conf("whole")}
    BY <1>11, Writing
  <2>5. /\ Short.state # "whole" /\ Conf("holed").state # "whole"
        /\ Conf("whole").conf = conf /\ Conf("whole").traj = itraj
    BY DEF Short, Conf
  <2> QED BY <1>0, <2>1, <2>3, <2>4, <2>5
<1>12. ASSUME WriteOpen("store") \/ WriteData("store") \/ WriteRest("store")
       PROVE  OfConf /\ OfRunning
  <2>1. /\ pc = "store" /\ UNCHANGED <<running, conf, itraj, crashes>>
        /\ \A n \in Trajs : n # itraj => stored'[n] = stored[n]
    BY <1>12, Writing DEF chain, counts, Places
  <2>2. CASE pc' = "store"
    <3>1. PendingAt(pc, itraj) = {itraj} /\ PendingAt(pc', itraj') = {itraj}
      BY <2>1, <2>2 DEF PendingAt
    <3>2. ASSUME NEW c, NEW t \in 0 .. itraj
          PROVE  Bad(stored', c, t) \ {itraj} = Bad(stored, c, t) \ {itraj}
      <4>1. \A n \in 1 .. t : n \in Trajs
        BY <1>0, InputFields DEF Trajs, Types
      <4> QED BY <2>1, <4>1 DEF Bad, Right
    <3>3. running.state = "whole" => running.traj \in 0 .. itraj
      BY <1>0, <2>1 DEF Branch, Readable
    <3>4. itraj \in 0 .. itraj
      BY <1>0
    <3>5. OfConf
      BY <1>0, <2>1, <3>1, <3>2, <3>4
    <3>6. OfRunning
      BY <1>0, <2>1, <3>1, <3>2, <3>3, ZenonT(60)
    <3> QED BY <3>5, <3>6
  <2>3. CASE pc' # "store"
    <3>1. WriteRest("store") /\ pc' = "increase"
      BY <1>12, <2>1, <2>3, Leaving DEF WriteOpen, WriteData, WriteRest, Places
    <3>2. stored'[itraj] = Conf("whole")
      BY <3>1, Writing DEF Places
    <3>3. stored'[itraj].state = "whole" /\ stored'[itraj].conf = conf
      BY <3>2, ConfFile DEF Readable
    <3> QED BY <1>9, <2>1, <3>1, <3>3
  <2> QED BY <2>2, <2>3
<1>13. ASSUME NEW l \in Places, TopoOpen(l) PROVE OfConf /\ OfRunning
  <2>1. UNCHANGED <<pc, running, stored, conf, itraj, crashes>> /\ pc # "off"
    BY <1>13 DEF TopoOpen, chain, counts, Places
  <2> QED BY <1>6, <2>1
<1>14. ASSUME NEW l \in Places, TopoSave(l) PROVE OfConf /\ OfRunning
  <2>1. pc = l /\ writing = "grid" /\ UNCHANGED <<running, stored, conf, itraj, crashes>>
    BY <1>14 DEF TopoSave, chain, counts
  <2>2. CASE l = "store"
    <3>1. pc' = "increase"
      BY <1>14, <2>2, Leaving DEF TopoSave
    <3>2. stored[itraj].state = "whole" /\ stored[itraj].conf = conf
      BY <2>1, <2>2 DEF LastKept, Whole
    <3> QED BY <1>9, <2>1, <2>2, <3>1, <3>2
  <2>3. CASE l # "store"
    <3>1. (l = "run" /\ pc' = "store") \/ (l = "last" /\ pc' = "end")
      BY <1>14, <2>3, Leaving DEF TopoSave, Places
    <3> QED BY <1>6, <2>1, <3>1 DEF PendingAt
  <2> QED BY <2>2, <2>3
<1>15. CASE Exit \/ Crash
  <2>1. /\ pc' = "off" /\ itraj' = 0 /\ running' = running /\ stored' = stored
        /\ (crashes' = crashes /\ pc = "end") \/ crashes' = crashes + 1
    BY <1>15, Going DEF Exit, Crash, confs, counts
  <2>2. PendingAt(pc', itraj') = {}
    BY <2>1 DEF PendingAt
  <2>3. ASSUME running.state = "whole", Sound(running.conf)
        PROVE  Cardinality(Bad(stored, running.conf, running.traj) \ {}) <= crashes'
    <3> DEFINE B == Bad(stored, running.conf, running.traj)
    <3>1. B \ PendingAt(pc, itraj) \in SUBSET (1 .. running.traj) /\ running.traj \in Int
      BY <1>0, <1>1, <2>3 DEF Readable
    <3>2. CASE pc = "end" /\ crashes' = crashes
      <4>1. PendingAt(pc, itraj) = {}
        BY <3>2 DEF PendingAt
      <4> QED BY <1>0, <2>3, <3>2, <4>1
    <3>3. CASE crashes' = crashes + 1
      <4>1. B \ {} \subseteq (B \ PendingAt(pc, itraj)) \cup {itraj}
        BY DEF PendingAt
      <4>2. Cardinality(B \ {}) <= Cardinality(B \ PendingAt(pc, itraj)) + 1
        BY <3>1, <4>1, OneMore
      <4>3. B \in SUBSET (1 .. running.traj) /\ B \ {} \in SUBSET B
            /\ B \ PendingAt(pc, itraj) \in SUBSET B
        BY <1>1
      <4>4. Cardinality(B \ {}) \in Nat /\ Cardinality(B \ PendingAt(pc, itraj)) \in Nat
        BY <3>1, <4>3, Fewer
      <4>5. Cardinality(B \ PendingAt(pc, itraj)) <= crashes
        BY <1>0, <2>3
      <4> QED BY <1>0, <3>3, <4>2, <4>4, <4>5
    <3> QED BY <2>1, <3>2, <3>3
  <2> QED BY <2>1, <2>2, <2>3
<1>16. CASE AskRestart \/ RemoveRestart \/ UNCHANGED vars
  <2>1. UNCHANGED <<pc, running, stored, conf, itraj, crashes>>
    BY <1>16 DEF AskRestart, RemoveRestart, vars, confs, chain, counts
  <2> QED BY <1>0, <2>1
<1>17. ASSUME NEW l \in Places, WriteOpen(l) \/ WriteData(l) \/ WriteRest(l) PROVE OfConf /\ OfRunning
  BY <1>11, <1>12, <1>17
<1> QED
  BY <1>3, <1>4, <1>5, <1>7, <1>8, <1>10, <1>13, <1>14, <1>15, <1>16, <1>17
     DEF Next, Session, Rest

-----------------------------------------------------------------------------
\* The potential of one more trajectory.
LEMMA CountMore ==
  /\ Count(0) = <<>>
  /\ \A n \in Nat : Append(Count(n), n) = Count(n + 1) /\ Count(n) \in Seq(Nat)
<1>1. Count(0) = <<>>
  BY DEF Count
<1>2. ASSUME NEW n \in Nat PROVE Append(Count(n), n) = Count(n + 1) /\ Count(n) \in Seq(Nat)
  <2>1. Count(n) \in Seq(Nat) /\ Len(Count(n)) = n /\ Count(n + 1) \in Seq(Nat)
        /\ Len(Count(n + 1)) = n + 1 /\ (\A i \in 1 .. n + 1 : Count(n + 1)[i] = i - 1)
        /\ \A i \in 1 .. n : Count(n)[i] = i - 1
    BY DEF Count
  <2>2. \A i \in 1 .. n + 1 : Append(Count(n), n)[i] = Count(n + 1)[i]
    BY <2>1
  <2>3. Append(Count(n), n) \in Seq(Nat) /\ Len(Append(Count(n), n)) = n + 1
    BY <2>1
  <2> QED BY <2>1, <2>2, <2>3, SeqEqual
<1> QED BY <1>1, <1>2

\* The potential is on disk what it was in memory.
LEMMA PotentialStep == Types /\ Course /\ Potential /\ [Next]_vars => Potential'
<1> SUFFICES ASSUME Types, Course, Potential, [Next]_vars, drv.meta, KeepsRunning, crashes' = 0
             PROVE  Potential'
  BY SameInput DEF Potential, KeepsRunning
<1> DEFINE InLoop == pc \in {"increase", "loop", "last"} /\ writing = "no" /\ ntraj_prod > 0
                     /\ drv.store_running = 1
           AtStore == pc = "store" /\ drv.store_running = 1
           Rewriting == pc \in {"run", "last"} /\ writing \in {"topo", "grid"}
           OfRunning == running.state = "whole" /\ running.traj = itraj
           AtRest == pc \in {"loop", "last", "end"} /\ ntraj_prod = 0
<1>1. crashes = 0 /\ drv' = drv /\ drv.store_running \in Nat /\ drv.store_each \in Nat
  <2>1. crashes' = crashes \/ Crash
    BY DEF Next, Session, Create, Load, Continue, Break, Trajectory, Measure, SkipWrite,
           WriteOpen, WriteData, WriteRest, TopoOpen, TopoSave, Increase, Exit, AskRestart,
           RemoveRestart, Rest, vars, counts
  <2>2. crashes \in Nat
    BY DEF Types
  <2>3. Crash => crashes' = crashes + 1
    BY DEF Crash
  <2> QED BY <2>1, <2>2, <2>3, SameInput, InputFields DEF Types
<1>2. /\ pc # "off" => grid = Count(itraj)
      /\ stored_last_conf => drv.store_running = 1
      /\ pc = "off" => Rested
      /\ AtRest => Rested /\ writing = "no"
      /\ InLoop => Saved
      /\ pc = "end" /\ ntraj_prod > 0 => Saved
      /\ AtStore => OfRunning /\ (writing # "grid" => TopoOf(itraj))
      /\ Rewriting => OfRunning
  BY <1>1 DEF Potential
<1>3. ASSUME /\ pc' # "off" => grid' = Count(itraj')
             /\ stored_last_conf' => drv.store_running = 1
             /\ pc' = "off" => Rested'
             /\ AtRest' => Rested' /\ writing' = "no"
             /\ InLoop' => Saved'
             /\ pc' = "end" /\ ntraj_prod' > 0 => Saved'
             /\ AtStore' => OfRunning' /\ (writing' # "grid" => TopoOf(itraj)')
             /\ Rewriting' => OfRunning'
      PROVE  Potential'
  BY <1>1, <1>3 DEF Potential
<1>4. /\ itraj \in Nat /\ ntraj_prod \in Nat /\ grid \in Seq(Nat)
      /\ \A n \in Nat : n % 1 = 0
      /\ drv.store_running = 1 \/ drv.store_each = 0
  BY InputFields DEF Types, Trajs, KeepsRunning
\* A place is left or a step is taken that concerns none of this.
<1>5. CASE Create
  <2>1. /\ pc = "off" /\ pc' = "loop" /\ UNCHANGED <<running, topo, itraj, grid, writing, ntraj_prod,
                                                     stored_last_conf>>
        /\ running = Missing
    BY <1>5 DEF Create, Goto, confs
  <2>2. itraj = 0 /\ grid = <<>> /\ ntraj_prod = 0 /\ ~ stored_last_conf /\ writing = "no"
    BY <2>1 DEF Course, Places, Types
  <2>3. Rested'
    BY <1>2, <2>1 DEF Rested, TopoOf
  <2> QED BY <1>3, <2>1, <2>2, <2>3, CountMore
<1>6. CASE Load
  <2>1. /\ pc = "off" /\ pc' = "loop" /\ running' = running /\ topo' = topo
        /\ itraj' = running.traj /\ running.state \in Readable
        /\ UNCHANGED <<writing, ntraj_prod, stored_last_conf>>
    BY <1>6, Loaded
  <2>2. ntraj_prod = 0 /\ ~ stored_last_conf /\ writing = "no"
    BY <2>1 DEF Course, Places
  <2>3. running # Missing /\ Missing.state = "missing"
    BY <2>1 DEF Readable, Missing
  <2>4. running.state = "whole" /\ TopoOf(running.traj)
    BY <1>2, <2>1, <2>3 DEF Rested
  <2>5. grid' = topo.grid
    BY <1>6, <2>3, <2>4 DEF Load, LoadGrid, TopoOf
  <2>6. Rested'
    BY <2>1, <2>4 DEF Rested, TopoOf
  <2>7. grid' = Count(itraj')
    BY <2>1, <2>4, <2>5 DEF TopoOf
  <2> QED BY <1>3, <2>1, <2>2, <2>6, <2>7
<1>7. ASSUME UNCHANGED <<running, topo, itraj, grid, ntraj_prod>>
      PROVE  /\ Rested => Rested'
             /\ Saved => Saved'
             /\ OfRunning => OfRunning'
             /\ TopoOf(itraj) => TopoOf(itraj)'
  BY <1>7 DEF Rested, Saved, TopoOf
<1>8. CASE Continue
  <2>1. /\ pc = "loop" /\ pc' = "traj" /\ UNCHANGED <<itraj, grid, stored_last_conf>>
    BY <1>8 DEF Continue, Goto, chain, flags
  <2> QED BY <1>2, <1>3, <2>1
<1>9. CASE Break
  <2>1. /\ pc = "loop" /\ pc' = "last" /\ writing' = "no" /\ writing = "no"
        /\ UNCHANGED <<running, topo, itraj, grid, ntraj_prod, stored_last_conf>>
    BY <1>9 DEF Break, Goto, confs, chain, flags, Course, Places
  <2> QED BY <1>1, <1>2, <1>3, <1>7, <2>1
<1>10. CASE Trajectory
  <2>1. /\ pc = "traj" /\ pc' = "measure" /\ itraj' = itraj + 1 /\ stored_last_conf' = stored_last_conf
    BY <1>10, GrownSound
  <2>2. grid' = Append(grid, itraj)
    BY <1>10 DEF Trajectory
  <2>3. grid' = Count(itraj')
    BY <1>2, <1>4, <2>1, <2>2, CountMore
  <2> QED BY <1>2, <1>3, <2>1, <2>3
<1>11. CASE Measure
  <2>1. /\ pc = "measure" /\ pc' = "run" /\ UNCHANGED <<itraj, grid, stored_last_conf>>
        /\ writing' = "no"
    BY <1>11 DEF Measure, Goto, flags, Course, Places
  <2> QED BY <1>2, <1>3, <2>1
<1>12. ASSUME NEW l \in Places, SkipWrite(l) PROVE Potential'
  <2>1. /\ pc = l /\ writing = "no" /\ ~ WriteDue(l) /\ writing' = "no"
        /\ UNCHANGED <<running, topo, itraj, grid, ntraj_prod>>
    BY <1>12, Leaving DEF SkipWrite, confs, chain
  <2>2. CASE l = "run"
    <3>1. pc' = "store" /\ stored_last_conf' = stored_last_conf
      BY <1>12, <2>2, Leaving DEF SkipWrite
    <3>2. drv.store_running # 1
      BY <1>4, <2>1, <2>2 DEF WriteDue
    <3> QED BY <1>1, <1>2, <1>3, <2>1, <2>2, <3>1, <3>2
  <2>3. CASE l = "store"
    <3>1. pc' = "increase" /\ ~ stored_last_conf'
      BY <1>12, <2>3, Leaving DEF SkipWrite
    <3>2. InLoop' => Saved'
      BY <1>1, <1>2, <1>7, <2>1, <2>3, <3>1 DEF Saved
    <3> QED BY <1>2, <1>3, <2>1, <2>3, <3>1, <3>2
  <2>4. CASE l = "last"
    <3>1. pc' = "end" /\ stored_last_conf' = stored_last_conf
      BY <1>12, <2>4, Leaving DEF SkipWrite
    <3>2. ntraj_prod > 0 => stored_last_conf
      BY <2>1, <2>4 DEF WriteDue
    <3>3. AtRest' => Rested' /\ writing' = "no"
      BY <1>2, <1>7, <2>1, <2>4
    <3>4. ntraj_prod' > 0 => Saved'
      BY <1>2, <1>7, <2>1, <2>4, <3>2
    <3> QED BY <1>2, <1>3, <2>1, <2>4, <3>1, <3>3, <3>4
  <2> QED BY <2>2, <2>3, <2>4 DEF Places
\* Where something is written: at "last" the session has produced, and at
\* "store" the running configuration is kept.
<1>13. ASSUME NEW l \in Places, pc = l, writing # "no" \/ WriteDue(l)
       PROVE  /\ l = "last" => ntraj_prod > 0
              /\ l = "store" => drv.store_running = 1
  <2>1. WriteDue(l)
    BY <1>13 DEF Course
  <2>2. l = "last" => ntraj_prod > 0
    BY <2>1 DEF WriteDue
  <2>3. l = "store" => drv.store_each > 0
    BY <2>1 DEF WriteDue
  <2> QED BY <1>1, <1>4, <2>2, <2>3
<1>14. ASSUME NEW l \in Places, WriteOpen(l) \/ WriteData(l) \/ WriteRest(l) PROVE Potential'
  <2>1. pc = l /\ UNCHANGED <<topo, itraj, grid, ntraj_prod>>
    BY <1>14, Writing DEF chain
  <2>2. pc' = l /\ stored_last_conf' = stored_last_conf /\ writing' \in {"data", "rest", "topo"}
    BY <1>14, <2>1 DEF WriteOpen, WriteData, WriteRest, flags
  <2>3. writing # "no" \/ WriteDue(l)
    BY <1>14 DEF WriteOpen, WriteData, WriteRest
  <2>4. /\ l = "last" => ntraj_prod > 0
        /\ l = "store" => drv.store_running = 1
    BY <1>13, <2>1, <2>3
  <2>5. l = "store" => OfRunning' /\ TopoOf(itraj)'
    <3> SUFFICES ASSUME l = "store" PROVE OfRunning' /\ TopoOf(itraj)'
      OBVIOUS
    <3>1. writing # "grid" /\ running' = running
      BY <1>14, Writing DEF WriteOpen, WriteData, WriteRest
    <3> QED BY <1>2, <1>7, <2>1, <2>4, <3>1
  <2>6. writing' = "topo" /\ l # "store" => OfRunning'
    <3> SUFFICES ASSUME writing' = "topo", l # "store" PROVE OfRunning'
      OBVIOUS
    <3>1. WriteRest(l)
      BY <1>14 DEF WriteOpen, WriteData
    <3>2. running' = Conf("whole") /\ "whole" \in Readable
      BY <3>1, Writing DEF Readable
    <3> QED BY <2>1, <3>2, ConfFile
  <2> QED BY <1>2, <1>3, <1>4, <2>1, <2>2, <2>4, <2>5, <2>6 DEF Places
<1>15. ASSUME NEW l \in Places, TopoOpen(l) PROVE Potential'
  <2>1. /\ pc = l /\ pc' = l /\ writing = "topo" /\ writing' = "grid"
        /\ UNCHANGED <<running, itraj, grid, ntraj_prod, stored_last_conf>>
    BY <1>15 DEF TopoOpen, chain, flags
  <2>2. /\ l = "last" => ntraj_prod > 0
        /\ l = "store" => drv.store_running = 1
    BY <1>13, <2>1
  <2>3. OfRunning'
    BY <1>2, <2>1, <2>2 DEF Places
  <2> QED BY <1>2, <1>3, <1>4, <2>1, <2>2, <2>3 DEF Places
<1>16. ASSUME NEW l \in Places, TopoSave(l) PROVE Potential'
  <2>1. /\ pc = l /\ writing = "grid" /\ writing' = "no" /\ Leave(l, TRUE)
        /\ UNCHANGED <<running, itraj, grid, ntraj_prod>>
        /\ topo' = [state |-> "whole", grid |-> grid]
    BY <1>16, Leaving DEF TopoSave, chain
  <2>2. /\ l = "last" => ntraj_prod > 0
        /\ l = "store" => drv.store_running = 1
    BY <1>13, <2>1
  <2>3. OfRunning'
    BY <1>2, <2>1, <2>2 DEF Places
  <2>4. TopoOf(itraj)' /\ grid' = Count(itraj')
    BY <1>2, <2>1 DEF TopoOf, Places
  <2>5. Saved'
    BY <2>3, <2>4 DEF Saved
  <2>6. CASE l = "run"
    <3>1. pc' = "store" /\ stored_last_conf' = stored_last_conf
      BY <2>1, <2>6, Leaving
    <3> QED BY <1>2, <1>3, <2>1, <2>3, <2>4, <3>1
  <2>7. CASE l = "store"
    <3>1. pc' = "increase"
      BY <2>1, <2>7, Leaving
    <3> QED BY <1>2, <1>3, <2>1, <2>2, <2>4, <2>5, <2>7, <3>1
  <2>8. CASE l = "last"
    <3>1. pc' = "end" /\ stored_last_conf' = stored_last_conf
      BY <2>1, <2>8, Leaving
    <3> QED BY <1>2, <1>3, <1>4, <2>1, <2>2, <2>4, <2>5, <2>8, <3>1
  <2> QED BY <2>6, <2>7, <2>8 DEF Places
<1>17. CASE Increase
  <2>1. /\ pc = "increase" /\ pc' = "loop" /\ writing = "no" /\ writing' = "no" /\ ntraj_prod > 0
        /\ UNCHANGED <<running, topo, itraj, grid, ntraj_prod, stored_last_conf>>
    BY <1>17 DEF Increase, Goto, confs, chain, Course, Places
  <2> QED BY <1>1, <1>2, <1>3, <1>4, <1>7, <2>1
<1>18. CASE Exit
  <2>1. pc = "end" /\ pc' = "off" /\ ~ stored_last_conf' /\ running' = running /\ topo' = topo
    BY <1>18, Going DEF Exit, confs
  <2>2. Rested
    BY <1>2, <1>4, <2>1 DEF Rested, Saved
  <2>3. Rested'
    BY <2>1, <2>2 DEF Rested, TopoOf
  <2> QED BY <1>3, <2>1, <2>3
<1>19. ~ Crash
  BY <1>1 DEF Crash
<1>20. CASE AskRestart \/ RemoveRestart \/ UNCHANGED vars
  <2>1. UNCHANGED <<pc, writing, running, topo, itraj, grid, ntraj_prod, stored_last_conf>>
    BY <1>20 DEF AskRestart, RemoveRestart, vars, confs, chain, flags
  <2> QED BY <1>1, <1>2, <1>3, <1>7, <2>1
<1> QED
  BY <1>5, <1>6, <1>8, <1>9, <1>10, <1>11, <1>12, <1>14, <1>15, <1>16, <1>17, <1>18, <1>19, <1>20
     DEF Next, Session, Rest

-----------------------------------------------------------------------------
\* A chain that has not begun is all of this.
LEMMA InitIInv == Init => IInv
<1> SUFFICES ASSUME Init PROVE IInv
  OBVIOUS
<1>1. /\ drv \in Inputs /\ running = Missing /\ stored = [n \in Trajs |-> Missing] /\ topo = Missing
      /\ obs = NoLines /\ seed_new \in BOOLEAN /\ restart = FALSE /\ stop = FALSE
      /\ pc = "off" /\ writing = "no" /\ conf = <<>> /\ itraj = 0 /\ grid = <<>>
      /\ glb_rnd_gen = Seeded("input") /\ loc_rnd_gen = Seeded(Seeded("input"))
      /\ ntraj_prod = 0 /\ conf_created = FALSE /\ stored_last_conf = FALSE
      /\ crashes = 0 /\ requests = 0
  BY DEF Init
<1>2. /\ Seeded("input") \in GlbGen /\ Seeded(Seeded("input")) \in LocGen
      /\ Missing.state = "missing" /\ "missing" \notin Readable
  BY DEF Seeded, GlbGen, LocGen, Missing, Readable
<1>3. 0 \in Trajs /\ <<>> \in Histories /\ Len(<<>>) = 0 /\ <<>> \in Seq(Nat)
  BY <1>1, InputFields DEF Trajs, Histories
<1>4. Types
  <2>1. running \in Files /\ stored \in [Trajs -> Files] /\ obs \in [Trajs -> Histories]
        /\ topo \in {Missing, Short} \cup [state : {"whole"}, grid : Seq(Nat)]
    BY <1>1, <1>3 DEF Files, NoLines
  <2>2. \A file \in {running} \cup {stored[n] : n \in Trajs} : file.state \notin Readable
    BY <1>1, <1>2
  <2>3. crashes \in 0 .. MaxCrashes /\ requests \in 0 .. MaxRequests /\ ntraj_prod \in 0 .. itraj
    BY <1>1, ProductionAssumption
  <2>4. conf \in Histories /\ itraj \in Trajs /\ Len(conf) = itraj /\ grid \in Seq(Nat)
    BY <1>1, <1>3
  <2> QED BY <1>1, <1>2, <2>1, <2>2, <2>3, <2>4 DEF Types
<1>5. Course /\ Branch /\ LastKept
  BY <1>1, <1>2 DEF Course, Branch, LastKept, LastConfOnDisk
<1>6. Fresh
  <2>1. Past(<<>>, glb_rnd_gen) /\ NoReuse(<<>>) /\ DOMAIN <<>> = {}
    BY DEF Past, NoReuse
  <2> QED BY <1>1, <1>2, <2>1 DEF Fresh
<1>7. Measured /\ Chained
  BY <1>1, <1>2 DEF Measured, Chained
<1>8. Potential
  BY <1>1 DEF Potential, Rested
<1> QED BY <1>4, <1>5, <1>6, <1>7, <1>8 DEF IInv

\* The invariant the theorems follow from.
THEOREM ProductionInvariant == Spec => []IInv
<1>1. IInv /\ [Next]_vars => IInv'
  BY TypesStep, CourseStep, BranchStep, FreshStep, MeasuredStep, ChainedStep, LastStep,
     PotentialStep DEF IInv
<1> QED BY InitIInv, <1>1, PTL DEF Spec

-----------------------------------------------------------------------------
\* Every variable has its type, and a configuration, in memory or on disk, has
\* as many trajectories as its number says.
THEOREM TypeCorrect == Spec => []TypeOK
<1>1. IInv => TypeOK
  <2> SUFFICES ASSUME Types, Course PROVE TypeOK
    BY DEF IInv
  <2>1. glb_rnd_gen.seed \in {"input", "new"}
    BY DEF Types, GlbGen
  <2>2. running.state \in {"missing", "short", "holed", "whole"}
        /\ topo.state \in {"missing", "short", "whole"}
    BY DEF Types, Files, Missing, Short
  <2> QED BY <2>1, <2>2 DEF Types, Course, TypeOK, Readable
<1> QED BY <1>1, ProductionInvariant, PTL

\* No random number enters a chain twice: the sites are seeded anew by each
\* session with a number that the global generator has not given before.
THEOREM NoRandomReuseHolds == Spec => []NoRandomReuse
<1>1. IInv => NoRandomReuse
  BY DEF IInv, Fresh, NoReuse, NoRandomReuse
<1> QED BY <1>1, ProductionInvariant, PTL

\* The observables have a line of each trajectory that was due, and the last
\* one is of the branch that goes on.
THEOREM MeasuredHistoryHolds == Spec => []MeasuredHistory
<1>1. IInv => MeasuredHistory
  BY DEF IInv, Measured, MeasuredUpto, Due, MeasuredHistory
<1> QED BY <1>1, ProductionInvariant, PTL

\* The stored configurations are those of the chain, but for one a crash.
THEOREM ChainStoredHolds == Spec => []ChainStored
<1>1. IInv => StoredOfChain
  <2> SUFFICES ASSUME Chained, pc = "loop", Sound(conf), drv.store_each > 0
               PROVE  StoredOfChain
    BY DEF IInv, StoredOfChain
  <2>1. Bad(stored, conf, itraj) \ PendingAt(pc, itraj)
          = {n \in 1 .. itraj : /\ n % drv.store_each = 0
                                /\ ~ (stored[n].state = "whole" /\ stored[n].conf = Upto(conf, n))}
    BY DEF Bad, PendingAt, Due, Right
  <2> QED BY <2>1 DEF Chained, StoredOfChain
<1> QED BY <1>1, ProductionInvariant, TypeCorrect, PTL DEF ChainStored

\* What a session produced last is on disk when it ends by itself.
THEOREM LastConfOnDiskHolds == Spec => []LastConfOnDisk
<1>1. IInv => LastConfOnDisk
  BY DEF IInv, LastKept
<1> QED BY <1>1, ProductionInvariant, PTL

\* The potential holds every trajectory of the history once, where the running
\* configuration is kept and nothing crashed.
THEOREM PotentialOfHistoryHolds == Spec => []PotentialOfHistory
<1>1. IInv => PotentialOfHistory
  BY DEF IInv, Potential, Count, PotentialOfHistory
<1> QED BY <1>1, ProductionInvariant, PTL
=============================================================================
