----------------------------- MODULE Production -----------------------------
(***************************************************************************)
(* The production of a Markov chain of gauge configurations by             *)
(* src/projects/generate_confs/generate.cpp, over the sessions it takes:   *)
(* a session may end for lack of time, because it is asked to, or by a     *)
(* crash between any two of its steps, and the next one starts from what   *)
(* is on disk.                                                             *)
(*                                                                         *)
(* A configuration is modelled by its history: for each trajectory, the    *)
(* random numbers it was made of.  These come from a global generator,     *)
(* saved with the configuration, and from the generators of the sites,     *)
(* which every session seeds anew by a number of the global one.  The      *)
(* history dependent potential is modelled by the trajectories it holds.   *)
(***************************************************************************)
EXTENDS Integers, Sequences, FiniteSets

CONSTANTS
  Inputs,       \* the input files: records of the parameters that matter
  MaxCrashes,   \* bound: the crashes of all the sessions
  MaxRequests,  \* bound: the times somebody asks a session to restart
  Junk          \* a trajectory of a configuration that was read broken

ASSUME ProductionAssumption ==
  /\ Inputs \subseteq [ntraj_tot : Nat, store_each : Nat, store_running : Nat,
                       meas_each : Nat, hot : BOOLEAN, quenched : BOOLEAN,
                       meta : BOOLEAN]
  /\ \A drv \in Inputs : drv.ntraj_tot > 0 /\ (drv.meta => ~ drv.quenched)
  /\ MaxCrashes \in Nat /\ MaxRequests \in Nat

VARIABLES
  drv,              \* the input file
  \* on disk
  running,          \* the file conf_pars.path
  stored,           \* the files conf_pars.store_path, by trajectory
  topo,             \* the file of the history dependent potential
  obs,              \* the file of an observable: each trajectory's last line
  seed_new, restart, stop,
  \* in memory
  pc, writing,      \* where the program is, and how far in write_conf
  conf, itraj, glb_rnd_gen, loc_rnd_gen, grid,
  ntraj_prod, conf_created, stored_last_conf,
  crashes, requests

confs == <<running, stored, topo>>
notes == <<seed_new, restart, stop>>
chain == <<conf, itraj, glb_rnd_gen, loc_rnd_gen, grid>>
flags == <<ntraj_prod, conf_created, stored_last_conf>>
counts == <<crashes, requests>>
vars == <<drv, confs, obs, notes, pc, writing, chain, flags, counts>>

Trajs == 0 .. drv.ntraj_tot

\* A generator: what it was seeded with (the seed of the input file or of
\* seed_new, or a number of another generator) and the numbers drawn since.
Seeded(s) == [seed |-> s, drawn |-> 0]
Drawn(g) == [g EXCEPT !.drawn = @ + 1]

\* A file that is being written is "short" until it has all its length, and
\* cannot be read; but the ranks write their data in no order, so that it may
\* have its length with a hole in it, before it is whole.
NoLines == [n \in Trajs |-> <<>>]

Missing == [state |-> "missing"]
Short == [state |-> "short"]
Conf(s) ==
  [state |-> s, conf |-> conf, traj |-> itraj, rnd |-> glb_rnd_gen, grid |-> grid]

Init ==
  /\ drv \in Inputs
  /\ running = Missing /\ stored = [n \in Trajs |-> Missing] /\ topo = Missing
  /\ obs = NoLines
  /\ seed_new \in BOOLEAN /\ restart = FALSE /\ stop = FALSE
  /\ pc = "off" /\ writing = "no"
  /\ conf = <<>> /\ itraj = 0 /\ grid = <<>>
  /\ glb_rnd_gen = Seeded("input") /\ loc_rnd_gen = Seeded(Seeded("input"))
  /\ ntraj_prod = 0 /\ conf_created = FALSE /\ stored_last_conf = FALSE
  /\ crashes = 0 /\ requests = 0

Goto(l) == pc' = l

\* What the session had in memory is lost.
Gone ==
  /\ pc' = "off" /\ writing' = "no"
  /\ conf' = <<>> /\ itraj' = 0 /\ grid' = <<>>
  /\ glb_rnd_gen' = Seeded("input") /\ loc_rnd_gen' = Seeded(Seeded("input"))
  /\ ntraj_prod' = 0 /\ conf_created' = FALSE /\ stored_last_conf' = FALSE

-----------------------------------------------------------------------------
\* init_rnd_gen: from seed_new, else from what it is told.  A number of the
\* global generator seeds those of the sites, which draw n numbers at once.
InitRnd(saved, n) ==
  LET g == IF seed_new THEN Seeded("new") ELSE saved
  IN /\ seed_new' = FALSE
     /\ glb_rnd_gen' = Drawn(g)
     /\ loc_rnd_gen' = [seed |-> g, drawn |-> n]

\* A session that finds no configuration creates one, hot or cold.
Create ==
  /\ pc = "off" /\ ~ stop
  /\ running = Missing
  /\ conf_created' = TRUE
  /\ InitRnd(Seeded("input"), IF drv.hot THEN 1 ELSE 0)
  /\ Goto("loop")
  /\ UNCHANGED <<drv, confs, obs, restart, stop, writing, conf, itraj, grid,
                 ntraj_prod, stored_last_conf, counts>>

\* Mutant: the state of the generator is not found in it.
NoRnd(file) == Seeded("input")

\* What read_conf takes from the messages of the file; its links may be broken
\* (a missing or wrong checksum is only reported).
SavedTraj(file) == file.traj
SavedRnd(file) == file.rnd
SavedConf(file) ==
  IF file.state = "whole" THEN file.conf ELSE [i \in 1 .. file.traj |-> Junk]

\* Mutant: the potential is begun anew by every session.
LoadNoGrid == grid' = <<>>

\* The potential is read from the configuration, then from its own file.
LoadGrid ==
  \/ ~ drv.meta /\ UNCHANGED grid
  \/ drv.meta /\ topo = Missing /\ grid' = running.grid
  \/ drv.meta /\ topo.state = "whole" /\ grid' = topo.grid

\* A session that finds the running configuration reads it.
Load ==
  /\ pc = "off" /\ ~ stop
  /\ running.state \in {"holed", "whole"}
  /\ conf_created' = FALSE
  /\ InitRnd(SavedRnd(running), 0)
  /\ itraj' = SavedTraj(running) /\ conf' = SavedConf(running)
  /\ LoadGrid
  /\ Goto("loop")
  /\ UNCHANGED <<drv, confs, obs, restart, stop, writing, ntraj_prod,
                 stored_last_conf, counts>>

-----------------------------------------------------------------------------
\* Mutant: at any time.
MayLackTimeAlways == TRUE

\* enough_time: it may be over, but never before the session's first trajectory.
MayLackTime == ntraj_prod > 0

\* check_if_continue: go on, or leave the loop for close_simulation.
Continue ==
  /\ pc = "loop"
  /\ ~ stop /\ ~ restart /\ itraj < drv.ntraj_tot
  /\ Goto("traj")
  /\ UNCHANGED <<drv, confs, obs, notes, writing, chain, flags, counts>>

Break ==
  /\ pc = "loop"
  /\ \/ (stop \/ restart) /\ UNCHANGED stop
     \/ ~ stop /\ ~ restart /\ itraj >= drv.ntraj_tot /\ stop' = TRUE
     \/ ~ stop /\ ~ restart /\ itraj < drv.ntraj_tot /\ MayLackTime
          /\ UNCHANGED stop
  /\ Goto("last")
  /\ UNCHANGED <<drv, confs, obs, seed_new, restart, writing, chain, flags,
                 counts>>

\* generate_new_conf, with the numbers of the sites and, unless quenched, one
\* for the Metropolis test; the charge then goes into the potential.
Trajectory ==
  /\ pc = "traj"
  /\ conf' = Append(conf, [loc |-> loc_rnd_gen, glb |-> glb_rnd_gen])
  /\ loc_rnd_gen' = Drawn(loc_rnd_gen)
  /\ glb_rnd_gen' = IF drv.quenched THEN glb_rnd_gen ELSE Drawn(glb_rnd_gen)
  /\ grid' = IF drv.meta THEN Append(grid, itraj) ELSE grid
  /\ itraj' = itraj + 1
  /\ ntraj_prod' = ntraj_prod + 1
  /\ Goto("measure")
  /\ UNCHANGED <<drv, confs, obs, notes, writing, conf_created,
                 stored_last_conf, counts>>

\* Mutant: the file is begun by the first measurement of every session.
BeginObsEachSession == ntraj_prod = 1

\* The file of an observable is begun with the chain, else added to.  A line
\* names the trajectory, and is modelled by what was measured.
BeginObs == conf_created

\* measurements, due every meas_each trajectories; a fermionic one draws numbers
\* of the sites too.
MeasureDue == drv.meas_each > 0 /\ itraj % drv.meas_each = 0

Measure ==
  /\ pc = "measure"
  /\ \/ ~ MeasureDue /\ UNCHANGED <<obs, loc_rnd_gen>>
     \/ /\ MeasureDue
        /\ obs' = [IF BeginObs THEN NoLines ELSE obs EXCEPT ![itraj] = conf]
        /\ loc_rnd_gen' = Drawn(loc_rnd_gen)
  /\ Goto("run")
  /\ UNCHANGED <<drv, confs, notes, writing, conf, itraj, glb_rnd_gen, grid,
                 flags, counts>>

-----------------------------------------------------------------------------
\* The three places that call write_conf: "run" and "store" in the loop, and
\* "last" in close_simulation.
Places == {"run", "store", "last"}

\* Mutant: what the session produced last is not written when it ends.
WriteDueInLoop(l) ==
  CASE l = "run"   -> drv.store_running > 0 /\ itraj % drv.store_running = 0
    [] l = "store" -> drv.store_each > 0 /\ itraj % drv.store_each = 0
    [] l = "last"  -> FALSE

WriteDue(l) ==
  CASE l = "run"   -> drv.store_running > 0 /\ itraj % drv.store_running = 0
    [] l = "store" -> drv.store_each > 0 /\ itraj % drv.store_each = 0
    [] l = "last"  -> ~ stored_last_conf /\ ntraj_prod > 0

\* Mutant: the stored configuration is numbered as its first trajectory is.
PutPrevious(l, file) ==
  \/ l = "store" /\ stored' = [stored EXCEPT ![itraj - 1] = file]
       /\ UNCHANGED running
  \/ l # "store" /\ running' = file /\ UNCHANGED stored

Put(l, file) ==
  \/ l = "store" /\ stored' = [stored EXCEPT ![itraj] = file] /\ UNCHANGED running
  \/ l # "store" /\ running' = file /\ UNCHANGED stored

\* What follows a place; store_conf_if_necessary notes whether it has stored.
Leave(l, written) ==
  /\ writing' = "no"
  /\ stored_last_conf' = IF l = "store" THEN written ELSE stored_last_conf
  /\ Goto(CASE l = "run" -> "store" [] l = "store" -> "increase"
            [] l = "last" -> "end")

SkipWrite(l) ==
  /\ pc = l /\ writing = "no" /\ ~ WriteDue(l)
  /\ Leave(l, FALSE)
  /\ UNCHANGED <<drv, confs, obs, notes, chain, ntraj_prod, conf_created, counts>>

\* The file is truncated, then filled; Leave or the potential's file follows.
WriteOpen(l) ==
  /\ pc = l /\ writing = "no" /\ WriteDue(l)
  /\ Put(l, Short)
  /\ writing' = "data"
  /\ UNCHANGED <<drv, topo, obs, notes, pc, chain, flags, counts>>

WriteData(l) ==
  /\ pc = l /\ writing = "data"
  /\ Put(l, Conf("holed"))
  /\ writing' = "rest"
  /\ UNCHANGED <<drv, topo, obs, notes, pc, chain, flags, counts>>

WriteRest(l) ==
  /\ pc = l /\ writing = "rest"
  /\ Put(l, Conf("whole"))
  /\ \/ ~ drv.meta /\ Leave(l, TRUE)
     \/ drv.meta /\ writing' = "topo" /\ UNCHANGED <<pc, stored_last_conf>>
  /\ UNCHANGED <<drv, topo, obs, notes, chain, ntraj_prod, conf_created, counts>>

\* save_topodynamical_potential
TopoOpen(l) ==
  /\ pc = l /\ writing = "topo"
  /\ topo' = Short
  /\ writing' = "grid"
  /\ UNCHANGED <<drv, running, stored, obs, notes, pc, chain, flags, counts>>

TopoSave(l) ==
  /\ pc = l /\ writing = "grid"
  /\ topo' = [state |-> "whole", grid |-> grid]
  /\ Leave(l, TRUE)
  /\ UNCHANGED <<drv, running, stored, obs, notes, chain, ntraj_prod,
                 conf_created, counts>>

\* The end of an iteration: surely the configuration is not new any more.
Increase ==
  /\ pc = "increase"
  /\ conf_created' = FALSE
  /\ Goto("loop")
  /\ UNCHANGED <<drv, confs, obs, notes, writing, chain, ntraj_prod,
                 stored_last_conf, counts>>

Exit ==
  /\ pc = "end"
  /\ Gone
  /\ UNCHANGED <<drv, confs, obs, notes, counts>>

-----------------------------------------------------------------------------
\* What is not the program.  It may be killed between any two of its steps.
Crash ==
  /\ pc # "off" /\ crashes < MaxCrashes
  /\ crashes' = crashes + 1
  /\ Gone
  /\ UNCHANGED <<drv, confs, obs, notes, requests>>

\* Somebody asks the session to end with a file, and sooner or later removes it.
AskRestart ==
  /\ pc # "off" /\ ~ restart /\ requests < MaxRequests
  /\ restart' = TRUE /\ requests' = requests + 1
  /\ UNCHANGED <<drv, confs, obs, seed_new, stop, pc, writing, chain, flags,
                 crashes>>

RemoveRestart ==
  /\ restart
  /\ restart' = FALSE
  /\ UNCHANGED <<drv, confs, obs, seed_new, stop, pc, writing, chain, flags,
                 counts>>

\* No session is submitted after the program has asked for none, and none can
\* start from a file that cannot be read.
Broken == running = Short \/ (drv.meta /\ topo = Short /\ running # Missing)
Over == pc = "off" /\ ~ restart /\ (stop \/ Broken)

Rest == Over /\ UNCHANGED vars

Session ==
  \/ Create \/ Load \/ Continue \/ Break \/ Trajectory \/ Measure
  \/ \E l \in Places : \/ SkipWrite(l) \/ WriteOpen(l) \/ WriteData(l)
                       \/ WriteRest(l) \/ TopoOpen(l) \/ TopoSave(l)
  \/ Increase \/ Exit

Next == Session \/ Crash \/ AskRestart \/ RemoveRestart \/ Rest

Spec == Init /\ [][Next]_vars

\* A session does not stop by itself, and is submitted again until there is
\* nothing left to do.
FairSpec == Spec /\ WF_vars(Session) /\ WF_vars(RemoveRestart)

-----------------------------------------------------------------------------
\* The type invariant: every variable has its type, and a configuration has as
\* many trajectories as its number says, in memory and on disk.
TypeOK ==
  /\ drv \in Inputs
  /\ itraj \in Trajs /\ Len(conf) = itraj /\ ntraj_prod \in 0 .. itraj
  /\ glb_rnd_gen.seed \in {"input", "new"}
  /\ running.state \in {"missing", "short", "holed", "whole"}
  /\ \A file \in {running} \cup {stored[n] : n \in Trajs} :
       file.state \in {"holed", "whole"} => Len(file.conf) = file.traj
  /\ topo.state \in {"missing", "short", "whole"}
  /\ {seed_new, restart, stop, conf_created, stored_last_conf} \subseteq BOOLEAN
  /\ pc \in Places \cup {"off", "loop", "traj", "measure", "increase", "end"}
  /\ writing \in {"no", "data", "rest", "topo", "grid"}
  /\ writing # "no" => pc \in Places
  /\ crashes \in 0 .. MaxCrashes /\ requests \in 0 .. MaxRequests

Sound(c) == \A i \in DOMAIN c : c[i] # Junk
Upto(c, n) == SubSeq(c, 1, n)

\* The lines of an observable follow the chain across crashes: what a readable
\* configuration descends from has been measured whenever it was due, the last
\* line of a trajectory being of the branch that was continued.
MeasuredHistory ==
  (running.state = "whole" /\ Sound(running.conf) /\ drv.meas_each > 0) =>
    \A n \in {m \in 1 .. running.traj : m % drv.meas_each = 0} :
      obs[n] = Upto(running.conf, n)

\* No random number is used twice in a chain, whatever sessions it took: not
\* by two trajectories, nor for a Metropolis test and to seed a session.
NoRandomReuse ==
  Sound(conf) =>
    \A i, j \in DOMAIN conf :
      /\ i # j => conf[i].loc # conf[j].loc
      /\ (i # j /\ ~ drv.quenched) => conf[i].glb # conf[j].glb
      /\ ~ drv.quenched => conf[i].glb # conf[j].loc.seed

\* At the head of the loop the stored configurations are those of the chain,
\* but for one at most for each crash (which came between the running and the
\* stored configuration, and is not made good).
StoredOfChain ==
  (pc = "loop" /\ Sound(conf) /\ drv.store_each > 0) =>
    LET Right(n) == stored[n].state = "whole" /\ stored[n].conf = Upto(conf, n)
    IN Cardinality({n \in 1 .. itraj : n % drv.store_each = 0 /\ ~ Right(n)})
         <= crashes

\* The numbers and files are what they can be, and each stored configuration is
\* one of the chain that goes on.
ChainStored == TypeOK /\ StoredOfChain

\* A session that ends by itself leaves its last configuration on disk, as the
\* running or as a stored one.
LastConfOnDisk ==
  (pc = "end" /\ ntraj_prod > 0) =>
    \E file \in {running, stored[itraj]} :
      file.state = "whole" /\ file.conf = conf /\ file.rnd = glb_rnd_gen

\* The running configuration is written by every session that has produced.
KeepsRunning == drv.store_running = 1 \/ drv.store_each = 0

\* If so, and without crashes, the potential holds every trajectory of the
\* history of the configuration, once and in order.
PotentialOfHistory ==
  (drv.meta /\ KeepsRunning /\ crashes = 0 /\ pc # "off") =>
    grid = [i \in 1 .. itraj |-> i - 1]

\* If so, the sessions reach the trajectory that was asked for, though each
\* may have time for one only, unless a crash left a file that cannot be read.
ProductionEnds == KeepsRunning => <>[](stop \/ Broken)

\* What a comment says of conf_pars.path, the "file where to store running
\* conf": a session that ends by itself leaves there what it produced last.
RunningConfStored ==
  (pc = "end" /\ ntraj_prod > 0) =>
    running.state = "whole" /\ running.conf = conf
=============================================================================
