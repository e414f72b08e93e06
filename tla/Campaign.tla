------------------------------ MODULE Campaign ------------------------------
(***************************************************************************)
(* A campaign of analysis: several jobs of projects/ib take configurations *)
(* from the same list (conf.cpp, lock_file_t of routines/ios.hpp, the      *)
(* loops of ib.cpp and of prop.cpp).  The jobs share the files in the      *)
(* output folder of each configuration,                                    *)
(*                                                                         *)
(*   running   the tag of the job that writes it last, never removed;      *)
(*   finished  empty, written at the end;                                  *)
(*   hit*_prop* the propagators that are stored, read if they are there;   *)
(*                                                                         *)
(* and the files stop and restart.  A job is the step its rank 0 is at:    *)
(* the others follow by broadcasts.  The sources of a configuration come   *)
(* from one stream of random numbers per job, of which rnd is the position *)
(* in units of what one configuration takes.                               *)
(***************************************************************************)
EXTENDS Integers, FiniteSets

CONSTANTS
  Campaigns,  \* the campaigns to start with
  MaxJobs,    \* bound: jobs of a campaign
  MaxRounds,  \* bound: times its jobs are submitted
  Empty,      \* content of a lock file that is open but not written
  NONE        \* no such file

ASSUME CampaignAssumption ==
  /\ MaxJobs \in Nat /\ MaxRounds \in Nat
  /\ Campaigns \subseteq
       [njobs : 1 .. MaxJobs, nconfs : Nat,
        store : BOOLEAN,       \* whether propagators are stored
        transform : BOOLEAN,   \* perform a random gauge transformation
        short : BOOLEAN,       \* jobs may lack time
        prompt : BOOLEAN,      \* loading takes longer than locking
        crashes : Nat,         \* bound: jobs that crash
        rounds : 1 .. MaxRounds]
  /\ Empty # NONE /\ {Empty, NONE} \cap Int = {}

VARIABLES
  camp,
  dir, running, finished, stored,   \* files of each configuration
  signals,                          \* the files stop and restart
  correlators,                      \* what has been printed per configuration
  pc, iconf, rnd, src, props,       \* of each job
  nanalyzed_conf,
  lost, ncrashes, round             \* history and bounds

disk == <<dir, running, finished, stored, signals, correlators>>
vars == <<camp, disk, pc, iconf, rnd, src, props, nanalyzed_conf, lost,
          ncrashes, round>>

Jobs == 1 .. camp.njobs
Confs == 1 .. camp.nconfs

\* From the first look at running to the tag in it.
Locking == {"finished", "dir", "mkdir", "lock", "tag"}
Analysing == {"source", "prop", "print", "mark"}
PCs == Locking \cup Analysing
        \cup {"ask", "look", "load", "check", "end", "over", "dead"}

\* The random word of lock_file_t, new in each session.
Tag(j) == (round - 1) * camp.njobs + j

\* The configuration a job is at: iconf counts those it is done with.
Current(j) == iconf[j] + 1

Init ==
  /\ camp \in Campaigns
  /\ dir = [c \in Confs |-> FALSE]
  /\ running = [c \in Confs |-> NONE]
  /\ finished = [c \in Confs |-> FALSE]
  /\ stored = [c \in Confs |-> NONE]
  /\ signals = {}
  /\ correlators = [c \in Confs |-> {}]
  /\ pc = [j \in Jobs |-> "ask"]
  /\ iconf = [j \in Jobs |-> 0]
  /\ rnd = [j \in Jobs |-> 0]
  /\ src = [j \in Jobs |-> NONE]
  /\ props = [j \in Jobs |-> NONE]
  /\ nanalyzed_conf = [j \in Jobs |-> 0]
  /\ lost = FALSE
  /\ ncrashes = 0
  /\ round = 1

-----------------------------------------------------------------------------
Goto(j, l) == pc' = [pc EXCEPT ![j] = l]

\* check_remaining_time: no doubt before the first configuration.
EnoughTime(j) ==
  IF camp.short /\ nanalyzed_conf[j] > 0 THEN BOOLEAN ELSE {TRUE}

\* read_conf_parameters up to its loop.
Ask(j) ==
  /\ pc[j] = "ask"
  /\ \E enough_time \in EnoughTime(j) :
       Goto(j, IF signals = {} /\ enough_time /\ iconf[j] < camp.nconfs
               THEN "look" ELSE "end")
  /\ UNCHANGED <<camp, disk, iconf, rnd, src, props, nanalyzed_conf, lost,
                 ncrashes, round>>

\* The loop goes on with the next configuration, if there is one.
NextConf(j) == IF iconf[j] + 1 < camp.nconfs THEN "look" ELSE "end"

\* Mutant: the sources of a configuration that is skipped are not discarded.
SkipNoSources(j) ==
  /\ iconf' = [iconf EXCEPT ![j] = @ + 1]
  /\ rnd' = rnd
  /\ Goto(j, NextConf(j))

\* The configuration is for somebody else: skip_conf discards its sources.
Skip(j) ==
  /\ iconf' = [iconf EXCEPT ![j] = @ + 1]
  /\ rnd' = [rnd EXCEPT ![j] = @ + 1]
  /\ Goto(j, NextConf(j))

LookRunning(j) ==
  /\ pc[j] = "look"
  /\ IF running[Current(j)] # NONE THEN Skip(j)
     ELSE Goto(j, "finished") /\ UNCHANGED <<iconf, rnd>>
  /\ UNCHANGED <<camp, disk, src, props, nanalyzed_conf, lost, ncrashes, round>>

\* finish_file_present, which tells that the file is not there.
LookFinished(j) ==
  /\ pc[j] = "finished"
  /\ IF finished[Current(j)] THEN Skip(j)
     ELSE Goto(j, "dir") /\ UNCHANGED <<iconf, rnd>>
  /\ UNCHANGED <<camp, disk, src, props, nanalyzed_conf, lost, ncrashes, round>>

DirExists(j) ==
  /\ pc[j] = "dir"
  /\ Goto(j, IF dir[Current(j)] THEN "lock" ELSE "mkdir")
  /\ UNCHANGED <<camp, disk, iconf, rnd, src, props, nanalyzed_conf, lost,
                 ncrashes, round>>

\* Mutant: a folder that cannot be made is tried again.
CreateDirInsists(j) ==
  /\ pc[j] = "mkdir"
  /\ dir' = [dir EXCEPT ![Current(j)] = TRUE]
  /\ Goto(j, IF dir[Current(j)] THEN "mkdir" ELSE "lock")
  /\ UNCHANGED <<camp, running, finished, stored, signals, correlators, iconf,
                 rnd, src, props, nanalyzed_conf, lost, ncrashes, round>>

\* create_dir fails if another job has made the folder meanwhile.
CreateDir(j) ==
  /\ pc[j] = "mkdir"
  /\ IF dir[Current(j)] THEN Skip(j) /\ UNCHANGED dir
     ELSE /\ dir' = [dir EXCEPT ![Current(j)] = TRUE]
          /\ Goto(j, "lock")
          /\ UNCHANGED <<iconf, rnd>>
  /\ UNCHANGED <<camp, running, finished, stored, signals, correlators, src,
                 props, nanalyzed_conf, lost, ncrashes, round>>

\* try_lock: the file is opened, which empties it...
OpenLock(j) ==
  /\ pc[j] = "lock"
  /\ running' = [running EXCEPT ![Current(j)] = Empty]
  /\ Goto(j, "tag")
  /\ UNCHANGED <<camp, dir, finished, stored, signals, correlators, iconf, rnd,
                 src, props, nanalyzed_conf, lost, ncrashes, round>>

\* ... and the tag is written.
WriteTag(j) ==
  /\ pc[j] = "tag"
  /\ running' = [running EXCEPT ![Current(j)] = Tag(j)]
  /\ Goto(j, "load")
  /\ UNCHANGED <<camp, dir, finished, stored, signals, correlators, iconf, rnd,
                 src, props, nanalyzed_conf, lost, ncrashes, round>>

\* start_new_conf.  It is what gives the others time to overwrite the lock:
\* if it is as long as the protocol expects (prompt), whoever has found the
\* configuration free has written its tag when it ends.
Load(j) ==
  /\ pc[j] = "load"
  /\ camp.prompt =>
       ~ \E k \in Jobs : pc[k] \in Locking /\ Current(k) = Current(j)
  /\ rnd' = [rnd EXCEPT ![j] = IF camp.transform THEN @ + 1 ELSE @]
  /\ Goto(j, "check")
  /\ UNCHANGED <<camp, disk, iconf, src, props, nanalyzed_conf, lost, ncrashes,
                 round>>

\* Mutant: a lock that another job has taken is removed.
CheckLockRemoves(j) ==
  /\ pc[j] = "check"
  /\ iconf' = [iconf EXCEPT ![j] = @ + 1]
  /\ IF running[Current(j)] = Tag(j)
       THEN Goto(j, "source") /\ UNCHANGED <<lost, running>>
       ELSE /\ Goto(j, NextConf(j)) /\ lost' = TRUE
            /\ running' = [running EXCEPT ![Current(j)] = NONE]
  /\ UNCHANGED <<camp, dir, finished, stored, signals, correlators, rnd, src,
                 props, nanalyzed_conf, ncrashes, round>>

\* Mutant: the lock is taken for held if somebody's tag is in it.
CheckLockAny(j) ==
  /\ pc[j] = "check"
  /\ iconf' = [iconf EXCEPT ![j] = @ + 1]
  /\ IF running[Current(j)] # Empty
       THEN Goto(j, "source") /\ UNCHANGED lost
       ELSE Goto(j, NextConf(j)) /\ lost' = TRUE
  /\ UNCHANGED <<camp, disk, rnd, src, props, nanalyzed_conf, ncrashes, round>>

\* check_lock: the configuration is left to whoever wrote its tag later.  Its
\* sources are not discarded.
CheckLock(j) ==
  /\ pc[j] = "check"
  /\ iconf' = [iconf EXCEPT ![j] = @ + 1]
  /\ IF running[Current(j)] = Tag(j)
       THEN Goto(j, "source") /\ UNCHANGED lost
       ELSE Goto(j, NextConf(j)) /\ lost' = TRUE
  /\ UNCHANGED <<camp, disk, rnd, src, props, nanalyzed_conf, ncrashes, round>>

-----------------------------------------------------------------------------
\* start_hit and generate_original_sources, for all the hits.
GenerateSources(j) ==
  /\ pc[j] = "source"
  /\ src' = [src EXCEPT ![j] = rnd[j] + 1]
  /\ rnd' = [rnd EXCEPT ![j] = @ + 1]
  /\ Goto(j, "prop")
  /\ UNCHANGED <<camp, disk, iconf, props, nanalyzed_conf, lost, ncrashes, round>>

\* generate_quark_propagators: a propagator on disk is read, another one is
\* computed from the source, and stored if asked.
GenerateProps(j) ==
  /\ pc[j] = "prop"
  /\ LET c == iconf[j]
         p == IF stored[c] # NONE THEN stored[c] ELSE src[j]
     IN /\ props' = [props EXCEPT ![j] = p]
        /\ stored' = [stored EXCEPT ![c] = IF camp.store THEN p ELSE @]
  /\ Goto(j, "print")
  /\ UNCHANGED <<camp, dir, running, finished, signals, correlators, iconf, rnd,
                 src, nanalyzed_conf, lost, ncrashes, round>>

PrintContractions(j) ==
  /\ pc[j] = "print"
  /\ correlators' = [correlators EXCEPT ![iconf[j]] =
                       @ \cup {[source |-> src[j], prop |-> props[j]]}]
  /\ Goto(j, "mark")
  /\ UNCHANGED <<camp, dir, running, finished, stored, signals, iconf, rnd, src,
                 props, nanalyzed_conf, lost, ncrashes, round>>

MarkFinished(j) ==
  /\ pc[j] = "mark"
  /\ finished' = [finished EXCEPT ![iconf[j]] = TRUE]
  /\ nanalyzed_conf' = [nanalyzed_conf EXCEPT ![j] = @ + 1]
  /\ Goto(j, "ask")
  /\ UNCHANGED <<camp, dir, running, stored, signals, correlators, iconf, rnd,
                 src, props, lost, ncrashes, round>>

\* The end of read_conf_parameters without a configuration, and of the job:
\* one that has come to the end of the list stops the others.
End(j) ==
  /\ pc[j] = "end"
  /\ signals' = IF iconf[j] >= camp.nconfs THEN signals \cup {"stop"} ELSE signals
  /\ Goto(j, "over")
  /\ UNCHANGED <<camp, dir, running, finished, stored, correlators, iconf, rnd,
                 src, props, nanalyzed_conf, lost, ncrashes, round>>

-----------------------------------------------------------------------------
JobStep(j) ==
  \/ Ask(j) \/ LookRunning(j) \/ LookFinished(j) \/ DirExists(j) \/ CreateDir(j)
  \/ OpenLock(j) \/ WriteTag(j) \/ Load(j) \/ CheckLock(j) \/ GenerateSources(j)
  \/ GenerateProps(j) \/ PrintContractions(j) \/ MarkFinished(j) \/ End(j)

\* A job dies, at any of its steps.
Crash(j) ==
  /\ pc[j] \notin {"over", "dead"}
  /\ ncrashes < camp.crashes
  /\ ncrashes' = ncrashes + 1
  /\ Goto(j, "dead")
  /\ UNCHANGED <<camp, disk, iconf, rnd, src, props, nanalyzed_conf, lost, round>>

Over == \A j \in Jobs : pc[j] \in {"over", "dead"}

\* Whoever runs the campaign removes the locks of what is not finished, and
\* the signals, and submits the jobs again.
Resubmit ==
  /\ Over
  /\ round < camp.rounds
  /\ round' = round + 1
  /\ running' = [c \in Confs |-> IF finished[c] THEN running[c] ELSE NONE]
  /\ signals' = {}
  /\ pc' = [j \in Jobs |-> "ask"]
  /\ iconf' = [j \in Jobs |-> 0]
  /\ rnd' = [j \in Jobs |-> 0]
  /\ src' = [j \in Jobs |-> NONE]
  /\ props' = [j \in Jobs |-> NONE]
  /\ nanalyzed_conf' = [j \in Jobs |-> 0]
  /\ UNCHANGED <<camp, dir, finished, stored, correlators, lost, ncrashes>>

\* Somebody asks the jobs to stop; only where time may also be short.
Signal ==
  /\ camp.short
  /\ signals = {}
  /\ ~ Over
  /\ \E s \in {"stop", "restart"} : signals' = {s}
  /\ UNCHANGED <<camp, dir, running, finished, stored, correlators, pc, iconf,
                 rnd, src, props, nanalyzed_conf, lost, ncrashes, round>>

Done == Over /\ round = camp.rounds

Next ==
  \/ \E j \in Jobs : JobStep(j) \/ Crash(j)
  \/ Resubmit
  \/ Signal
  \/ Done /\ UNCHANGED vars

Spec == Init /\ [][Next]_vars

\* A job that is not dead goes on.
FairSpec == Spec /\ \A j \in 1 .. MaxJobs : WF_vars(j \in Jobs /\ JobStep(j))

-----------------------------------------------------------------------------
\* The type invariant; a job is in the list up to its end.
TypeOK ==
  /\ camp \in Campaigns
  /\ dir \in [Confs -> BOOLEAN]
  /\ running \in [Confs -> {NONE, Empty} \cup 1 .. camp.njobs * camp.rounds]
  /\ finished \in [Confs -> BOOLEAN]
  /\ stored \in [Confs -> {NONE} \cup 1 .. 2 * camp.nconfs]
  /\ signals \subseteq {"stop", "restart"}
  /\ pc \in [Jobs -> PCs]
  /\ iconf \in [Jobs -> 0 .. camp.nconfs]
  /\ rnd \in [Jobs -> 0 .. 2 * camp.nconfs]
  /\ src \in [Jobs -> {NONE} \cup 1 .. 2 * camp.nconfs]
  /\ props \in [Jobs -> {NONE} \cup 1 .. 2 * camp.nconfs]
  /\ nanalyzed_conf \in [Jobs -> 0 .. camp.nconfs]
  /\ \A c \in Confs : stored[c] # NONE => dir[c]
  /\ \A j \in Jobs : pc[j] \in Locking \cup {"look", "load", "check"}
                       => iconf[j] < camp.nconfs

\* The lock does what it is for if loading takes longer than locking: no two
\* jobs analyse a configuration, in whatever order they look and lock, and
\* nobody analyses one that is finished.
SoleAnalyser ==
  \A j \in Jobs : pc[j] \in Analysing /\ camp.prompt =>
    /\ ~ finished[iconf[j]]
    /\ \A k \in Jobs \ {j} : pc[k] \in Analysing => iconf[k] # iconf[j]

\* The same, whatever the loading takes: once check_lock has told a job that
\* nobody took the lock, nobody does.
LockIsKept ==
  \A j, k \in Jobs : j # k /\ pc[j] \in Analysing /\ pc[k] \in Analysing
    => iconf[k] # iconf[j]

\* Whichever job analyses a configuration, in whatever session, it uses the
\* sources that the configuration's place in the list gives it; so that stored
\* propagators go with the sources of a later session.  Not so after a lost
\* lock, for which nothing is discarded, nor with random transformations,
\* which are drawn only for the configurations that are loaded.
SourcesOfPlace ==
  ~ lost /\ ~ camp.transform =>
    \A c \in Confs : /\ stored[c] \in {NONE, c}
                     /\ correlators[c] \subseteq {[source |-> c, prop |-> c]}

\* Where a job has stopped the campaign at the end of the list, nothing is
\* forgotten: each configuration is finished, or somebody has it, or it was
\* left by a job that died.
NothingForgotten ==
  "stop" \in signals /\ ~ camp.short /\ ncrashes = 0 =>
    \A c \in Confs :
      \/ finished[c]
      \/ \E j \in Jobs : \/ pc[j] \in Analysing /\ iconf[j] = c
                         \/ pc[j] \in Locking \cup {"load", "check"} /\ Current(j) = c

\* If nothing goes wrong every configuration gets analysed, whatever the jobs
\* do to each other.
AllAnalysed ==
  ~ camp.short /\ camp.crashes = 0 => <>(\A c \in Confs : finished[c])

\* Every job comes to its end, or dies, whatever the others do.
JobsEnd == \A r \in 1 .. MaxRounds : round = r ~> (Over \/ round > r)

=============================================================================
