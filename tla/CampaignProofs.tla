--------------------------- MODULE CampaignProofs ---------------------------
(***************************************************************************)
(* Safety of a campaign, for any number of jobs, configurations and        *)
(* sessions.  The lock file is not a lock: two jobs may both find a        *)
(* configuration free, and both write their tag.  What makes the last one  *)
(* to write it the only one to analyse is that                             *)
(*                                                                         *)
(*   - a lock file, once opened, is never without content for the session  *)
(*     (Locked), so nobody enters the locking after somebody has left it;  *)
(*   - whoever has loaded did so when nobody was locking (Alone), so the   *)
(*     tag that is in the file when check_lock reads it stays in it.       *)
(*                                                                         *)
(* What jobs leave to each other (Left): a job goes past a configuration   *)
(* only if it is finished or in the hands of a job that is still at it,    *)
(* and such a job lets go of it only by finishing it or by seeing the tag  *)
(* of another.  The stream of random numbers (Placed) advances by one at   *)
(* each configuration, whether it is analysed or skipped.                  *)
(*                                                                         *)
(* The last two parts are about what a job does to its configuration: the  *)
(* cached copy (CallInv) and the gauge fixing (FixerInv).                  *)
(***************************************************************************)
EXTENDS MCCampaign, TLAPS

\* The configuration a job is at.
At(j) == IF pc[j] \in Analysing THEN iconf[j] ELSE Current(j)

Tagged == {"load", "check"} \cup Analysing

\* Where the jobs are, and what goes with it.
PlaceOf(j) ==
  /\ pc[j] \in Locking \cup Tagged \cup {"look"} => At(j) \in Confs
  /\ pc[j] \in {"lock", "tag"} \cup Tagged => dir[At(j)]
  /\ pc[j] \in {"prop", "print", "mark"} => src[j] # NONE
  /\ pc[j] \in {"print", "mark"} => props[j] # NONE

Places ==
  /\ ncrashes \in Nat /\ round \in 1 .. camp.rounds /\ lost \in BOOLEAN
  /\ correlators \in [Confs -> SUBSET [source : Int \cup {NONE}, prop : Int \cup {NONE}]]
  /\ \A j \in Jobs : PlaceOf(j)

\* How far each has come in its work and in its random numbers.
CountOf(j) ==
  /\ nanalyzed_conf[j] <= iconf[j]
  /\ pc[j] \in Analysing => nanalyzed_conf[j] < iconf[j]
  /\ rnd[j] <= 2 * iconf[j] + 1
  /\ pc[j] \notin {"check", "dead"} => rnd[j] <= 2 * iconf[j]
  /\ pc[j] = "source" => rnd[j] < 2 * iconf[j]

Counts == \A j \in Jobs : CountOf(j)

\* The lock file of what is locked is there.
Locked == \A j \in Jobs : pc[j] \in {"tag"} \cup Tagged => running[At(j)] # NONE

\* If loading outlasts locking: while one has loaded a configuration nobody is
\* locking it, so that the tag of whoever analyses it stays in the file;
\* nobody is beyond the look at finished if it is there, and a tag that is in
\* the file is of a job that has not finished.
NobodyLocks ==
  \A j, k \in Jobs :
    pc[j] \in {"check"} \cup Analysing /\ pc[k] \in Locking => At(k) # At(j)
TagStays == \A j \in Jobs : pc[j] \in Analysing => running[At(j)] = Tag(j)
NotFinished ==
  \A j \in Jobs :
    /\ pc[j] \in Locking \ {"finished"} => ~ finished[At(j)]
    /\ pc[j] \in Tagged /\ running[At(j)] = Tag(j) => ~ finished[At(j)]

Alone == camp.prompt => NobodyLocks /\ TagStays /\ NotFinished

\* A job that will finish a configuration, and one that will or that will see
\* somebody else's tag.
Has(k, c) ==
  /\ pc[k] \in {"tag"} \cup Tagged /\ At(k) = c
  /\ pc[k] # "tag" => running[c] = Tag(k)
Holds(k, c) == pc[k] \in Locking \cup Tagged /\ At(k) = c

\* While nobody crashes, what is locked, or has a folder another job has made,
\* is in somebody's hands, and so is what any job has left behind.
LockedByOne ==
  \A c \in Confs : running[c] # NONE => finished[c] \/ \E k \in Jobs : Has(k, c)
MadeByOne ==
  \A j \in Jobs : pc[j] = "mkdir" /\ dir[At(j)] =>
    running[At(j)] # NONE \/ \E k \in Jobs : pc[k] = "lock" /\ At(k) = At(j)
InHands(c) == finished[c] \/ \E k \in Jobs : Holds(k, c)
BehindInHands == \A j \in Jobs, c \in Confs : c <= iconf[j] => InHands(c)
StoppedAtEnd == "stop" \in signals /\ ~ camp.short => \E j \in Jobs : iconf[j] >= camp.nconfs

Left == ncrashes = 0 => LockedByOne /\ MadeByOne /\ BehindInHands /\ StoppedAtEnd

\* The position in the stream is that of the configuration in the list, as long
\* as nothing draws from it unasked and nothing is left without skipping.
PlacedOf(j) ==
  /\ pc[j] \notin {"source", "end", "over", "dead"} => rnd[j] = iconf[j]
  /\ pc[j] = "source" => rnd[j] = iconf[j] - 1
  /\ pc[j] \in {"prop", "print", "mark"} => src[j] = iconf[j]
  /\ pc[j] \in {"print", "mark"} => props[j] = iconf[j]
StoredOf(c) ==
  /\ stored[c] \in {NONE, c}
  /\ correlators[c] \subseteq {[source |-> c, prop |-> c]}

Placed ==
  ~ lost /\ ~ camp.transform =>
    (\A j \in Jobs : PlacedOf(j)) /\ (\A c \in Confs : StoredOf(c))

IInv == TypeOK /\ Places /\ Counts /\ Locked /\ Alone /\ Left /\ Placed

USE CampaignAssumption

-----------------------------------------------------------------------------
\* The fields of a campaign.
LEMMA CampFields ==
  ASSUME camp \in Campaigns
  PROVE  /\ camp.njobs \in Nat \ {0} /\ camp.nconfs \in Nat
         /\ camp.rounds \in Nat \ {0} /\ camp.crashes \in Nat
         /\ camp.store \in BOOLEAN /\ camp.transform \in BOOLEAN
         /\ camp.short \in BOOLEAN /\ camp.prompt \in BOOLEAN
OBVIOUS

\* No step changes the campaign.
LEMMA SameCamp ==
  ASSUME [Next]_vars
  PROVE  camp' = camp /\ Jobs' = Jobs /\ Confs' = Confs
BY DEF Next, JobStep, Ask, LookRunning, LookFinished, DirExists, CreateDir,
       OpenLock, WriteTag, Load, CheckLock, GenerateSources, GenerateProps,
       PrintContractions, MarkFinished, End, Crash, Resubmit, Signal, vars, Jobs, Confs

\* The numbers of the jobs of session r among m sessions of n jobs.
LEMMA TagInRange ==
  ASSUME NEW n \in Nat \ {0}, NEW m \in Nat \ {0}, NEW r \in 1 .. m, NEW j \in 1 .. n
  PROVE  (r - 1) * n + j \in 1 .. n * m
<1>1. r - 1 \in Nat /\ m - r \in Nat
  OBVIOUS
<1>2. (r - 1) * n \in Nat /\ (m - r) * n \in Nat
  BY <1>1
<1>3. n * m = (r - 1) * n + n + (m - r) * n
  BY <1>1
<1> QED BY <1>2, <1>3

\* Tags fit in the lock file's type, and no two jobs have the same.
LEMMA TagType ==
  ASSUME TypeOK, Places, NEW j \in Jobs
  PROVE  /\ Tag(j) \in 1 .. camp.njobs * camp.rounds /\ Tag(j) \in Int
         /\ \A k \in Jobs : Tag(k) = Tag(j) => k = j
<1>1. /\ camp.njobs \in Nat \ {0} /\ camp.rounds \in Nat \ {0}
      /\ round \in 1 .. camp.rounds /\ j \in 1 .. camp.njobs
  BY CampFields DEF TypeOK, Places, Jobs
<1>2. Tag(j) \in 1 .. camp.njobs * camp.rounds
  BY <1>1, TagInRange DEF Tag
<1>3. (round - 1) * camp.njobs \in Int /\ camp.njobs * camp.rounds \in Int
  BY <1>1
<1> QED BY <1>1, <1>2, <1>3 DEF Tag, Jobs

-----------------------------------------------------------------------------
\* A job goes somewhere, the others stay.
LEMMA Gone ==
  ASSUME TypeOK, NEW j \in Jobs, NEW l \in PCs, Goto(j, l)
  PROVE  /\ pc' \in [Jobs -> PCs] /\ pc'[j] = l
         /\ \A k \in Jobs : k # j => pc'[k] = pc[k]
BY DEF TypeOK, Goto

\* A configuration is left behind.
LEMMA Skipped ==
  ASSUME IInv, [Next]_vars, NEW j \in Jobs, pc[j] \in {"look", "finished", "mkdir"}, Skip(j)
  PROVE  /\ At(j) = iconf[j] + 1 /\ iconf[j] + 1 \in 1 .. camp.nconfs
         /\ pc' \in [Jobs -> PCs] /\ pc'[j] \in {"look", "end"}
         /\ pc'[j] = "look" => iconf[j] + 1 < camp.nconfs
         /\ \A k \in Jobs : k # j => pc'[k] = pc[k]
         /\ iconf' = [iconf EXCEPT ![j] = iconf[j] + 1] /\ iconf' \in [Jobs -> 0 .. camp.nconfs]
         /\ rnd' = [rnd EXCEPT ![j] = rnd[j] + 1] /\ rnd' \in [Jobs -> 0 .. 2 * camp.nconfs]
<1>1. /\ iconf[j] \in 0 .. camp.nconfs /\ iconf[j] < camp.nconfs /\ camp.nconfs \in Nat
      /\ rnd[j] \in 0 .. 2 * camp.nconfs /\ rnd[j] <= 2 * iconf[j]
  BY CampFields DEF IInv, TypeOK, Counts, CountOf, Locking
<1>2. NextConf(j) \in PCs /\ Goto(j, NextConf(j))
  BY DEF NextConf, PCs, Skip
<1>3. At(j) = iconf[j] + 1
  BY DEF At, Current, Analysing
<1>4. /\ iconf' = [iconf EXCEPT ![j] = iconf[j] + 1] /\ iconf' \in [Jobs -> 0 .. camp.nconfs]
      /\ rnd' = [rnd EXCEPT ![j] = rnd[j] + 1] /\ rnd' \in [Jobs -> 0 .. 2 * camp.nconfs]
  BY <1>1 DEF Skip, IInv, TypeOK
<1>5. pc' \in [Jobs -> PCs] /\ pc'[j] = NextConf(j) /\ \A k \in Jobs : k # j => pc'[k] = pc[k]
  BY <1>2, Gone DEF IInv
<1>6. iconf[j] + 1 \in 1 .. camp.nconfs
  BY <1>1
<1>7. NextConf(j) \in {"look", "end"} /\ (NextConf(j) = "look" => iconf[j] + 1 < camp.nconfs)
  BY DEF NextConf
<1> QED BY <1>3, <1>4, <1>5, <1>6, <1>7

\* Every step keeps the types, given how far the jobs have come.
LEMMA TypeStep == IInv /\ [Next]_vars => TypeOK'
<1> SUFFICES ASSUME IInv, [Next]_vars PROVE TypeOK'
  OBVIOUS
<1> USE CampFields, SameCamp DEF IInv, TypeOK
<1>1. ASSUME NEW j \in Jobs, Ask(j) PROVE TypeOK'
  <2>1. PICK l \in {"look", "end"} : Goto(j, l) /\ (l = "look" => iconf[j] < camp.nconfs)
    BY <1>1 DEF Ask
  <2>2. pc' \in [Jobs -> PCs] /\ pc'[j] = l /\ \A k \in Jobs : k # j => pc'[k] = pc[k]
    BY <2>1, Gone DEF PCs
  <2> QED BY <1>1, <2>1, <2>2 DEF Ask, disk, Locking
<1>2. ASSUME NEW j \in Jobs, LookRunning(j) PROVE TypeOK'
  <2>1. CASE Skip(j)
    BY <1>2, <2>1, Skipped DEF LookRunning, disk, Locking
  <2>2. CASE Goto(j, "finished") /\ UNCHANGED <<iconf, rnd>>
    <3>1. pc' \in [Jobs -> PCs] /\ pc'[j] = "finished" /\ \A k \in Jobs : k # j => pc'[k] = pc[k]
      BY <2>2, Gone DEF PCs, Locking
    <3> QED BY <1>2, <2>2, <3>1 DEF LookRunning, disk, Locking
  <2> QED BY <1>2, <2>1, <2>2 DEF LookRunning
<1>3. ASSUME NEW j \in Jobs, LookFinished(j) PROVE TypeOK'
  <2>1. CASE Skip(j)
    BY <1>3, <2>1, Skipped DEF LookFinished, disk, Locking
  <2>2. CASE Goto(j, "dir") /\ UNCHANGED <<iconf, rnd>>
    <3>1. pc' \in [Jobs -> PCs] /\ pc'[j] = "dir" /\ \A k \in Jobs : k # j => pc'[k] = pc[k]
      BY <2>2, Gone DEF PCs, Locking
    <3> QED BY <1>3, <2>2, <3>1 DEF LookFinished, disk, Locking
  <2> QED BY <1>3, <2>1, <2>2 DEF LookFinished
<1>4. ASSUME NEW j \in Jobs, DirExists(j) PROVE TypeOK'
  <2>1. PICK l \in {"lock", "mkdir"} : Goto(j, l)
    BY <1>4 DEF DirExists
  <2>2. pc' \in [Jobs -> PCs] /\ pc'[j] = l /\ \A k \in Jobs : k # j => pc'[k] = pc[k]
    BY <2>1, Gone DEF PCs, Locking
  <2> QED BY <1>4, <2>2 DEF DirExists, disk, Locking
<1>5. ASSUME NEW j \in Jobs, CreateDir(j) PROVE TypeOK'
  <2>1. CASE Skip(j)
    BY <1>5, <2>1, Skipped DEF CreateDir, disk, Locking
  <2>2. CASE Goto(j, "lock") /\ UNCHANGED <<iconf, rnd>>
    <3>1. pc' \in [Jobs -> PCs] /\ pc'[j] = "lock" /\ \A k \in Jobs : k # j => pc'[k] = pc[k]
      BY <2>2, Gone DEF PCs, Locking
    <3> QED BY <1>5, <2>2, <3>1 DEF CreateDir, disk, Locking
  <2> QED BY <1>5, <2>1, <2>2 DEF CreateDir
<1>6. ASSUME NEW j \in Jobs, OpenLock(j) PROVE TypeOK'
  <2>1. pc' \in [Jobs -> PCs] /\ pc'[j] = "tag" /\ \A k \in Jobs : k # j => pc'[k] = pc[k]
    BY <1>6, Gone DEF OpenLock, PCs, Locking, Analysing
  <2> QED BY <1>6, <2>1 DEF OpenLock, disk, Locking, Current
<1>7. ASSUME NEW j \in Jobs, WriteTag(j) PROVE TypeOK'
  <2>1. pc' \in [Jobs -> PCs] /\ pc'[j] = "load" /\ \A k \in Jobs : k # j => pc'[k] = pc[k]
    BY <1>7, Gone DEF WriteTag, PCs, Locking, Analysing
  <2> QED BY <1>7, <2>1, TagType DEF WriteTag, disk, Locking, Current
<1>8. ASSUME NEW j \in Jobs, Load(j) PROVE TypeOK'
  <2>1. pc' \in [Jobs -> PCs] /\ pc'[j] = "check" /\ \A k \in Jobs : k # j => pc'[k] = pc[k]
    BY <1>8, Gone DEF Load, PCs, Locking, Analysing
  <2>2. iconf[j] \in 0 .. camp.nconfs /\ iconf[j] < camp.nconfs /\ rnd[j] <= 2 * iconf[j]
    BY <1>8 DEF Load, Counts, CountOf
  <2>3. rnd' \in [Jobs -> 0 .. 2 * camp.nconfs]
    BY <1>8, <2>2 DEF Load
  <2> QED BY <1>8, <2>1, <2>2, <2>3 DEF Load, disk, Locking
<1>9. ASSUME NEW j \in Jobs, CheckLock(j) PROVE TypeOK'
  <2>1. PICK l \in {"source", "look", "end"} :
          Goto(j, l) /\ (l = "look" => iconf[j] + 1 < camp.nconfs)
    BY <1>9 DEF CheckLock, NextConf
  <2>2. pc' \in [Jobs -> PCs] /\ pc'[j] = l /\ \A k \in Jobs : k # j => pc'[k] = pc[k]
    BY <2>1, Gone DEF PCs, Analysing
  <2>3. iconf[j] < camp.nconfs
    BY <1>9 DEF CheckLock
  <2>4. iconf' \in [Jobs -> 0 .. camp.nconfs] /\ iconf' = [iconf EXCEPT ![j] = iconf[j] + 1]
    BY <1>9, <2>3 DEF CheckLock
  <2> QED BY <1>9, <2>1, <2>2, <2>4 DEF CheckLock, disk, Locking
<1>10. ASSUME NEW j \in Jobs, GenerateSources(j) PROVE TypeOK'
  <2>1. pc' \in [Jobs -> PCs] /\ pc'[j] = "prop" /\ \A k \in Jobs : k # j => pc'[k] = pc[k]
    BY <1>10, Gone DEF GenerateSources, PCs, Locking, Analysing
  <2>2. iconf[j] \in 0 .. camp.nconfs /\ rnd[j] < 2 * iconf[j]
    BY <1>10 DEF GenerateSources, Counts, CountOf
  <2>3. rnd[j] + 1 \in 1 .. 2 * camp.nconfs
    BY <2>2
  <2>4. rnd' \in [Jobs -> 0 .. 2 * camp.nconfs] /\ src' \in [Jobs -> {NONE} \cup 1 .. 2 * camp.nconfs]
    BY <1>10, <2>3 DEF GenerateSources
  <2> QED BY <1>10, <2>1, <2>4 DEF GenerateSources, disk, Locking
<1>11. ASSUME NEW j \in Jobs, GenerateProps(j) PROVE TypeOK'
  <2>1. pc' \in [Jobs -> PCs] /\ pc'[j] = "print" /\ \A k \in Jobs : k # j => pc'[k] = pc[k]
    BY <1>11, Gone DEF GenerateProps, PCs, Locking, Analysing
  <2> QED BY <1>11, <2>1, ZenonT(60) DEF GenerateProps, disk, Locking, Places, PlaceOf, Analysing, Tagged, At
<1>12. ASSUME NEW j \in Jobs, PrintContractions(j) PROVE TypeOK'
  <2>1. pc' \in [Jobs -> PCs] /\ pc'[j] = "mark" /\ \A k \in Jobs : k # j => pc'[k] = pc[k]
    BY <1>12, Gone DEF PrintContractions, PCs, Locking, Analysing
  <2> QED BY <1>12, <2>1 DEF PrintContractions, disk, Locking
<1>13. ASSUME NEW j \in Jobs, MarkFinished(j) PROVE TypeOK'
  <2>1. pc' \in [Jobs -> PCs] /\ pc'[j] = "ask" /\ \A k \in Jobs : k # j => pc'[k] = pc[k]
    BY <1>13, Gone DEF MarkFinished, PCs, Locking, Analysing
  <2>2. /\ iconf[j] \in 0 .. camp.nconfs /\ nanalyzed_conf[j] \in 0 .. camp.nconfs
        /\ nanalyzed_conf[j] < iconf[j]
    BY <1>13 DEF MarkFinished, Counts, CountOf, Analysing
  <2>3. nanalyzed_conf[j] + 1 \in 0 .. camp.nconfs
    BY <2>2
  <2>4. nanalyzed_conf' \in [Jobs -> 0 .. camp.nconfs] /\ finished' \in [Confs -> BOOLEAN]
    BY <1>13, <2>3 DEF MarkFinished
  <2> QED BY <1>13, <2>1, <2>4 DEF MarkFinished, disk, Locking
<1>14. ASSUME NEW j \in Jobs, End(j) PROVE TypeOK'
  <2>1. pc' \in [Jobs -> PCs] /\ pc'[j] = "over" /\ \A k \in Jobs : k # j => pc'[k] = pc[k]
    BY <1>14, Gone DEF End, PCs, Locking, Analysing
  <2> QED BY <1>14, <2>1 DEF End, disk, Locking
<1>15. ASSUME NEW j \in Jobs, Crash(j) PROVE TypeOK'
  BY <1>15 DEF Crash, Goto, PCs, Locking, disk
<1>16. ASSUME Resubmit PROVE TypeOK'
  BY <1>16 DEF Resubmit, PCs, Locking
<1>17. ASSUME Signal PROVE TypeOK'
  BY <1>17 DEF Signal
<1>18. CASE UNCHANGED vars
  BY <1>18 DEF vars, disk
<1> QED
  BY <1>1, <1>2, <1>3, <1>4, <1>5, <1>6, <1>7, <1>8, <1>9, <1>10, <1>11, <1>12, <1>13, <1>14, <1>15, <1>16, <1>17, <1>18 DEF Next, JobStep, Done

-----------------------------------------------------------------------------
\* The state of the other jobs is theirs.
LEMMA Others ==
  ASSUME TypeOK, NEW j \in Jobs, JobStep(j) \/ Crash(j)
  PROVE  /\ camp' = camp /\ Jobs' = Jobs /\ Confs' = Confs /\ round' = round
         /\ \A k \in Jobs : Tag(k)' = Tag(k)
         /\ \A k \in Jobs : k # j =>
              /\ pc'[k] = pc[k] /\ iconf'[k] = iconf[k] /\ rnd'[k] = rnd[k] /\ src'[k] = src[k]
              /\ props'[k] = props[k] /\ nanalyzed_conf'[k] = nanalyzed_conf[k]
              /\ At(k)' = At(k)
<1>1. camp' = camp /\ Jobs' = Jobs /\ Confs' = Confs /\ round' = round
  BY DEF JobStep, Ask, LookRunning, LookFinished, DirExists, CreateDir, OpenLock, WriteTag, Load,
         CheckLock, GenerateSources, GenerateProps, PrintContractions, MarkFinished, End, Crash,
         Jobs, Confs
<1>2. ASSUME NEW k \in Jobs, k # j
      PROVE  /\ pc'[k] = pc[k] /\ iconf'[k] = iconf[k] /\ rnd'[k] = rnd[k] /\ src'[k] = src[k]
             /\ props'[k] = props[k] /\ nanalyzed_conf'[k] = nanalyzed_conf[k]
  BY <1>2 DEF TypeOK, JobStep, Ask, LookRunning, LookFinished, DirExists, CreateDir, OpenLock,
       WriteTag, Load, CheckLock, GenerateSources, GenerateProps, PrintContractions, MarkFinished,
       End, Crash, Goto, Skip
<1>3. ASSUME NEW k \in Jobs, k # j PROVE At(k)' = At(k)
  BY <1>2, <1>3 DEF At, Current
<1>4. \A k \in Jobs : Tag(k)' = Tag(k)
  BY <1>1 DEF Tag
<1> QED BY <1>1, <1>2, <1>3, <1>4

\* Where a job is before and after a step of the loop over the configurations.
LEMMA Moves ==
  ASSUME TypeOK, NEW j \in Jobs
  PROVE  /\ Ask(j) => /\ pc[j] = "ask" /\ pc'[j] \in {"look", "end"} /\ iconf'[j] = iconf[j]
                      /\ rnd'[j] = rnd[j] /\ (pc'[j] = "look" => iconf[j] < camp.nconfs)
         /\ LookRunning(j) =>
              /\ pc[j] = "look" /\ At(j) = iconf[j] + 1
              /\ \/ /\ running[At(j)] # NONE /\ pc'[j] \in {"look", "end"}
                    /\ iconf'[j] = iconf[j] + 1 /\ rnd'[j] = rnd[j] + 1
                    /\ (pc'[j] = "look" => iconf[j] + 1 < camp.nconfs)
                 \/ /\ running[At(j)] = NONE /\ pc'[j] = "finished"
                    /\ iconf'[j] = iconf[j] /\ rnd'[j] = rnd[j] /\ At(j)' = At(j)
         /\ LookFinished(j) =>
              /\ pc[j] = "finished" /\ At(j) = iconf[j] + 1
              /\ \/ /\ finished[At(j)] /\ pc'[j] \in {"look", "end"}
                    /\ iconf'[j] = iconf[j] + 1 /\ rnd'[j] = rnd[j] + 1
                    /\ (pc'[j] = "look" => iconf[j] + 1 < camp.nconfs)
                 \/ /\ ~ finished[At(j)] /\ pc'[j] = "dir"
                    /\ iconf'[j] = iconf[j] /\ rnd'[j] = rnd[j] /\ At(j)' = At(j)
         /\ DirExists(j) =>
              /\ pc[j] = "dir" /\ At(j) = iconf[j] + 1 /\ At(j)' = At(j)
              /\ pc'[j] = (IF dir[At(j)] THEN "lock" ELSE "mkdir")
              /\ iconf'[j] = iconf[j] /\ rnd'[j] = rnd[j]
         /\ CreateDir(j) =>
              /\ pc[j] = "mkdir" /\ At(j) = iconf[j] + 1
              /\ \/ /\ dir[At(j)] /\ pc'[j] \in {"look", "end"} /\ dir' = dir
                    /\ iconf'[j] = iconf[j] + 1 /\ rnd'[j] = rnd[j] + 1
                    /\ (pc'[j] = "look" => iconf[j] + 1 < camp.nconfs)
                 \/ /\ ~ dir[At(j)] /\ pc'[j] = "lock" /\ dir' = [dir EXCEPT ![At(j)] = TRUE]
                    /\ iconf'[j] = iconf[j] /\ rnd'[j] = rnd[j] /\ At(j)' = At(j)
         /\ OpenLock(j) =>
              /\ pc[j] = "lock" /\ At(j) = iconf[j] + 1 /\ At(j)' = At(j) /\ pc'[j] = "tag"
              /\ running' = [running EXCEPT ![At(j)] = Empty]
              /\ iconf'[j] = iconf[j] /\ rnd'[j] = rnd[j]
         /\ WriteTag(j) =>
              /\ pc[j] = "tag" /\ At(j) = iconf[j] + 1 /\ At(j)' = At(j) /\ pc'[j] = "load"
              /\ running' = [running EXCEPT ![At(j)] = Tag(j)]
              /\ iconf'[j] = iconf[j] /\ rnd'[j] = rnd[j]
PROOF
<1> USE DEF TypeOK
<1>1. Ask(j) => /\ pc[j] = "ask" /\ pc'[j] \in {"look", "end"} /\ iconf'[j] = iconf[j]
                /\ rnd'[j] = rnd[j] /\ (pc'[j] = "look" => iconf[j] < camp.nconfs)
  BY DEF Ask, Goto
<1>2. ASSUME pc[j] \in {"look", "finished", "mkdir"}, Skip(j)
      PROVE  /\ pc'[j] \in {"look", "end"} /\ iconf'[j] = iconf[j] + 1 /\ rnd'[j] = rnd[j] + 1
             /\ (pc'[j] = "look" => iconf[j] + 1 < camp.nconfs)
  BY <1>2 DEF Skip, Goto, NextConf
<1>3. pc[j] \notin Analysing => At(j) = iconf[j] + 1 /\ At(j) = Current(j)
  BY DEF At, Current
<1>4. pc'[j] \notin Analysing /\ iconf'[j] = iconf[j] => At(j)' = iconf[j] + 1
  BY DEF At, Current
<1> HIDE DEF TypeOK
<1> USE Gone
<1>5. ASSUME LookRunning(j), ~ Skip(j)
      PROVE  running[At(j)] = NONE /\ pc'[j] = "finished" /\ iconf'[j] = iconf[j] /\ rnd'[j] = rnd[j]
  BY <1>3, <1>5 DEF LookRunning, PCs, Locking, Analysing
<1>6. ASSUME LookFinished(j), ~ Skip(j)
      PROVE  ~ finished[At(j)] /\ pc'[j] = "dir" /\ iconf'[j] = iconf[j] /\ rnd'[j] = rnd[j]
  BY <1>3, <1>6 DEF LookFinished, PCs, Locking, Analysing
<1>7. DirExists(j) => /\ pc'[j] = (IF dir[At(j)] THEN "lock" ELSE "mkdir")
                      /\ iconf'[j] = iconf[j] /\ rnd'[j] = rnd[j]
  BY <1>3 DEF DirExists, PCs, Locking, Analysing
<1>8. ASSUME CreateDir(j)
      PROVE  \/ dir[At(j)] /\ dir' = dir /\ Skip(j)
             \/ /\ ~ dir[At(j)] /\ pc'[j] = "lock" /\ dir' = [dir EXCEPT ![At(j)] = TRUE]
                /\ iconf'[j] = iconf[j] /\ rnd'[j] = rnd[j]
  BY <1>3, <1>8 DEF CreateDir, PCs, Locking, Analysing
<1>9. OpenLock(j) => /\ pc'[j] = "tag" /\ running' = [running EXCEPT ![At(j)] = Empty]
                     /\ iconf'[j] = iconf[j] /\ rnd'[j] = rnd[j]
  BY <1>3 DEF OpenLock, PCs, Locking, Analysing
<1>10. WriteTag(j) => /\ pc'[j] = "load" /\ running' = [running EXCEPT ![At(j)] = Tag(j)]
                      /\ iconf'[j] = iconf[j] /\ rnd'[j] = rnd[j]
  BY <1>3 DEF WriteTag, PCs, Locking, Analysing
<1>11. /\ (LookRunning(j) => pc[j] = "look") /\ (LookFinished(j) => pc[j] = "finished")
       /\ (DirExists(j) => pc[j] = "dir") /\ (CreateDir(j) => pc[j] = "mkdir")
       /\ (OpenLock(j) => pc[j] = "lock") /\ (WriteTag(j) => pc[j] = "tag")
  BY DEF LookRunning, LookFinished, DirExists, CreateDir, OpenLock, WriteTag
<1>12. ASSUME LookRunning(j), Skip(j) PROVE running[Current(j)] # NONE
  <2>1. ASSUME running[Current(j)] = NONE PROVE FALSE
    <3>1. Goto(j, "finished")
      BY <1>12, <2>1 DEF LookRunning
    <3>2. pc'[j] = "finished"
      BY <3>1 DEF PCs, Locking
    <3> QED BY <1>2, <1>11, <1>12, <3>2
  <2> QED BY <2>1
<1>13. ASSUME LookFinished(j), Skip(j) PROVE finished[Current(j)]
  <2>1. ASSUME ~ finished[Current(j)] PROVE FALSE
    <3>1. Goto(j, "dir")
      BY <1>13, <2>1 DEF LookFinished
    <3>2. pc'[j] = "dir"
      BY <3>1 DEF PCs, Locking
    <3> QED BY <1>2, <1>11, <1>13, <3>2
  <2> QED BY <2>1
<1>15. /\ "finished" \notin Analysing /\ "dir" \notin Analysing /\ "mkdir" \notin Analysing
       /\ "lock" \notin Analysing /\ "tag" \notin Analysing /\ "load" \notin Analysing
       /\ "look" \notin Analysing
  BY DEF Analysing
<1> QED BY <1>1, <1>2, <1>3, <1>4, <1>5, <1>6, <1>7, <1>8, <1>9, <1>10, <1>11, <1>12, <1>13, <1>15

\* The same for the steps on the configuration that is its own.
LEMMA Works ==
  ASSUME TypeOK, NEW j \in Jobs
  PROVE  /\ Load(j) =>
              /\ pc[j] = "load" /\ pc'[j] = "check" /\ At(j) = iconf[j] + 1 /\ At(j)' = At(j)
              /\ iconf'[j] = iconf[j]
              /\ rnd'[j] = (IF camp.transform THEN rnd[j] + 1 ELSE rnd[j])
         /\ CheckLock(j) =>
              /\ pc[j] = "check" /\ iconf'[j] = iconf[j] + 1 /\ At(j) = iconf[j] + 1
              /\ rnd'[j] = rnd[j]
              /\ \/ running[At(j)] = Tag(j) /\ pc'[j] = "source" /\ At(j)' = At(j) /\ lost' = lost
                 \/ /\ running[At(j)] # Tag(j) /\ pc'[j] \in {"look", "end"} /\ lost'
                    /\ (pc'[j] = "look" => iconf[j] + 1 < camp.nconfs)
         /\ GenerateSources(j) =>
              /\ pc[j] = "source" /\ pc'[j] = "prop" /\ At(j) = iconf[j] /\ At(j)' = At(j)
              /\ iconf'[j] = iconf[j] /\ rnd'[j] = rnd[j] + 1 /\ src'[j] = rnd[j] + 1
         /\ GenerateProps(j) =>
              /\ pc[j] = "prop" /\ pc'[j] = "print" /\ At(j) = iconf[j] /\ At(j)' = At(j)
              /\ iconf'[j] = iconf[j] /\ rnd'[j] = rnd[j]
              /\ props'[j] = (IF stored[At(j)] # NONE THEN stored[At(j)] ELSE src[j])
              /\ stored' = [stored EXCEPT ![At(j)] = IF camp.store THEN props'[j] ELSE @]
         /\ PrintContractions(j) =>
              /\ pc[j] = "print" /\ pc'[j] = "mark" /\ At(j) = iconf[j] /\ At(j)' = At(j)
              /\ iconf'[j] = iconf[j] /\ rnd'[j] = rnd[j]
         /\ MarkFinished(j) =>
              /\ pc[j] = "mark" /\ pc'[j] = "ask" /\ At(j) = iconf[j] /\ iconf'[j] = iconf[j]
              /\ rnd'[j] = rnd[j] /\ finished' = [finished EXCEPT ![At(j)] = TRUE]
              /\ nanalyzed_conf'[j] = nanalyzed_conf[j] + 1
         /\ End(j) =>
              /\ pc[j] = "end" /\ pc'[j] = "over" /\ iconf'[j] = iconf[j] /\ rnd'[j] = rnd[j]
         /\ Crash(j) => pc'[j] = "dead" /\ iconf'[j] = iconf[j] /\ rnd'[j] = rnd[j]
<1> USE Gone
<1>1. Load(j) =>
        /\ pc[j] = "load" /\ pc'[j] = "check" /\ At(j) = iconf[j] + 1 /\ At(j)' = At(j)
        /\ iconf'[j] = iconf[j]
        /\ rnd'[j] = (IF camp.transform THEN rnd[j] + 1 ELSE rnd[j])
  <2>1. ASSUME Load(j) PROVE pc[j] = "load" /\ pc'[j] = "check" /\ iconf'[j] = iconf[j]
    BY <2>1 DEF Load, PCs
  <2>2. ASSUME Load(j) PROVE rnd'[j] = (IF camp.transform THEN rnd[j] + 1 ELSE rnd[j])
    BY <2>2 DEF Load, TypeOK
  <2> QED BY <2>1, <2>2 DEF At, Current, Analysing
<1>2. CheckLock(j) =>
        /\ pc[j] = "check" /\ iconf'[j] = iconf[j] + 1 /\ At(j) = iconf[j] + 1
        /\ rnd'[j] = rnd[j]
        /\ \/ running[At(j)] = Tag(j) /\ pc'[j] = "source" /\ At(j)' = At(j) /\ lost' = lost
           \/ /\ running[At(j)] # Tag(j) /\ pc'[j] \in {"look", "end"} /\ lost'
              /\ (pc'[j] = "look" => iconf[j] + 1 < camp.nconfs)
  <2> SUFFICES ASSUME CheckLock(j)
               PROVE  /\ pc[j] = "check" /\ iconf'[j] = iconf[j] + 1 /\ At(j) = iconf[j] + 1
                      /\ rnd'[j] = rnd[j]
                      /\ \/ running[At(j)] = Tag(j) /\ pc'[j] = "source" /\ At(j)' = At(j) /\ lost' = lost
                         \/ /\ running[At(j)] # Tag(j) /\ pc'[j] \in {"look", "end"} /\ lost'
                            /\ (pc'[j] = "look" => iconf[j] + 1 < camp.nconfs)
    OBVIOUS
  <2>1. pc[j] = "check" /\ rnd'[j] = rnd[j] /\ At(j) = iconf[j] + 1 /\ Current(j) = At(j)
    BY DEF CheckLock, At, Current, Analysing
  <2>2. iconf'[j] = iconf[j] + 1
    BY DEF CheckLock, TypeOK
  <2>3. CASE running[At(j)] = Tag(j)
    <3>1. Goto(j, "source") /\ lost' = lost
      BY <2>1, <2>3 DEF CheckLock
    <3>2. pc'[j] = "source"
      BY <3>1 DEF PCs, Analysing
    <3> QED BY <2>1, <2>2, <2>3, <3>1, <3>2 DEF At, Analysing
  <2>4. CASE running[At(j)] # Tag(j)
    <3>1. Goto(j, NextConf(j)) /\ lost'
      BY <2>1, <2>4 DEF CheckLock
    <3>2. pc'[j] = NextConf(j)
      BY <3>1 DEF PCs, NextConf
    <3> QED BY <2>1, <2>2, <2>4, <3>1, <3>2 DEF NextConf
  <2> QED BY <2>3, <2>4
<1>3. ASSUME pc[j] \in Analysing, pc'[j] \in Analysing, iconf'[j] = iconf[j]
      PROVE  At(j) = iconf[j] /\ At(j)' = At(j)
  BY <1>3 DEF At
<1>4. GenerateSources(j) =>
        /\ pc[j] = "source" /\ pc'[j] = "prop" /\ iconf'[j] = iconf[j]
        /\ rnd'[j] = rnd[j] + 1 /\ src'[j] = rnd[j] + 1
  <2>1. GenerateSources(j) => pc[j] = "source" /\ pc'[j] = "prop" /\ iconf'[j] = iconf[j]
    BY DEF GenerateSources, PCs, Analysing
  <2> QED BY <2>1 DEF GenerateSources, TypeOK
<1>5. GenerateProps(j) =>
        /\ pc[j] = "prop" /\ pc'[j] = "print" /\ iconf'[j] = iconf[j] /\ rnd'[j] = rnd[j]
        /\ props'[j] = (IF stored[iconf[j]] # NONE THEN stored[iconf[j]] ELSE src[j])
        /\ stored' = [stored EXCEPT ![iconf[j]] = IF camp.store THEN props'[j] ELSE @]
  <2>1. GenerateProps(j) => /\ pc[j] = "prop" /\ pc'[j] = "print" /\ iconf'[j] = iconf[j]
                            /\ rnd'[j] = rnd[j]
    BY DEF GenerateProps, PCs, Analysing
  <2> QED BY <2>1 DEF GenerateProps, TypeOK
<1>6. PrintContractions(j) =>
        pc[j] = "print" /\ pc'[j] = "mark" /\ iconf'[j] = iconf[j] /\ rnd'[j] = rnd[j]
  BY DEF PrintContractions, PCs, Analysing
<1>7. MarkFinished(j) =>
        /\ pc[j] = "mark" /\ pc'[j] = "ask" /\ iconf'[j] = iconf[j] /\ rnd'[j] = rnd[j]
        /\ finished' = [finished EXCEPT ![iconf[j]] = TRUE]
        /\ nanalyzed_conf'[j] = nanalyzed_conf[j] + 1
  <2>1. MarkFinished(j) => /\ pc[j] = "mark" /\ pc'[j] = "ask" /\ iconf'[j] = iconf[j]
                           /\ rnd'[j] = rnd[j] /\ finished' = [finished EXCEPT ![iconf[j]] = TRUE]
    BY DEF MarkFinished, PCs
  <2> QED BY <2>1 DEF MarkFinished, TypeOK
<1>8. End(j) => pc[j] = "end" /\ pc'[j] = "over" /\ iconf'[j] = iconf[j] /\ rnd'[j] = rnd[j]
  BY DEF End, PCs
<1>9. Crash(j) => pc'[j] = "dead" /\ iconf'[j] = iconf[j] /\ rnd'[j] = rnd[j]
  BY DEF Crash, PCs
<1>10. {"source", "prop", "print", "mark"} \subseteq Analysing
  BY DEF Analysing
<1>11. pc[j] \in Analysing => At(j) = iconf[j]
  BY DEF At
<1> HIDE Gone
<1> QED BY <1>1, <1>2, <1>3, <1>4, <1>5, <1>6, <1>7, <1>8, <1>9, <1>10, <1>11

-----------------------------------------------------------------------------
\* A job takes at most one unit of random numbers to skip a configuration, two
\* to analyse it.
LEMMA CountsStep == IInv /\ [Next]_vars => Counts'
<1> SUFFICES ASSUME IInv, [Next]_vars PROVE Counts'
  OBVIOUS
<1> USE DEF IInv
<1>1. ASSUME NEW j \in Jobs, JobStep(j) \/ Crash(j) PROVE Counts'
  <2>1. /\ iconf[j] \in Nat /\ rnd[j] \in Nat /\ nanalyzed_conf[j] \in Nat /\ CountOf(j)
    BY DEF TypeOK, Counts
  <2>2. ASSUME NEW k \in Jobs, k # j PROVE CountOf(k)'
    BY <1>1, <2>2, Others DEF Counts, CountOf
  <2>3. nanalyzed_conf'[j] = IF MarkFinished(j) THEN nanalyzed_conf[j] + 1 ELSE nanalyzed_conf[j]
    <3>1. CASE MarkFinished(j)
      BY <3>1, Works
    <3>2. CASE ~ MarkFinished(j)
      BY <1>1, <3>2 DEF JobStep, Ask, LookRunning, LookFinished, DirExists, CreateDir, OpenLock,
           WriteTag, Load, CheckLock, GenerateSources, GenerateProps, PrintContractions, End, Crash
    <3> QED BY <3>1, <3>2
  <2>4. CountOf(j)'
    <3>1. CASE Ask(j)
      BY <3>1, <2>1, <2>3, Moves DEF CountOf, MarkFinished, Analysing
    <3>2. CASE LookRunning(j)
      BY <3>2, <2>1, <2>3, Moves DEF CountOf, MarkFinished, Analysing
    <3>3. CASE LookFinished(j)
      BY <3>3, <2>1, <2>3, Moves DEF CountOf, MarkFinished, Analysing
    <3>4. CASE DirExists(j)
      BY <3>4, <2>1, <2>3, Moves DEF CountOf, MarkFinished, Analysing
    <3>5. CASE CreateDir(j)
      BY <3>5, <2>1, <2>3, Moves DEF CountOf, MarkFinished, Analysing
    <3>6. CASE OpenLock(j)
      BY <3>6, <2>1, <2>3, Moves DEF CountOf, MarkFinished, Analysing
    <3>7. CASE WriteTag(j)
      BY <3>7, <2>1, <2>3, Moves DEF CountOf, MarkFinished, Analysing
    <3>8. CASE Load(j)
      BY <3>8, <2>1, <2>3, Works DEF CountOf, MarkFinished, Analysing
    <3>9. CASE CheckLock(j)
      BY <3>9, <2>1, <2>3, Works DEF CountOf, MarkFinished, Analysing
    <3>10. CASE GenerateSources(j)
      BY <3>10, <2>1, <2>3, Works DEF CountOf, MarkFinished, Analysing
    <3>11. CASE GenerateProps(j)
      BY <3>11, <2>1, <2>3, Works DEF CountOf, MarkFinished, Analysing
    <3>12. CASE PrintContractions(j)
      BY <3>12, <2>1, <2>3, Works DEF CountOf, MarkFinished, Analysing
    <3>13. CASE MarkFinished(j)
      BY <3>13, <2>1, <2>3, Works DEF CountOf, Analysing
    <3>14. CASE End(j)
      BY <3>14, <2>1, <2>3, Works DEF CountOf, MarkFinished, Analysing
    <3>15. CASE Crash(j)
      <4>1. ~ MarkFinished(j)
        BY <3>15, Works
      <4> QED BY <3>15, <4>1, <2>1, <2>3, Works DEF CountOf, Analysing
    <3> QED
      BY <1>1, <3>1, <3>2, <3>3, <3>4, <3>5, <3>6, <3>7, <3>8, <3>9, <3>10, <3>11, <3>12, <3>13,
         <3>14, <3>15 DEF JobStep
  <2> QED BY <1>1, <2>2, <2>4, Others DEF Counts
<1>2. CASE Resubmit
  BY <1>2, SameCamp DEF Resubmit, Counts, CountOf, Analysing
<1>3. CASE Signal \/ UNCHANGED vars
  BY <1>3, SameCamp DEF Signal, vars, disk, Counts, CountOf
<1> QED BY <1>1, <1>2, <1>3 DEF Next, Done

-----------------------------------------------------------------------------
\* A job that locks, loads or analyses is at a configuration, whose folder is
\* there from lock on.
LEMMA PlacesStep == IInv /\ [Next]_vars => Places'
<1> SUFFICES ASSUME IInv, [Next]_vars PROVE Places'
  OBVIOUS
<1> USE DEF IInv
<1>1. ASSUME NEW j \in Jobs, JobStep(j) \/ Crash(j) PROVE Places'
  <2>1. /\ iconf[j] \in 0 .. camp.nconfs /\ camp.nconfs \in Nat /\ CountOf(j) /\ PlaceOf(j)
        /\ rnd[j] \in Nat
    BY CampFields DEF TypeOK, Counts, Places
  <2>2. \A c \in Confs : dir[c] => dir'[c]
    BY <1>1, Moves DEF TypeOK, JobStep, Ask, LookRunning, LookFinished, DirExists, OpenLock,
         WriteTag, Load, CheckLock, GenerateSources, GenerateProps, PrintContractions,
         MarkFinished, End, Crash, disk
  <2>3. ASSUME NEW k \in Jobs, k # j PROVE PlaceOf(k)'
    <3>1. PlaceOf(k)
      BY DEF Places
    <3>2. dir[At(k)] /\ At(k) \in Confs => dir'[At(k)]
      BY <2>2
    <3>3. /\ pc'[k] = pc[k] /\ src'[k] = src[k] /\ props'[k] = props[k] /\ At(k)' = At(k)
          /\ Confs' = Confs
      BY <1>1, <2>3, Others
    <3> QED BY <3>1, <3>2, <3>3 DEF PlaceOf, Locking
  <2>4. /\ ncrashes' \in Nat /\ round' = round /\ lost' \in BOOLEAN /\ camp' = camp
        /\ Confs' = Confs /\ Jobs' = Jobs
    <3>1. lost' \in BOOLEAN
      BY <1>1, Works DEF Places, JobStep, Ask, LookRunning, LookFinished, DirExists, CreateDir,
           OpenLock, WriteTag, Load, GenerateSources, GenerateProps, PrintContractions,
           MarkFinished, End, Crash
    <3>2. ncrashes' \in Nat
      BY <1>1 DEF Places, JobStep, Ask, LookRunning, LookFinished, DirExists, CreateDir,
           OpenLock, WriteTag, Load, CheckLock, GenerateSources, GenerateProps, PrintContractions,
           MarkFinished, End, Crash
    <3> QED BY <1>1, <3>1, <3>2, Others
  <2>5. correlators' \in [Confs -> SUBSET [source : Int \cup {NONE}, prop : Int \cup {NONE}]]
    <3>1. CASE PrintContractions(j)
      <4>1. src[j] \in Int \cup {NONE} /\ props[j] \in Int \cup {NONE}
        BY DEF TypeOK
      <4>2. [source |-> src[j], prop |-> props[j]] \in [source : Int \cup {NONE}, prop : Int \cup {NONE}]
        BY <4>1
      <4>3. correlators' = [correlators EXCEPT ![iconf[j]] =
                              @ \cup {[source |-> src[j], prop |-> props[j]]}]
        BY <3>1 DEF PrintContractions
      <4> HIDE DEF IInv
      <4>4. correlators \in [Confs -> SUBSET [source : Int \cup {NONE}, prop : Int \cup {NONE}]]
        BY DEF IInv, Places
      <4> QED BY <4>2, <4>3, <4>4
    <3>2. CASE ~ PrintContractions(j)
      BY <1>1, <3>2 DEF Places, JobStep, Ask, LookRunning, LookFinished, DirExists, CreateDir,
           OpenLock, WriteTag, Load, CheckLock, GenerateSources, GenerateProps, MarkFinished, End,
           Crash, disk
    <3> QED BY <3>1, <3>2
  <2>6. Current(j)' = iconf'[j] + 1
    BY DEF Current
  <2>7. PlaceOf(j)'
    <3> USE DEF Locking, Tagged, Analysing
    <3>1. CASE Ask(j)
      BY <3>1, <2>1, <2>2, <2>4, <2>6, Moves DEF PlaceOf, CountOf, Confs, At, Current
    <3>2. CASE LookRunning(j)
      BY <3>2, <2>1, <2>2, <2>4, <2>6, Moves DEF PlaceOf, CountOf, Confs, At, Current
    <3>3. CASE LookFinished(j)
      BY <3>3, <2>1, <2>2, <2>4, <2>6, Moves DEF PlaceOf, CountOf, Confs, At, Current
    <3>4. CASE DirExists(j)
      BY <3>4, <2>1, <2>2, <2>4, <2>6, Moves DEF PlaceOf, CountOf, Confs, DirExists, disk, At, Current
    <3>5. CASE CreateDir(j)
      <4>1. At(j) \in Confs /\ dir \in [Confs -> BOOLEAN]
        BY <3>5, <2>1, Moves DEF PlaceOf, TypeOK
      <4>2. pc'[j] \in {"look", "end"} => At(j)' = iconf'[j] + 1
        BY <2>6 DEF At
      <4> QED BY <3>5, <2>1, <2>4, <4>1, <4>2, Moves DEF PlaceOf, Confs
    <3>6. CASE OpenLock(j)
      BY <3>6, <2>1, <2>2, <2>4, <2>6, Moves DEF PlaceOf, CountOf, Confs, OpenLock
    <3>7. CASE WriteTag(j)
      BY <3>7, <2>1, <2>2, <2>4, <2>6, Moves DEF PlaceOf, CountOf, Confs, WriteTag
    <3>8. CASE Load(j)
      BY <3>8, <2>1, <2>2, <2>4, <2>6, Works DEF PlaceOf, CountOf, Confs, Load, disk
    <3>9. CASE CheckLock(j)
      <4>1. At(j) \in Confs /\ dir[At(j)] /\ dir' = dir
        BY <3>9, <2>1, Works DEF PlaceOf, CheckLock, disk
      <4>2. pc'[j] \in {"look", "end"} => At(j)' = iconf'[j] + 1
        BY <2>6 DEF At
      <4> QED BY <3>9, <2>1, <2>4, <4>1, <4>2, Works DEF PlaceOf, Confs
    <3>10. CASE GenerateSources(j)
      <4>1. dir' = dir
        BY <3>10 DEF GenerateSources, disk
      <4>2. src'[j] = rnd[j] + 1 /\ src'[j] # NONE
        BY <3>10, <2>1, Works
      <4> QED BY <3>10, <2>1, <2>4, <4>1, <4>2, Works DEF PlaceOf
    <3>11. CASE GenerateProps(j)
      BY <3>11, <2>1, <2>2, <2>4, <2>6, Works DEF PlaceOf, CountOf, Confs, GenerateProps, TypeOK
    <3>12. CASE PrintContractions(j)
      BY <3>12, <2>1, <2>2, <2>4, <2>6, Works DEF PlaceOf, CountOf, Confs, PrintContractions
    <3>13. CASE MarkFinished(j)
      BY <3>13, <2>1, <2>2, <2>4, <2>6, Works DEF PlaceOf, CountOf, Confs
    <3>14. CASE End(j)
      BY <3>14, <2>1, <2>2, <2>4, <2>6, Works DEF PlaceOf, CountOf, Confs
    <3>15. CASE Crash(j)
      BY <3>15, <2>1, <2>2, <2>4, <2>6, Works DEF PlaceOf, CountOf, Confs
    <3> QED
      BY <1>1, <3>1, <3>2, <3>3, <3>4, <3>5, <3>6, <3>7, <3>8, <3>9, <3>10, <3>11, <3>12, <3>13,
         <3>14, <3>15 DEF JobStep
  <2> QED BY <2>3, <2>4, <2>5, <2>7 DEF Places
<1>2. CASE Resubmit
  <2>1. \A j \in Jobs : pc'[j] = "ask"
    BY <1>2 DEF Resubmit
  <2>2. \A j \in Jobs : PlaceOf(j)'
    BY <2>1 DEF PlaceOf, Locking, Tagged, Analysing
  <2>3. round' \in 1 .. camp.rounds
    BY <1>2, CampFields DEF Resubmit, Places, TypeOK
  <2> QED BY <1>2, <2>2, <2>3, SameCamp DEF Resubmit, Places
<1>3. CASE Signal \/ UNCHANGED vars
  BY <1>3, SameCamp DEF Signal, vars, disk, Places, PlaceOf, At, Current
<1> QED BY <1>1, <1>2, <1>3 DEF Next, Done

-----------------------------------------------------------------------------
\* What the jobs do to the files: running is never emptied of a job again,
\* finished and the folders stay.
LEMMA Files ==
  ASSUME IInv, NEW j \in Jobs, JobStep(j) \/ Crash(j)
  PROVE  /\ OpenLock(j) \/ WriteTag(j) \/ running' = running
         /\ MarkFinished(j) \/ finished' = finished
         /\ CreateDir(j) \/ dir' = dir
         /\ \A c \in Confs : /\ running[c] # NONE => running'[c] # NONE
                             /\ finished[c] => finished'[c]
                             /\ dir[c] => dir'[c]
                             /\ At(j) # c => /\ running'[c] = running[c] /\ finished'[c] = finished[c]
                                             /\ dir'[c] = dir[c]
<1> USE DEF IInv
<1>1. OpenLock(j) \/ WriteTag(j) \/ running' = running
  BY DEF JobStep, Ask, LookRunning, LookFinished, DirExists, CreateDir, Load, CheckLock,
       GenerateSources, GenerateProps, PrintContractions, MarkFinished, End, Crash, disk
<1>2. MarkFinished(j) \/ finished' = finished
  BY DEF JobStep, Ask, LookRunning, LookFinished, DirExists, CreateDir, OpenLock, WriteTag, Load,
       CheckLock, GenerateSources, GenerateProps, PrintContractions, End, Crash, disk
<1>3. CreateDir(j) \/ dir' = dir
  BY DEF JobStep, Ask, LookRunning, LookFinished, DirExists, OpenLock, WriteTag, Load, CheckLock,
       GenerateSources, GenerateProps, PrintContractions, MarkFinished, End, Crash, disk
<1>4. Tag(j) # NONE /\ Empty # NONE
  BY TagType
<1>5. ASSUME NEW c \in Confs
      PROVE  (running[c] # NONE => running'[c] # NONE) /\ (At(j) # c => running'[c] = running[c])
  BY <1>1, <1>4, Moves DEF TypeOK
<1>6. ASSUME NEW c \in Confs
      PROVE  (finished[c] => finished'[c]) /\ (At(j) # c => finished'[c] = finished[c])
  BY <1>2, Works DEF TypeOK
<1>7. ASSUME NEW c \in Confs
      PROVE  (dir[c] => dir'[c]) /\ (At(j) # c => dir'[c] = dir[c])
  BY <1>3, Moves DEF TypeOK
<1> QED BY <1>1, <1>2, <1>3, <1>5, <1>6, <1>7

\* The lock file of a configuration that somebody has locked is there.
LEMMA LockedStep == IInv /\ [Next]_vars => Locked'
<1> SUFFICES ASSUME IInv, [Next]_vars PROVE Locked'
  OBVIOUS
<1> USE DEF IInv
<1>1. ASSUME NEW j \in Jobs, JobStep(j) \/ Crash(j), NEW k \in Jobs,
             pc'[k] \in {"tag"} \cup Tagged
      PROVE  running'[At(k)'] # NONE
  <2>1. PlaceOf(k) /\ PlaceOf(j) /\ TypeOK /\ Confs' = Confs
    BY <1>1, Others DEF Places
  <2>2. CASE k # j
    <3>1. At(k)' = At(k) /\ pc'[k] = pc[k]
      BY <1>1, <2>2, Others
    <3>2. At(k) \in Confs /\ running[At(k)] # NONE
      BY <1>1, <2>1, <3>1 DEF PlaceOf, Locked, Locking
    <3> QED BY <1>1, <3>1, <3>2, Files
  <2>3. CASE k = j
    <3> USE DEF Locking, Tagged, Analysing
    <3>1. CASE OpenLock(j)
      BY <2>1, <2>3, <3>1, Moves DEF TypeOK, PlaceOf
    <3>2. CASE WriteTag(j)
      <4>1. Tag(j) # NONE
        BY TagType
      <4> QED BY <2>1, <2>3, <3>2, <4>1, Moves DEF TypeOK, PlaceOf
    <3>3. CASE Load(j) \/ CheckLock(j) \/ GenerateSources(j) \/ GenerateProps(j) \/ PrintContractions(j)
      <4>1. pc[j] \in Tagged /\ At(j)' = At(j)
        BY <1>1, <2>3, <3>3, Works
      <4>2. At(j) \in Confs /\ running[At(j)] # NONE
        BY <2>1, <4>1 DEF PlaceOf, Locked
      <4> QED BY <1>1, <2>3, <4>1, <4>2, Files
    <3> QED BY <1>1, <2>3, <3>1, <3>2, <3>3, Moves, Works DEF JobStep
  <2> QED BY <2>2, <2>3
<1>2. CASE Resubmit
  BY <1>2, SameCamp DEF Resubmit, Locked, Tagged, Analysing
<1>3. CASE Signal \/ UNCHANGED vars
  BY <1>3, SameCamp DEF Signal, vars, disk, Locked, At, Current
<1>4. ASSUME NEW j \in Jobs, JobStep(j) \/ Crash(j) PROVE Locked'
  BY <1>1, <1>4, Others DEF Locked
<1> QED BY <1>2, <1>3, <1>4 DEF Next, Done

-----------------------------------------------------------------------------
\* How a job gets to where it is.
LEMMA Flow ==
  ASSUME TypeOK, NEW j \in Jobs, JobStep(j) \/ Crash(j)
  PROVE  /\ pc'[j] \in Locking =>
              /\ At(j)' = At(j)
              /\ pc[j] \in Locking \/ (pc[j] = "look" /\ running[At(j)] = NONE)
         /\ pc'[j] \in Locking \ {"finished"} =>
              pc[j] \in Locking \ {"finished"} \/ (pc[j] = "finished" /\ ~ finished[At(j)])
         /\ pc'[j] \in Tagged => At(j)' = At(j) /\ (pc[j] \in Tagged \/ WriteTag(j))
         /\ pc'[j] \in {"check"} \cup Analysing => pc[j] \in {"check"} \cup Analysing \/ Load(j)
         /\ pc'[j] \in Analysing =>
              pc[j] \in Analysing \/ (pc[j] = "check" /\ running[At(j)] = Tag(j))
<1> USE DEF Locking, Tagged, Analysing
<1>1. CASE Ask(j) \/ LookRunning(j) \/ LookFinished(j) \/ DirExists(j)
  BY <1>1, Moves
<1>2. CASE CreateDir(j) \/ OpenLock(j) \/ WriteTag(j)
  BY <1>2, Moves
<1>3. CASE Load(j) \/ CheckLock(j) \/ GenerateSources(j) \/ GenerateProps(j)
  BY <1>3, Works
<1>4. CASE PrintContractions(j) \/ MarkFinished(j) \/ End(j) \/ Crash(j)
  BY <1>4, Works
<1> QED BY <1>1, <1>2, <1>3, <1>4 DEF JobStep

\* While loading outlasts locking, whoever analyses a configuration is alone.
LEMMA AloneStep == IInv /\ [Next]_vars => Alone'
<1> SUFFICES ASSUME IInv, [Next]_vars PROVE Alone'
  OBVIOUS
<1> USE DEF IInv
<1>1. ASSUME NEW i \in Jobs, JobStep(i) \/ Crash(i), camp.prompt
      PROVE  (NobodyLocks /\ TagStays /\ NotFinished)'
  <2>1. NobodyLocks /\ TagStays /\ NotFinished /\ Locked /\ TypeOK
    BY <1>1 DEF Alone
  <2>2. \A k \in Jobs : PlaceOf(k)
    BY DEF Places
  <2>3. ASSUME NEW j \in Jobs, NEW k \in Jobs,
               pc'[j] \in {"check"} \cup Analysing, pc'[k] \in Locking
        PROVE  At(k)' # At(j)'
    <3>1. j # k
      BY <2>3 DEF Locking, Analysing
    <3>2. CASE i = j
      <4>1. At(k)' = At(k) /\ pc[k] \in Locking
        BY <1>1, <2>3, <3>1, <3>2, Others
      <4>2. At(j)' = At(j) /\ (pc[j] \in {"check"} \cup Analysing \/ Load(j))
        BY <1>1, <2>3, <3>2, Flow DEF Tagged
      <4>3. CASE Load(j)
        BY <1>1, <4>1, <4>2, <4>3, Works DEF Load, At, Locking, Analysing
      <4> QED BY <2>1, <4>1, <4>2, <4>3 DEF NobodyLocks
    <3>3. CASE i = k
      <4>1. At(j)' = At(j) /\ pc[j] \in {"check"} \cup Analysing
        BY <1>1, <2>3, <3>1, <3>3, Others
      <4>2. /\ At(k)' = At(k)
            /\ pc[k] \in Locking \/ running[At(k)] = NONE
        BY <1>1, <2>3, <3>3, Flow
      <4>3. running[At(j)] # NONE
        BY <4>1 DEF Locked, Tagged
      <4> QED BY <2>1, <4>1, <4>2, <4>3 DEF NobodyLocks
    <3>4. CASE i # j /\ i # k
      BY <1>1, <2>1, <2>3, <3>4, Others DEF NobodyLocks
    <3> QED BY <3>2, <3>3, <3>4
  <2>4. ASSUME NEW j \in Jobs, pc'[j] \in Analysing
        PROVE  running'[At(j)'] = Tag(j)'
    <3>1. Tag(j)' = Tag(j) /\ At(j)' = At(j)
      BY <1>1, <2>4, Others, Flow DEF Tagged
    <3>2. pc[j] \in {"check"} \cup Analysing /\ running[At(j)] = Tag(j)
      BY <1>1, <2>1, <2>4, Others, Flow DEF TagStays
    <3>3. At(j) \in Confs
      BY <2>2, <3>2 DEF PlaceOf, Tagged
    <3>4. CASE OpenLock(i) \/ WriteTag(i)
      <4>1. pc[i] \in Locking
        BY <3>4, Moves DEF Locking
      <4>2. At(i) # At(j)
        BY <2>1, <3>2, <4>1 DEF NobodyLocks
      <4> QED BY <1>1, <3>1, <3>2, <3>3, <4>2, Files
    <3>5. CASE running' = running
      BY <3>1, <3>2, <3>5
    <3> QED BY <1>1, <3>4, <3>5, Files
  <2>5. ASSUME NEW j \in Jobs, pc'[j] \in Locking \ {"finished"}
        PROVE  ~ finished'[At(j)']
    <3>1. /\ At(j)' = At(j) /\ pc[j] \in Locking /\ ~ finished[At(j)]
      BY <1>1, <2>1, <2>5, Others, Flow DEF NotFinished, Locking
    <3>2. At(j) \in Confs
      BY <2>2, <3>1 DEF PlaceOf
    <3>3. CASE MarkFinished(i)
      <4>1. pc[i] \in Analysing
        BY <3>3, Works DEF Analysing
      <4>2. At(j) # At(i)
        BY <2>1, <3>1, <4>1 DEF NobodyLocks
      <4> QED BY <1>1, <3>1, <3>2, <4>2, Files
    <3>4. CASE finished' = finished
      BY <3>1, <3>4
    <3> QED BY <1>1, <3>3, <3>4, Files
  <2>6. ASSUME NEW j \in Jobs, pc'[j] \in Tagged, running'[At(j)'] = Tag(j)'
        PROVE  ~ finished'[At(j)']
    <3>1. /\ At(j)' = At(j) /\ Tag(j)' = Tag(j)
          /\ pc[j] \in Tagged \/ (j = i /\ WriteTag(j))
      BY <1>1, <2>6, Others, Flow
    <3>2. CASE j = i /\ WriteTag(j)
      <4>1. pc[j] = "tag" /\ ~ MarkFinished(i)
        BY <3>2, Moves, Works
      <4> QED BY <1>1, <2>1, <3>1, <4>1, Files DEF NotFinished, Locking
    <3>3. CASE pc[j] \in Tagged
      <4>1. At(j) \in Confs
        BY <2>2, <3>3 DEF PlaceOf
      <4>2. running[At(j)] = Tag(j)
        <5>1. CASE OpenLock(i)
          <6>1. Tag(j) # Empty
            BY TagType
          <6> QED BY <2>6, <3>1, <4>1, <5>1, <6>1, Moves DEF TypeOK
        <5>2. CASE WriteTag(i)
          <6>1. i # j
            BY <3>3, <5>2, Moves DEF Tagged, Analysing
          <6>2. Tag(i) # Tag(j)
            BY <6>1, TagType
          <6> QED BY <2>6, <3>1, <4>1, <5>2, <6>2, Moves DEF TypeOK
        <5>3. CASE running' = running
          BY <2>6, <3>1, <5>3
        <5> QED BY <1>1, <5>1, <5>2, <5>3, Files
      <4>3. ~ finished[At(j)]
        BY <2>1, <3>3, <4>2 DEF NotFinished
      <4>4. CASE MarkFinished(i)
        <5>1. pc[i] \in Analysing /\ pc'[i] = "ask"
          BY <4>4, Works DEF Analysing
        <5>2. i # j
          BY <2>6, <5>1 DEF Tagged, Analysing
        <5>3. running[At(i)] = Tag(i) /\ Tag(i) # Tag(j)
          BY <2>1, <5>1, <5>2, TagType DEF TagStays
        <5>4. At(i) # At(j)
          BY <4>2, <5>3
        <5> QED BY <1>1, <3>1, <4>1, <4>3, <5>4, Files
      <4>5. CASE finished' = finished
        BY <3>1, <4>3, <4>5
      <4> QED BY <1>1, <4>4, <4>5, Files
    <3> QED BY <3>1, <3>2, <3>3
  <2>7. Jobs' = Jobs
    BY <1>1, Others
  <2> QED BY <2>3, <2>4, <2>5, <2>6, <2>7 DEF NobodyLocks, TagStays, NotFinished
<1>2. CASE Resubmit
  BY <1>2, SameCamp DEF Resubmit, Alone, NobodyLocks, TagStays, NotFinished, Locking, Tagged, Analysing
<1>3. CASE Signal \/ UNCHANGED vars
  <2>1. /\ pc' = pc /\ iconf' = iconf /\ running' = running /\ finished' = finished
        /\ round' = round /\ camp' = camp /\ Jobs' = Jobs
    BY <1>3, SameCamp DEF Signal, vars, disk
  <2>2. \A j \in Jobs : At(j)' = At(j) /\ Tag(j)' = Tag(j)
    BY <2>1 DEF At, Current, Tag
  <2> QED BY <2>1, <2>2 DEF Alone, NobodyLocks, TagStays, NotFinished
<1>4. ASSUME NEW j \in Jobs, JobStep(j) \/ Crash(j) PROVE Alone'
  BY <1>1, <1>4, Others DEF Alone
<1> QED BY <1>2, <1>3, <1>4 DEF Next, Done

-----------------------------------------------------------------------------
\* A job that has a configuration has it until it is finished; one that holds
\* it leaves it to another that does.
LEMMA HasStays ==
  ASSUME IInv, NEW i \in Jobs, JobStep(i), NEW c \in Confs, NEW k \in Jobs, Has(k, c),
         running'[c] = running[c] \/ (k = i /\ WriteTag(i))
  PROVE  finished'[c] \/ Has(k, c)'
<1> USE DEF IInv
<1>1. /\ TypeOK /\ (pc[k] = "tag" \/ (pc[k] \in Tagged /\ running[c] = Tag(k))) /\ At(k) = c
      /\ Tag(k)' = Tag(k)
  BY Others DEF Has, Tagged
<1>2. CASE k # i
  BY <1>1, <1>2, Others DEF Has, Tagged, Analysing
<1>3. CASE k = i
  <2> USE DEF Tagged, Analysing
  <2>1. CASE WriteTag(i)
    BY <1>1, <1>3, <2>1, Moves DEF Has, TypeOK
  <2>2. CASE CheckLock(i)
    <3>1. running[At(i)] = Tag(i) /\ pc'[i] = "source" /\ At(i)' = At(i) /\ running' = running
      BY <1>1, <1>3, <2>2, Works DEF CheckLock, disk
    <3> QED BY <1>1, <1>3, <3>1 DEF Has
  <2>3. CASE Load(i) \/ GenerateSources(i) \/ GenerateProps(i) \/ PrintContractions(i)
    <3>1. pc'[i] \in Tagged /\ At(i)' = At(i) /\ pc[i] \in Tagged
      BY <2>3, Works
    <3>2. ~ WriteTag(i)
      BY <3>1, Moves
    <3> QED BY <1>1, <1>3, <3>1, <3>2 DEF Has
  <2>4. CASE MarkFinished(i)
    BY <1>1, <1>3, <2>4, Works DEF TypeOK
  <2> QED BY <1>1, <1>3, <2>1, <2>2, <2>3, <2>4, Moves, Works DEF JobStep
<1> QED BY <1>2, <1>3

\* The configuration that a job was at, and is no more, is in somebody's hands.
LEMMA HandsOver ==
  ASSUME IInv, NEW i \in Jobs, JobStep(i), LockedByOne, MadeByOne,
         pc[i] \in Locking \cup Tagged \cup {"look"},
         ~ (pc'[i] \in Locking \cup Tagged /\ At(i)' = At(i)),
         NEW c \in Confs, c = At(i)
  PROVE  InHands(c)'
<1> USE DEF IInv
<1>1. TypeOK /\ Jobs' = Jobs
  BY Others
<1>2. ASSUME NEW k \in Jobs, k # i, Has(k, c) PROVE InHands(c)'
  <2>1. Holds(k, c)'
    BY <1>1, <1>2, Others DEF Has, Holds, Locking
  <2> QED BY <1>1, <2>1 DEF InHands
<1>3. ASSUME finished[c] PROVE InHands(c)'
  BY <1>1, <1>3, Files DEF InHands
<1>4. ASSUME running[c] # NONE, ~ Has(i, c) PROVE InHands(c)'
  BY <1>1, <1>2, <1>3, <1>4 DEF LockedByOne
<1>5. CASE LookRunning(i)
  <2>1. running[c] # NONE /\ pc[i] = "look"
    BY <1>5, Moves DEF Locking
  <2> QED BY <1>4, <2>1 DEF Has, Tagged, Analysing
<1>6. CASE LookFinished(i)
  BY <1>3, <1>6, Moves DEF Locking
<1>7. CASE CreateDir(i)
  <2>1. dir[c] /\ pc[i] = "mkdir"
    BY <1>7, Moves DEF Locking
  <2>2. CASE running[c] # NONE
    BY <1>4, <2>1, <2>2 DEF Has, Tagged, Analysing
  <2>3. ASSUME NEW k \in Jobs, pc[k] = "lock", At(k) = c PROVE InHands(c)'
    <3>1. k # i
      BY <2>1, <2>3
    <3>2. Holds(k, c)'
      BY <2>3, <3>1, Others DEF Holds, Locking
    <3> QED BY <1>1, <3>2 DEF InHands
  <2> QED BY <2>1, <2>2, <2>3 DEF MadeByOne
<1>8. CASE CheckLock(i)
  <2>1. pc[i] = "check" /\ running[c] # Tag(i)
    BY <1>8, Works DEF Tagged, Analysing
  <2>2. running[c] # NONE
    BY <2>1 DEF Locked, Tagged
  <2> QED BY <1>4, <2>1, <2>2 DEF Has
<1>9. CASE MarkFinished(i)
  BY <1>1, <1>9, Works DEF TypeOK, InHands
<1>10. CASE DirExists(i) \/ OpenLock(i) \/ WriteTag(i)
  BY <1>10, Moves DEF Locking, Tagged
<1>11. CASE Load(i) \/ GenerateSources(i) \/ GenerateProps(i) \/ PrintContractions(i)
  BY <1>11, Works DEF Tagged, Analysing
<1>12. CASE Ask(i) \/ End(i)
  BY <1>12, Moves, Works DEF Locking, Tagged, Analysing
<1> QED BY <1>5, <1>6, <1>7, <1>8, <1>9, <1>10, <1>11, <1>12 DEF JobStep

\* Nothing is left behind by a step that is not a crash.
LEMMA LeftStep == IInv /\ [Next]_vars => Left'
<1> SUFFICES ASSUME IInv, [Next]_vars PROVE Left'
  OBVIOUS
<1> USE DEF IInv
<1>1. ASSUME NEW i \in Jobs, JobStep(i), ncrashes = 0
      PROVE  (LockedByOne /\ MadeByOne /\ BehindInHands /\ StoppedAtEnd)'
  <2>1. LockedByOne /\ MadeByOne /\ BehindInHands /\ StoppedAtEnd /\ TypeOK
    BY <1>1 DEF Left
  <2>2. \A k \in Jobs : PlaceOf(k)
    BY DEF Places
  <2>3. camp' = camp /\ Jobs' = Jobs /\ Confs' = Confs
    BY <1>1, Others
  <2>4. ASSUME NEW c \in Confs, running'[c] # NONE
        PROVE  finished'[c] \/ \E k \in Jobs : Has(k, c)'
    <3>1. CASE OpenLock(i) /\ At(i) = c
      <4>1. Has(i, c)'
        BY <3>1, Moves DEF Has
      <4> QED BY <4>1
    <3>2. CASE WriteTag(i) /\ At(i) = c
      <4>1. Has(i, c)
        BY <3>2, Moves DEF Has
      <4> QED BY <1>1, <3>2, <4>1, HasStays
    <3>3. CASE running'[c] = running[c]
      <4>1. CASE finished[c]
        BY <1>1, <4>1, Files
      <4>2. ASSUME NEW k \in Jobs, Has(k, c) PROVE finished'[c] \/ Has(k, c)'
        BY <1>1, <3>3, <4>2, HasStays
      <4> QED BY <2>1, <2>4, <3>3, <4>1, <4>2 DEF LockedByOne
    <3> QED BY <1>1, <3>1, <3>2, <3>3, Files
  <2>5. ASSUME NEW j \in Jobs, pc'[j] = "mkdir", dir'[At(j)']
        PROVE  running'[At(j)'] # NONE \/ \E k \in Jobs : pc'[k] = "lock" /\ At(k)' = At(j)'
    <3>1. At(j)' = At(j) /\ (pc[j] = "mkdir" \/ (j = i /\ DirExists(j) /\ ~ dir[At(j)]))
      <4>1. CASE j # i
        BY <1>1, <2>5, <4>1, Others
      <4>2. CASE j = i
        <5>1. At(j)' = At(j)
          BY <1>1, <2>5, <4>2, Flow DEF Locking
        <5> QED BY <1>1, <2>5, <4>2, <5>1, Moves, Works DEF JobStep
      <4> QED BY <4>1, <4>2
    <3>2. At(j) \in Confs
      BY <2>2, <3>1, Moves DEF PlaceOf, Locking
    <3>3. CASE CreateDir(i) /\ At(i) = At(j) /\ pc'[i] = "lock"
      <4>1. At(i)' = At(i)
        BY <1>1, <3>3, Flow DEF Locking
      <4> QED BY <3>1, <3>3, <4>1
    <3>4. CASE ~ (CreateDir(i) /\ At(i) = At(j) /\ pc'[i] = "lock")
      <4>1. dir'[At(j)] = dir[At(j)]
        BY <1>1, <3>2, <3>4, Files, Moves
      <4>2. pc[j] = "mkdir" /\ dir[At(j)]
        BY <2>5, <3>1, <4>1
      <4>3. CASE running[At(j)] # NONE
        BY <1>1, <3>1, <3>2, <4>3, Files
      <4>4. ASSUME NEW k \in Jobs, pc[k] = "lock", At(k) = At(j)
            PROVE  running'[At(j)'] # NONE \/ \E l \in Jobs : pc'[l] = "lock" /\ At(l)' = At(j)'
        <5>1. CASE k # i
          BY <1>1, <3>1, <4>4, <5>1, Others
        <5>2. CASE k = i
          <6>1. OpenLock(i)
            BY <1>1, <4>4, <5>2, Moves, Works DEF JobStep
          <6> QED BY <2>1, <3>1, <3>2, <4>4, <5>2, <6>1, Moves DEF TypeOK
        <5> QED BY <5>1, <5>2
      <4> QED BY <2>1, <4>2, <4>3, <4>4 DEF MadeByOne
    <3> QED BY <3>3, <3>4
  <2>6. ASSUME NEW c \in Confs, InHands(c) PROVE InHands(c)'
    <3>1. CASE finished[c]
      BY <1>1, <3>1, Files DEF InHands
    <3>2. ASSUME NEW k \in Jobs, Holds(k, c) PROVE InHands(c)'
      <4>1. CASE k # i
        BY <1>1, <2>3, <3>2, <4>1, Others DEF Holds, InHands
      <4>2. CASE k = i /\ pc'[i] \in Locking \cup Tagged /\ At(i)' = At(i)
        BY <2>3, <3>2, <4>2 DEF Holds, InHands
      <4>3. CASE k = i /\ ~ (pc'[i] \in Locking \cup Tagged /\ At(i)' = At(i))
        BY <1>1, <2>1, <3>2, <4>3, HandsOver DEF Holds
      <4> QED BY <4>1, <4>2, <4>3
    <3> QED BY <2>6, <3>1, <3>2 DEF InHands
  <2>7. ASSUME NEW j \in Jobs, NEW c \in Confs, c <= iconf'[j] PROVE InHands(c)'
    <3>1. CASE c <= iconf[j]
      BY <2>1, <2>6, <3>1 DEF BehindInHands
    <3>2. CASE ~ c <= iconf[j]
      <4>1. iconf[j] \in Nat /\ c \in Nat
        BY <2>1, CampFields DEF TypeOK, Confs
      <4>2. j = i
        BY <1>1, <2>7, <3>2, Others
      <4>3. /\ iconf'[i] = iconf[i] + 1 /\ At(i) = iconf[i] + 1
            /\ pc[i] \in Locking \cup Tagged \cup {"look"}
            /\ \/ pc'[i] = "source" \/ pc'[i] \in {"look", "end"}
        <5>1. iconf'[i] # iconf[i]
          BY <2>7, <3>2, <4>1, <4>2
        <5>2. LookRunning(i) \/ LookFinished(i) \/ CreateDir(i) \/ CheckLock(i)
          BY <1>1, <5>1, Moves, Works DEF JobStep
        <5>3. CASE LookRunning(i) \/ LookFinished(i) \/ CreateDir(i)
          BY <5>1, <5>3, Moves DEF Locking
        <5>4. CASE CheckLock(i)
          BY <5>4, Works DEF Tagged
        <5> QED BY <5>2, <5>3, <5>4
      <4>4. c = At(i)
        BY <2>7, <3>2, <4>1, <4>2, <4>3
      <4>5. CASE pc'[i] \in Locking \cup Tagged /\ At(i)' = At(i)
        BY <2>3, <4>4, <4>5 DEF Holds, InHands
      <4>6. CASE ~ (pc'[i] \in Locking \cup Tagged /\ At(i)' = At(i))
        BY <1>1, <2>1, <4>3, <4>4, <4>6, HandsOver
      <4> QED BY <4>5, <4>6
    <3> QED BY <3>1, <3>2
  <2>8. \A j \in Jobs : iconf'[j] >= iconf[j]
    <3>1. iconf[i] \in Nat /\ iconf'[i] \in {iconf[i], iconf[i] + 1}
      BY <1>1, <2>1, CampFields, Moves, Works DEF JobStep, TypeOK
    <3>2. \A j \in Jobs : iconf[j] \in Nat
      BY <2>1, CampFields DEF TypeOK
    <3> QED BY <1>1, <3>1, <3>2, Others
  <2>9. StoppedAtEnd'
    <3>1. CASE "stop" \in signals
      <4>1. \A j \in Jobs : iconf[j] \in Nat /\ iconf'[j] \in Int
        BY <2>1, TypeStep, CampFields, <2>3 DEF TypeOK
      <4> QED BY <2>1, <2>3, <2>8, <3>1, <4>1, CampFields DEF StoppedAtEnd, TypeOK
    <3>2. CASE "stop" \notin signals /\ "stop" \in signals'
      <4>1. End(i)
        BY <1>1, <3>2 DEF JobStep, Ask, LookRunning, LookFinished, DirExists, CreateDir, OpenLock,
             WriteTag, Load, CheckLock, GenerateSources, GenerateProps, PrintContractions,
             MarkFinished, disk
      <4> QED BY <2>3, <3>2, <4>1 DEF End, StoppedAtEnd
    <3> QED BY <3>1, <3>2 DEF StoppedAtEnd
  <2> QED BY <2>3, <2>4, <2>5, <2>7, <2>9 DEF LockedByOne, MadeByOne, BehindInHands
<1>2. ASSUME NEW i \in Jobs, Crash(i) PROVE Left'
  BY <1>2 DEF Crash, Places, Left
<1>3. CASE Resubmit
  <2>1. /\ pc' = [j \in Jobs |-> "ask"] /\ iconf' = [j \in Jobs |-> 0] /\ signals' = {}
        /\ finished' = finished /\ camp' = camp /\ Jobs' = Jobs /\ Confs' = Confs
        /\ running' = [c \in Confs |-> IF finished[c] THEN running[c] ELSE NONE]
    BY <1>3, SameCamp DEF Resubmit
  <2>2. LockedByOne' /\ MadeByOne' /\ StoppedAtEnd'
    BY <2>1 DEF LockedByOne, MadeByOne, StoppedAtEnd
  <2>3. BehindInHands'
    BY <2>1 DEF BehindInHands, Confs
  <2> QED BY <2>2, <2>3 DEF Left
<1>4. CASE Signal \/ UNCHANGED vars
  <2>1. /\ pc' = pc /\ iconf' = iconf /\ running' = running /\ finished' = finished /\ dir' = dir
        /\ round' = round /\ camp' = camp /\ Jobs' = Jobs /\ Confs' = Confs /\ ncrashes' = ncrashes
    BY <1>4, SameCamp DEF Signal, vars, disk
  <2>2. \A j \in Jobs : At(j)' = At(j) /\ Tag(j)' = Tag(j)
    BY <2>1 DEF At, Current, Tag
  <2>3. camp.short \/ signals' = signals
    BY <1>4 DEF Signal, vars, disk
  <2>4. ASSUME LockedByOne, MadeByOne, BehindInHands, StoppedAtEnd
        PROVE  (LockedByOne /\ MadeByOne /\ BehindInHands /\ StoppedAtEnd)'
    BY <2>1, <2>2, <2>3, <2>4
       DEF LockedByOne, MadeByOne, BehindInHands, StoppedAtEnd, InHands, Holds, Has
  <2> QED BY <2>1, <2>4 DEF Left
<1>5. ASSUME NEW i \in Jobs, JobStep(i) PROVE Left'
  <2>1. ncrashes' = ncrashes
    BY <1>5 DEF JobStep, Ask, LookRunning, LookFinished, DirExists, CreateDir, OpenLock, WriteTag,
         Load, CheckLock, GenerateSources, GenerateProps, PrintContractions, MarkFinished, End
  <2> QED BY <1>1, <1>5, <2>1 DEF Left
<1> QED BY <1>2, <1>3, <1>4, <1>5 DEF Next, Done

-----------------------------------------------------------------------------
\* Skipping discards what analysing would take.
LEMMA PlacedStep == IInv /\ [Next]_vars => Placed'
<1> SUFFICES ASSUME IInv, [Next]_vars, ~ lost', ~ camp.transform
             PROVE  (\A j \in Jobs : PlacedOf(j))' /\ (\A c \in Confs : StoredOf(c))'
  BY SameCamp DEF Placed
<1> USE DEF IInv
<1>0. TypeOK /\ camp' = camp /\ Jobs' = Jobs /\ Confs' = Confs /\ \A k \in Jobs : PlaceOf(k)
  BY SameCamp DEF Places
<1>1. ASSUME NEW i \in Jobs, JobStep(i) \/ Crash(i)
      PROVE  (\A j \in Jobs : PlacedOf(j))' /\ (\A c \in Confs : StoredOf(c))'
  <2>1. ~ lost
    <3>1. CASE CheckLock(i)
      BY <3>1, Works
    <3>2. CASE ~ CheckLock(i)
      BY <1>1, <3>2 DEF JobStep, Ask, LookRunning, LookFinished, DirExists, CreateDir, OpenLock,
           WriteTag, Load, GenerateSources, GenerateProps, PrintContractions, MarkFinished, End, Crash
    <3> QED BY <3>1, <3>2
  <2>2. (\A j \in Jobs : PlacedOf(j)) /\ (\A c \in Confs : StoredOf(c))
    BY <2>1 DEF Placed
  <2>3. \A j \in Jobs : iconf[j] \in Nat /\ rnd[j] \in Nat
    BY <1>0, CampFields DEF TypeOK
  <2>4. ASSUME NEW j \in Jobs, j # i PROVE PlacedOf(j)'
    BY <1>1, <2>2, <2>4, Others DEF PlacedOf
  <2>5. CASE ~ GenerateSources(i) /\ ~ GenerateProps(i) /\ ~ PrintContractions(i)
    <3>1. stored' = stored /\ correlators' = correlators /\ src' = src /\ props' = props
      BY <1>1, <2>5 DEF JobStep, Ask, LookRunning, LookFinished, DirExists, CreateDir, OpenLock,
           WriteTag, Load, CheckLock, MarkFinished, End, Crash, disk
    <3>2. PlacedOf(i)
      BY <2>2
    <3>3. PlacedOf(i)'
      <4>1. CASE Ask(i) \/ LookRunning(i) \/ LookFinished(i) \/ DirExists(i)
        BY <2>3, <3>1, <3>2, <4>1, Moves DEF PlacedOf
      <4>2. CASE CreateDir(i) \/ OpenLock(i) \/ WriteTag(i)
        BY <2>3, <3>1, <3>2, <4>2, Moves DEF PlacedOf
      <4>3. CASE Load(i) \/ CheckLock(i)
        BY <2>3, <3>1, <3>2, <4>3, Works DEF PlacedOf
      <4>4. CASE MarkFinished(i) \/ End(i) \/ Crash(i)
        BY <2>3, <3>1, <3>2, <4>4, Works DEF PlacedOf
      <4> QED BY <1>1, <2>5, <4>1, <4>2, <4>3, <4>4 DEF JobStep
    <3> QED BY <1>0, <2>2, <2>4, <3>1, <3>3 DEF StoredOf
  <2>6. CASE GenerateSources(i)
    <3>1. stored' = stored /\ correlators' = correlators
      BY <2>6 DEF GenerateSources, disk
    <3>2. PlacedOf(i)'
      BY <2>2, <2>3, <2>6, Works DEF PlacedOf
    <3> QED BY <1>0, <2>2, <2>4, <3>1, <3>2 DEF StoredOf
  <2>7. CASE GenerateProps(i)
    <3>1. correlators' = correlators /\ src' = src
      BY <2>7 DEF GenerateProps
    <3>2. At(i) \in Confs /\ At(i) = iconf[i] /\ src[i] = iconf[i]
      BY <1>0, <2>2, <2>7, Works DEF PlaceOf, PlacedOf, Tagged, Analysing
    <3>3. props'[i] = iconf[i]
      BY <2>2, <2>7, <3>2, Works DEF StoredOf
    <3>4. PlacedOf(i)'
      BY <2>2, <2>3, <2>7, <3>1, <3>2, <3>3, Works DEF PlacedOf
    <3>5. ASSUME NEW c \in Confs PROVE stored'[c] \in {NONE, c}
      BY <1>0, <2>2, <2>7, <3>2, <3>3, Works DEF StoredOf, TypeOK
    <3> QED BY <1>0, <2>2, <2>4, <3>1, <3>4, <3>5 DEF StoredOf
  <2>8. CASE PrintContractions(i)
    <3>1. stored' = stored /\ src' = src /\ props' = props
      BY <2>8 DEF PrintContractions
    <3>2. PlacedOf(i)'
      BY <2>2, <2>3, <2>8, <3>1, Works DEF PlacedOf
    <3>3. src[i] = iconf[i] /\ props[i] = iconf[i]
      BY <2>2, <2>8, Works DEF PlacedOf
    <3>4. correlators' = [correlators EXCEPT ![iconf[i]] =
                            @ \cup {[source |-> iconf[i], prop |-> iconf[i]]}]
      BY <2>8, <3>3 DEF PrintContractions
    <3>5. ASSUME NEW c \in Confs PROVE correlators'[c] \subseteq {[source |-> c, prop |-> c]}
      <4>1. correlators[c] \subseteq {[source |-> c, prop |-> c]}
        BY <2>2 DEF StoredOf
      <4>2. correlators'[c] = IF c = iconf[i]
                                THEN correlators[c] \cup {[source |-> c, prop |-> c]}
                                ELSE correlators[c]
        BY <3>4 DEF Places
      <4> QED BY <4>1, <4>2
    <3> QED BY <1>0, <2>2, <2>4, <3>1, <3>2, <3>5 DEF StoredOf
  <2> QED BY <2>5, <2>6, <2>7, <2>8
<1>2. CASE Resubmit
  <2>1. \A j \in Jobs : pc'[j] = "ask" /\ rnd'[j] = 0 /\ iconf'[j] = 0
    BY <1>2 DEF Resubmit
  <2>2. \A j \in Jobs : PlacedOf(j)'
    BY <2>1 DEF PlacedOf
  <2> QED BY <1>0, <1>2, <2>2 DEF Resubmit, Placed, StoredOf
<1>3. CASE Signal \/ UNCHANGED vars
  BY <1>0, <1>3 DEF Signal, vars, disk, Placed, PlacedOf, StoredOf
<1> QED BY <1>1, <1>2, <1>3 DEF Next, Done

-----------------------------------------------------------------------------
\* The invariant holds when the first session starts.
LEMMA InitIInv == Init => IInv
<1> SUFFICES ASSUME Init PROVE IInv
  OBVIOUS
<1> USE CampFields DEF Init
<1>1. TypeOK
  BY DEF TypeOK, Confs, Jobs, PCs, Locking
<1>2. camp.rounds \in Nat \ {0} /\ \A j \in Jobs : pc[j] = "ask"
  OBVIOUS
<1>3. Places
  <2>1. round \in 1 .. camp.rounds
    BY <1>2
  <2>2. \A j \in Jobs : PlaceOf(j)
    BY <1>2 DEF PlaceOf, Locking, Tagged, Analysing
  <2> QED BY <2>1, <2>2 DEF Places
<1>4. Counts
  BY DEF Counts, CountOf, Analysing
<1>5. Locked /\ Alone
  BY <1>2 DEF Locked, Alone, NobodyLocks, TagStays, NotFinished, Locking, Tagged, Analysing
<1>6. Left
  BY <1>2 DEF Left, LockedByOne, MadeByOne, BehindInHands, StoppedAtEnd, Confs
<1>7. Placed
  BY <1>2 DEF Placed, PlacedOf, StoredOf
<1> QED BY <1>1, <1>3, <1>4, <1>5, <1>6, <1>7 DEF IInv

\* The inductive invariant of the campaign.
THEOREM CampaignInvariant == Spec => []IInv
<1>1. IInv /\ [Next]_vars => IInv'
  BY TypeStep, PlacesStep, CountsStep, LockedStep, AloneStep, LeftStep, PlacedStep DEF IInv
<1> QED BY InitIInv, <1>1, PTL DEF Spec

\* In any campaign every file and every counter stays in its type, and a job is
\* in the list up to its end.
THEOREM TypeCorrect == Spec => []TypeOK
<1>1. IInv => TypeOK
  BY DEF IInv
<1> QED BY CampaignInvariant, <1>1, PTL

\* For any number of jobs and configurations: if loading outlasts locking, two
\* jobs that find a configuration free, and lock it in any order, are not both
\* told by check_lock that they hold it.
THEOREM SoleAnalyserHolds == Spec => []SoleAnalyser
<1>1. IInv => SoleAnalyser
  <2> SUFFICES ASSUME IInv, NEW j \in Jobs, pc[j] \in Analysing, camp.prompt
               PROVE  /\ ~ finished[iconf[j]]
                      /\ \A k \in Jobs \ {j} : pc[k] \in Analysing => iconf[k] # iconf[j]
    BY DEF SoleAnalyser
  <2>1. TagStays /\ NotFinished /\ TypeOK /\ Places
    BY DEF IInv, Alone
  <2>2. \A k \in Jobs : pc[k] \in Analysing => At(k) = iconf[k] /\ running[iconf[k]] = Tag(k)
    BY <2>1 DEF TagStays, At
  <2>3. ~ finished[iconf[j]]
    BY <2>1, <2>2 DEF NotFinished, Tagged
  <2>4. ASSUME NEW k \in Jobs, k # j, pc[k] \in Analysing PROVE iconf[k] # iconf[j]
    BY <2>1, <2>2, <2>4, TagType
  <2> QED BY <2>3, <2>4
<1> QED BY CampaignInvariant, <1>1, PTL

\* Whichever job analyses a configuration, in whatever session, its sources are
\* those of the configuration's place, unless a lock was lost or random
\* transformations are drawn.
THEOREM SourcesOfPlaceHolds == Spec => []SourcesOfPlace
<1>1. IInv => SourcesOfPlace
  BY DEF IInv, Placed, StoredOf, SourcesOfPlace
<1> QED BY CampaignInvariant, <1>1, PTL

\* A job that has stopped the campaign at the end of its list leaves nothing
\* that is neither finished nor in somebody's hands, if nobody crashed.
THEOREM NothingForgottenHolds == Spec => []NothingForgotten
<1>1. IInv => NothingForgotten
  <2> SUFFICES ASSUME IInv, "stop" \in signals, ~ camp.short, ncrashes = 0, NEW c \in Confs
               PROVE  \/ finished[c]
                      \/ \E j \in Jobs :
                           \/ pc[j] \in Analysing /\ iconf[j] = c
                           \/ pc[j] \in Locking \cup {"load", "check"} /\ Current(j) = c
    BY DEF NothingForgotten
  <2>1. BehindInHands /\ StoppedAtEnd
    BY DEF IInv, Left
  <2>2. PICK j \in Jobs : iconf[j] >= camp.nconfs
    BY <2>1 DEF StoppedAtEnd
  <2>3. c <= iconf[j]
    BY <2>2, CampFields DEF IInv, TypeOK, Confs
  <2>4. InHands(c)
    BY <2>1, <2>3 DEF BehindInHands
  <2>5. ASSUME NEW k \in Jobs, Holds(k, c)
        PROVE  \/ pc[k] \in Analysing /\ iconf[k] = c
               \/ pc[k] \in Locking \cup {"load", "check"} /\ Current(k) = c
    BY <2>5 DEF Holds, At, Tagged
  <2> QED BY <2>4, <2>5 DEF InHands
<1> QED BY CampaignInvariant, <1>1, PTL
-----------------------------------------------------------------------------
(***************************************************************************)
(* The configuration a job works on (get_updated_conf), for any team and   *)
(* any number of configurations, hits and calls.  The threads of a call    *)
(* share the flag inner_conf_valid and the stored arguments without a      *)
(* lock.  No harm is done, because the copy itself is made by all of them  *)
(* together: before, whoever has compared has cleared the flag or found    *)
(* nothing to clear (CopyDue, CopyKept), so that all come to it or none;   *)
(* after, each stores the same arguments (CopyMade).                       *)
(***************************************************************************)

\* Between two calls a valid copy is what the stored arguments ask for, now.
BetweenCalls ==
  /\ \A t \in Threads : thread_pc[t] = "idle" /\ ~ update[t]
  /\ args = NONE
  /\ inner_conf_valid => stored_args \in I!Args /\ inner_conf = I!Content(stored_args)

\* In a call the copy is kept, or it is to be made again and nobody knows better,
\* or it has been made.
CopyKept ==
  /\ inner_conf_valid /\ stored_args = args /\ inner_conf = I!Content(args)
  /\ \A t \in team : thread_pc[t] \in {"test", "decide", "store", "use"} /\ ~ update[t]

CopyDue ==
  /\ inner_conf_valid => /\ stored_args \in I!Args /\ inner_conf = I!Content(stored_args)
                         /\ stored_args # args /\ \A t \in team : thread_pc[t] = "test"
  /\ \A t \in team : thread_pc[t] \in {"test", "decide", "copy"} /\ update[t] = (thread_pc[t] = "copy")

CopyMade ==
  /\ inner_conf = I!Content(args)
  /\ inner_conf_valid => stored_args = args
  /\ \A t \in team : /\ thread_pc[t] \in {"store", "use"} /\ update[t]
                     /\ thread_pc[t] = "use" => inner_conf_valid

\* The call that goes on, and those who are not in it.
InCall ==
  /\ args \in I!Args /\ nconf > 0
  /\ \A t \in Threads \ team : thread_pc[t] = "idle" /\ ~ update[t]
  /\ CopyKept \/ CopyDue \/ CopyMade

\* The inductive invariant of get_updated_conf.
CallInv ==
  /\ I!TypeOK
  /\ ncalls < MaxCalls => nconf > 0
  /\ team = {} => BetweenCalls
  /\ team # {} => InCall

-----------------------------------------------------------------------------
\* What is kept when nothing changes but the call.
LEMMA ContentType ==
  ASSUME I!TypeOK, nconf > 0, NEW a \in I!Args
  PROVE  /\ I!Content(a) \in [conf : I!InConfs, of : 1 .. nconf, theta : Thetas,
                            charge : Charges, photon : 0 .. nhit]
         /\ I!Content(a) # NONE
<1>1. nconf \in Nat /\ nhit \in Nat /\ nconf \in 1 .. nconf /\ nhit \in 0 .. nhit /\ 0 \in 0 .. nhit
  BY InnerAssumption DEF I!TypeOK, I!InnerConfAssumption
<1>2. I!Content(a) \in [conf : I!InConfs, of : 1 .. nconf, theta : Thetas,
                      charge : Charges, photon : 0 .. nhit]
  BY <1>1 DEF I!Content, I!Args
<1>3. I!Content(a) \in I!Contents
  BY <1>1 DEF I!Content, I!Args, I!Contents
<1> QED BY <1>2, <1>3, InnerAssumption DEF I!InnerConfAssumption

\* The bound of the hits is that of the last configuration.
LEMMA MoreHits ==
  ASSUME NEW a \in Nat, NEW b \in Nat, NEW c \in Nat, a <= b
  PROVE  a * c <= b * c
OBVIOUS

\* Before the first configuration nobody calls.
LEMMA InitCall == I!Init => CallInv
<1> SUFFICES ASSUME I!Init PROVE CallInv
  OBVIOUS
<1>1. I!TypeOK
  <2>1. nconf \in 0 .. MaxConfs /\ nhit \in 0 .. MaxConfs * MaxHits /\ ncalls \in 0 .. MaxCalls
    <3>1. MaxConfs \in Nat /\ MaxConfs * MaxHits \in Nat /\ MaxCalls \in Nat
      BY InnerAssumption DEF I!InnerConfAssumption
    <3> QED BY <3>1 DEF I!Init
  <2>2. stored_args \in [conf : I!InConfs \cup {NONE}, charge : Charges, theta : Thetas]
    BY InnerAssumption DEF I!Init, I!InnerConfAssumption
  <2> QED BY <2>1, <2>2 DEF I!Init, I!TypeOK
<1>2. BetweenCalls /\ ncalls = MaxCalls /\ team = {}
  BY DEF I!Init, BetweenCalls
<1> QED BY <1>1, <1>2, InnerAssumption DEF CallInv, I!InnerConfAssumption

\* SetupConf and GeneratePhotons clear the flag of a copy they make stale.
LEMMA ChangeStep == CallInv /\ (I!SetupConf \/ I!GeneratePhotons) => CallInv'
<1> SUFFICES ASSUME CallInv, I!SetupConf \/ I!GeneratePhotons PROVE CallInv'
  OBVIOUS
<1>1. /\ I!Idle /\ ~ inner_conf_valid' /\ UNCHANGED <<stored_args, inner_conf, team, args, thread_pc, update>>
      /\ nconf' \in Nat /\ nhit' \in Nat /\ nconf' >= nconf /\ nhit' >= nhit
      /\ nconf' <= MaxConfs /\ nhit' <= MaxConfs * MaxHits
      /\ ncalls' \in 0 .. MaxCalls
      /\ ncalls' < MaxCalls => nconf' > 0
  <2>1. CASE I!SetupConf
    BY <2>1, InnerAssumption DEF I!SetupConf, CallInv, I!TypeOK, I!InnerConfAssumption
  <2>2. CASE I!GeneratePhotons
    <3>1. /\ nhit < nconf * MaxHits /\ nhit' = nhit + 1 /\ nconf' = nconf /\ nconf > 0 /\ ncalls' = 0
          /\ I!Idle /\ ~ inner_conf_valid' /\ UNCHANGED <<stored_args, inner_conf, team, args, thread_pc, update>>
      BY <2>2 DEF I!GeneratePhotons
    <3>2. nconf \in Nat /\ MaxConfs \in Nat /\ MaxHits \in Nat /\ nconf <= MaxConfs /\ nhit \in Nat
          /\ MaxCalls \in Nat
      BY InnerAssumption DEF CallInv, I!TypeOK, I!InnerConfAssumption
    <3>3. nconf * MaxHits <= MaxConfs * MaxHits /\ nconf * MaxHits \in Nat /\ MaxConfs * MaxHits \in Nat
      BY <3>2, MoreHits
    <3>4. nhit' <= MaxConfs * MaxHits
      BY <3>1, <3>2, <3>3
    <3> QED BY <3>1, <3>2, <3>4
  <2> QED BY <2>1, <2>2
<1>2. team = {} \/ InCall
  BY DEF CallInv
<1>3. team = {}
  <2> SUFFICES ASSUME team # {} PROVE FALSE
    OBVIOUS
  <2>1. PICK t \in team : t \in Threads
    BY DEF CallInv, I!TypeOK
  <2> QED BY <1>1, <1>2, <2>1 DEF I!Idle, InCall, CopyKept, CopyDue, CopyMade
<1>4. BetweenCalls'
  BY <1>1, <1>3 DEF CallInv, BetweenCalls
<1>5. I!TypeOK'
  <2>1. inner_conf' = NONE \/
          inner_conf' \in [conf : I!InConfs, of : 1 .. nconf', theta : Thetas,
                          charge : Charges, photon : 0 .. nhit']
    <3>1. nconf \in Nat /\ nhit \in Nat
      BY InnerAssumption DEF CallInv, I!TypeOK, I!InnerConfAssumption
    <3>2. 1 .. nconf \subseteq 1 .. nconf' /\ 0 .. nhit \subseteq 0 .. nhit'
      BY <1>1, <3>1
    <3> QED BY <1>1, <3>2 DEF CallInv, I!TypeOK
  <2>2. MaxConfs \in Nat /\ MaxConfs * MaxHits \in Nat
    BY InnerAssumption DEF I!InnerConfAssumption
  <2>3. nconf' \in 0 .. MaxConfs /\ nhit' \in 0 .. MaxConfs * MaxHits
    BY <1>1, <2>2
  <2>4. inner_conf_valid' \in BOOLEAN
    BY DEF I!SetupConf, I!GeneratePhotons
  <2> QED BY <1>1, <2>1, <2>3, <2>4 DEF CallInv, I!TypeOK
<1> QED BY <1>1, <1>3, <1>4, <1>5 DEF CallInv

\* A call begins with the copy kept, if its arguments are the stored ones and the
\* flag is set, and else with the copy due.
LEMMA CallStep == CallInv /\ I!Call => CallInv'
<1> SUFFICES ASSUME CallInv, I!Call PROVE CallInv'
  OBVIOUS
<1>1. /\ I!Idle /\ ncalls < MaxCalls /\ ncalls' = ncalls + 1 /\ args' \in I!Args
      /\ team' \in {{Master}, Threads}
      /\ thread_pc' = [t \in Threads |-> IF t \in team' THEN "test" ELSE "idle"]
      /\ UNCHANGED <<nconf, nhit, inner_conf_valid, stored_args, inner_conf, update>>
  BY DEF I!Call
<1>2. team' # {} /\ team' \subseteq Threads
  BY <1>1, InnerAssumption DEF I!InnerConfAssumption
<1>3. team = {}
  <2> SUFFICES ASSUME team # {} PROVE FALSE
    OBVIOUS
  <2>1. PICK t \in team : t \in Threads
    BY DEF CallInv, I!TypeOK
  <2> QED BY <1>1, <2>1 DEF CallInv, I!Idle, InCall, CopyKept, CopyDue, CopyMade
<1>4. /\ BetweenCalls /\ nconf > 0
  BY <1>1, <1>3 DEF CallInv
<1>5. I!TypeOK'
  <2>1. ncalls' \in 0 .. MaxCalls
    BY <1>1, InnerAssumption DEF CallInv, I!TypeOK, I!InnerConfAssumption
  <2>2. thread_pc' \in [Threads -> {"idle", "test", "decide", "copy", "store", "use"}]
    BY <1>1
  <2> QED BY <1>1, <1>2, <2>1, <2>2 DEF CallInv, I!TypeOK
<1>6. \A t \in Threads : ~ update'[t] /\ thread_pc'[t] = (IF t \in team' THEN "test" ELSE "idle")
  BY <1>1, <1>4 DEF BetweenCalls
<1>7. \A a : I!Content(a)' = I!Content(a)
  BY <1>1 DEF I!Content
<1>8. CASE inner_conf_valid /\ stored_args = args'
  <2>1. CopyKept'
    BY <1>1, <1>2, <1>4, <1>6, <1>8 DEF BetweenCalls, CopyKept, I!Content
  <2> QED BY <1>1, <1>2, <1>4, <1>5, <1>6, <2>1 DEF CallInv, InCall
<1>9. CASE ~ (inner_conf_valid /\ stored_args = args')
  <2>1. CopyDue'
    <3>1. \A t \in team' : thread_pc'[t] = "test" /\ update'[t] = (thread_pc'[t] = "copy")
      BY <1>2, <1>5, <1>6 DEF I!TypeOK
    <3>2. inner_conf_valid' => stored_args' \in I!Args /\ inner_conf' = I!Content(stored_args)' /\ stored_args' # args'
      BY <1>1, <1>4, <1>9 DEF BetweenCalls, I!Content
    <3> QED BY <3>1, <3>2 DEF CopyDue
  <2> QED BY <1>1, <1>2, <1>4, <1>5, <1>6, <2>1 DEF CallInv, InCall
<1> QED BY <1>8, <1>9

\* One thread of the team takes a step.
LEMMA ThreadStep ==
  ASSUME CallInv, NEW t \in Threads, I!Test(t) \/ I!Decide(t) \/ I!Store(t)
  PROVE  CallInv'
<1>1. /\ UNCHANGED <<nconf, nhit, ncalls, inner_conf, team, args>>
      /\ thread_pc[t] \in {"test", "decide", "store"}
      /\ \E l \in {"decide", "copy", "store", "use"} : thread_pc' = [thread_pc EXCEPT ![t] = l]
      /\ \A u \in Threads : u # t => thread_pc'[u] = thread_pc[u] /\ update'[u] = update[u]
  BY DEF I!Test, I!Decide, I!Store, CallInv, I!TypeOK
<1>2. t \in team /\ InCall
  <2>1. team # {}
    BY <1>1 DEF CallInv, BetweenCalls
  <2> QED BY <1>1, <2>1 DEF CallInv, InCall
<1>3. team \subseteq Threads /\ thread_pc \in [Threads -> {"idle", "test", "decide", "copy", "store", "use"}]
      /\ update \in [Threads -> BOOLEAN] /\ inner_conf_valid \in BOOLEAN
      /\ nconf > 0 /\ args \in I!Args
  BY <1>2 DEF CallInv, I!TypeOK, InCall
<1>4. I!Content(args)' = I!Content(args) /\ I!Content(stored_args)' = I!Content(stored_args')
  BY <1>1 DEF I!Content
<1>5. CASE I!Test(t)
  <2>1. /\ thread_pc[t] = "test" /\ thread_pc' = [thread_pc EXCEPT ![t] = "decide"]
        /\ inner_conf_valid' = (inner_conf_valid /\ args = stored_args)
        /\ stored_args' = stored_args /\ update' = update
    BY <1>5 DEF I!Test, I!Differs
  <2>2. CopyKept => CopyKept'
    BY <1>1, <1>3, <1>4, <2>1 DEF CopyKept
  <2>3. CopyDue => CopyDue'
    BY <1>1, <1>3, <2>1 DEF CopyDue
  <2>4. ~ CopyMade
    BY <1>2, <2>1 DEF CopyMade
  <2>5. InCall'
    BY <1>1, <1>2, <1>3, <2>1, <2>2, <2>3, <2>4 DEF InCall
  <2>6. I!TypeOK'
    BY <1>1, <1>3, <2>1 DEF CallInv, I!TypeOK
  <2> QED BY <1>1, <1>2, <2>5, <2>6 DEF CallInv
<1>6. CASE I!Decide(t)
  <2>1. /\ thread_pc[t] = "decide" /\ update' = [update EXCEPT ![t] = ~ inner_conf_valid]
        /\ thread_pc' = [thread_pc EXCEPT ![t] = IF inner_conf_valid THEN "store" ELSE "copy"]
        /\ UNCHANGED <<stored_args, inner_conf_valid>>
    BY <1>6 DEF I!Decide
  <2>2. CopyKept => CopyKept'
    BY <1>1, <1>3, <1>4, <2>1 DEF CopyKept
  <2>3. CopyDue => CopyDue'
    <3> SUFFICES ASSUME CopyDue PROVE CopyDue'
      OBVIOUS
    <3>1. ~ inner_conf_valid
      BY <1>2, <2>1 DEF CopyDue
    <3> QED BY <1>1, <1>3, <2>1, <3>1 DEF CopyDue
  <2>4. ~ CopyMade
    BY <1>2, <2>1 DEF CopyMade
  <2>5. InCall'
    BY <1>1, <1>2, <1>3, <2>1, <2>2, <2>3, <2>4 DEF InCall
  <2>6. I!TypeOK'
    BY <1>1, <1>3, <2>1 DEF CallInv, I!TypeOK
  <2> QED BY <1>1, <1>2, <2>5, <2>6 DEF CallInv
<1>7. CASE I!Store(t)
  <2>1. /\ thread_pc[t] = "store" /\ stored_args' = args /\ inner_conf_valid' /\ thread_pc' = [thread_pc EXCEPT ![t] = "use"]
        /\ update' = update
    BY <1>7 DEF I!Store
  <2>2. CopyKept => CopyKept'
    BY <1>1, <1>3, <1>4, <2>1 DEF CopyKept
  <2>3. ~ CopyDue
    BY <1>2, <2>1 DEF CopyDue
  <2>4. CopyMade => CopyMade'
    BY <1>1, <1>3, <1>4, <2>1 DEF CopyMade
  <2>5. InCall'
    BY <1>1, <1>2, <1>3, <2>1, <2>2, <2>3, <2>4 DEF InCall
  <2>6. inner_conf' # NONE /\ stored_args' \in I!Args /\ args.conf # NONE /\ inner_conf_valid' \in BOOLEAN
    <3>1. inner_conf = I!Content(args)
      BY <1>2, <2>3 DEF InCall, CopyKept, CopyMade
    <3>2. args.conf \in I!InConfs
      BY <1>3 DEF I!Args
    <3> QED BY <1>1, <1>3, <2>1, <3>1, <3>2, ContentType, InnerAssumption DEF CallInv, I!InnerConfAssumption
  <2>7. I!TypeOK'
    BY <1>1, <1>3, <2>1, <2>6 DEF CallInv, I!TypeOK, I!Args
  <2> QED BY <1>1, <1>2, <2>5, <2>7 DEF CallInv
<1> QED BY <1>5, <1>6, <1>7

\* The team takes a step together.
LEMMA TeamStep == CallInv /\ (I!Copy \/ I!Use) => CallInv'
<1> SUFFICES ASSUME CallInv, I!Copy \/ I!Use PROVE CallInv'
  OBVIOUS
<1>1. /\ team # {} /\ InCall /\ team \subseteq Threads
      /\ UNCHANGED <<nconf, nhit, ncalls, inner_conf_valid, stored_args>>
  BY DEF I!Copy, I!Use, CallInv, I!TypeOK
<1>2. PICK t \in team : t \in Threads
  BY <1>1
<1>3. \A a : I!Content(a)' = I!Content(a)
  BY <1>1 DEF I!Content
<1>4. CASE I!Copy
  <2>1. /\ \A u \in team : thread_pc[u] = "copy"
        /\ inner_conf' = I!Content(args) /\ UNCHANGED <<team, args, update>>
        /\ thread_pc' = [u \in Threads |-> IF u \in team THEN "store" ELSE thread_pc[u]]
    BY <1>4 DEF I!Copy
  <2>2. CopyDue /\ ~ inner_conf_valid
    BY <1>1, <1>2, <2>1 DEF InCall, CopyKept, CopyDue, CopyMade
  <2>3. args \in I!Args /\ nconf > 0
    BY <1>1 DEF InCall
  <2>4. I!Content(args)' = I!Content(args)
    BY <1>1, <2>1 DEF I!Content
  <2>5. CopyMade'
    BY <1>1, <2>1, <2>2, <2>4 DEF CopyDue, CopyMade
  <2>6. InCall'
    BY <1>1, <2>1, <2>3, <2>5 DEF InCall
  <2>7. I!TypeOK'
    <3>1. thread_pc' \in [Threads -> {"idle", "test", "decide", "copy", "store", "use"}]
      BY <2>1 DEF CallInv, I!TypeOK
    <3> QED BY <1>1, <2>1, <2>2, <2>3, <3>1, ContentType DEF CallInv, I!TypeOK
  <2> QED BY <1>1, <2>1, <2>3, <2>6, <2>7 DEF CallInv
<1>5. CASE I!Use
  <2>1. /\ \A u \in team : thread_pc[u] = "use" /\ team' = {} /\ args' = NONE
        /\ inner_conf' = inner_conf
        /\ thread_pc' = [u \in Threads |-> "idle"] /\ update' = [u \in Threads |-> FALSE]
    BY <1>1, <1>5 DEF I!Use
  <2>2. args \in I!Args /\ (inner_conf_valid => stored_args = args /\ inner_conf = I!Content(args))
    BY <1>1, <1>2, <2>1 DEF InCall, CopyKept, CopyDue, CopyMade
  <2>3. BetweenCalls'
    BY <1>1, <2>1, <2>2 DEF BetweenCalls, I!Content
  <2>4. I!TypeOK'
    <3>1. /\ thread_pc' \in [Threads -> {"idle", "test", "decide", "copy", "store", "use"}]
          /\ update' \in [Threads -> BOOLEAN]
      BY <2>1
    <3> QED BY <1>1, <2>1, <3>1 DEF CallInv, I!TypeOK
  <2> QED BY <1>1, <2>1, <2>3, <2>4 DEF CallInv
<1> QED BY <1>4, <1>5

\* The invariant of get_updated_conf is inductive.
LEMMA InnerStep == CallInv /\ [I!Next]_(I!vars) => CallInv'
<1> SUFFICES ASSUME CallInv, [I!Next]_(I!vars) PROVE CallInv'
  OBVIOUS
<1>1. CASE UNCHANGED I!vars
  BY <1>1 DEF I!vars, CallInv, I!TypeOK, BetweenCalls, InCall, CopyKept, CopyDue, CopyMade, I!Content
<1> QED BY <1>1, ChangeStep, CallStep, ThreadStep, TeamStep DEF I!Next

\* Whoever works with the copy finds what it asked for, and all decide alike.
LEMMA InnerRight == CallInv => I!TypeOK /\ I!SameDecision /\ I!RightConf
<1> SUFFICES ASSUME CallInv PROVE I!SameDecision /\ I!RightConf
  BY DEF CallInv
<1>1. ASSUME NEW t \in Threads, thread_pc[t] = "use" PROVE inner_conf = I!Content(args)
  <2>1. t \in team /\ InCall
    BY <1>1 DEF CallInv, BetweenCalls, InCall
  <2> QED BY <1>1, <2>1 DEF InCall, CopyKept, CopyDue, CopyMade
<1>2. ASSUME NEW t \in team, NEW u \in team,
             thread_pc[t] \in {"copy", "store", "use"}, thread_pc[u] \in {"copy", "store", "use"}
      PROVE  update[t] = update[u]
  <2>1. InCall /\ update[t] \in BOOLEAN /\ update[u] \in BOOLEAN
    BY DEF CallInv, I!TypeOK
  <2> QED BY <1>2, <2>1 DEF InCall, CopyKept, CopyDue, CopyMade
<1> QED BY <1>1, <1>2 DEF I!SameDecision, I!RightConf

\* Whatever is asked of get_updated_conf, and by one thread or by all of them, who
\* works with the copy finds what it asked for; for any team and any number of
\* configurations, hits and calls.
THEOREM InnerConfRightHolds == MCSpec => []InnerConfRight
<1> DEFINE Inner == part = "inner_conf" => CallInv
<1>1. MCInit => Inner
  BY InitCall DEF MCInit
<1>2. Inner /\ [MCNext]_MCVars => Inner'
  <2> SUFFICES ASSUME Inner, [MCNext]_MCVars, part' = "inner_conf" PROVE CallInv'
    OBVIOUS
  <2>1. CASE UNCHANGED MCVars
    <3>1. part = "inner_conf" /\ UNCHANGED I!vars
      BY <2>1 DEF MCVars, inner, I!vars
    <3> QED BY <3>1, InnerStep
  <2>2. CASE MCNext
    <3>1. part = "inner_conf" /\ [I!Next]_(I!vars)
      BY <2>2 DEF MCNext
    <3> QED BY <3>1, InnerStep
  <2> QED BY <2>1, <2>2
<1>3. Inner => InnerConfRight
  BY InnerRight DEF InnerConfRight
<1> QED BY <1>1, <1>2, <1>3, PTL DEF MCSpec

-----------------------------------------------------------------------------
(***************************************************************************)
(* Landau_or_Coulomb_gauge_fix.                                            *)
(***************************************************************************)
Field(S) == [val : S, bord : S, valid : BOOLEAN]

\* Between two iterations the functional is that of the configuration, and there
\* is an iteration left; when the fixer has been put back on the group it stays
\* there until the next; and it has drifted no further than there were iterations.
FixerInv ==
  /\ F!TypeOK /\ F!ConfOfFixer /\ F!OffsetOfConf
  /\ fixer \in Field(F!Value) /\ fixed_conf \in Field(F!Value \X F!Value)
  /\ fixer.val.drift <= iteration
  /\ fix_pc \in {"start", "fix"} => iteration < pars.nmax_iterations
  /\ fix_pc = "recheck" => fixer.val.drift = 0
  /\ use_adapt /\ fix_pc # "check" => nskipped_adapt < 5

\* The parameters are numbers.
LEMMA ParsNumbers ==
  ASSUME pars \in F!Pars
  PROVE  /\ NMAX \in Nat /\ NUMBERS \in Nat \ {0, 1}
         /\ pars.nmax_iterations \in 1 .. NMAX /\ pars.unitarize_each \in 1 .. NMAX
BY FixingAssumption DEF F!Pars, F!GaugeFixingAssumption

\* What multiplying a transformation and putting it back on the group make of it.
LEMMA ValuesOfFixer ==
  ASSUME NEW v \in F!Value
  PROVE  /\ v.drift \in 0 .. NMAX
         /\ v.drift < NMAX => F!More(v) \in F!Value /\ F!More(v).drift = v.drift + 1
         /\ F!OnGroup(v) \in F!Value /\ F!OnGroup(v).drift = 0
<1>1. NUMBERS \in Nat \ {0, 1} /\ NMAX \in Nat \ {0}
  BY FixingAssumption DEF F!GaugeFixingAssumption
<1>2. v.n \in 0 .. NUMBERS - 1 /\ v.drift \in 0 .. NMAX
  BY DEF F!Value
<1>3. (v.n + 1) % NUMBERS \in 0 .. NUMBERS - 1
  BY <1>1, <1>2
<1>4. ASSUME v.drift < NMAX PROVE v.drift + 1 \in 0 .. NMAX
  BY <1>1, <1>2, <1>4
<1>5. v.drift < NMAX => F!More(v) \in F!Value /\ F!More(v).drift = v.drift + 1
  BY <1>3, <1>4 DEF F!More, F!Value
<1>6. F!OnGroup(v) \in F!Value /\ F!OnGroup(v).drift = 0
  BY <1>1, <1>2 DEF F!OnGroup, F!Value
<1> QED BY <1>2, <1>5, <1>6

\* A field and its copies on the border.
LEMMA WhenCommunicated ==
  ASSUME NEW S, NEW w \in Field(S)
  PROVE  /\ w.val \in S /\ w.bord \in S /\ w.valid \in BOOLEAN
         /\ F!Communicated(w) \in Field(S) /\ F!Communicated(w).val = w.val
         /\ (w.valid => w.bord = w.val) => F!Communicated(w).bord = w.val
<1>1. w.val \in S /\ w.bord \in S /\ w.valid \in BOOLEAN
  BY DEF Field
<1> QED BY <1>1 DEF Field, F!Communicated

\* At the start nothing has been transformed.
LEMMA InitFixer == F!Init => FixerInv
<1> SUFFICES ASSUME F!Init PROVE FixerInv
  OBVIOUS
<1>1. /\ pars \in F!Pars /\ fix_pc = "start" /\ iteration = 0 /\ nskipped_adapt = 0
      /\ use_adapt = pars.adapt
      /\ fixer = F!Vector(F!Identity) /\ fixed_conf = F!Vector(<<F!Identity, F!Identity>>)
      /\ F_offset = <<F!Identity, F!Identity>>
  BY DEF F!Init
<1>2. F!Identity \in F!Value /\ F!Identity.drift = 0
  <2>1. NMAX \in Nat /\ NUMBERS \in Nat \ {0, 1}
    BY <1>1, ParsNumbers
  <2> QED BY <2>1 DEF F!Identity, F!Value
<1> DEFINE one == F!Identity
<1> HIDE DEF one
<1>3. /\ fixer \in Field(F!Value) /\ fixed_conf \in Field(F!Value \X F!Value)
      /\ fixer.val = one /\ fixer.bord = one
      /\ fixed_conf.val = <<one, one>> /\ fixed_conf.bord = <<one, one>>
      /\ one \in F!Value /\ one.drift = 0
  BY <1>1, <1>2 DEF F!Vector, Field, one
<1>4. F!TypeOK
  BY <1>1, <1>3, ParsNumbers DEF F!TypeOK, one
<1> QED BY <1>1, <1>3, <1>4, ParsNumbers DEF FixerInv, F!ConfOfFixer, F!OffsetOfConf

\* check_Landau_or_Coulomb_gauge_fixed keeps the configuration.
LEMMA CheckKeeps ==
  ASSUME FixerInv, F!CheckFixed
  PROVE  /\ fixed_conf' \in Field(F!Value \X F!Value) /\ fixed_conf'.val = fixed_conf.val
         /\ fixed_conf'.valid => fixed_conf'.bord = fixed_conf'.val
         /\ F_offset' = fixed_conf.val
<1>1. fixed_conf' = F!Communicated(fixed_conf) /\ F_offset' = fixed_conf.val
  BY DEF F!CheckFixed, F!Offset
<1>2. fixed_conf \in Field(F!Value \X F!Value) /\ fixed_conf.val \in F!Value \X F!Value
  BY DEF FixerInv, F!TypeOK
<1>3. fixed_conf.valid => fixed_conf.bord = fixed_conf.val
  BY DEF FixerInv, F!ConfOfFixer
<1> QED BY <1>1, <1>2, <1>3, WhenCommunicated

\* gauge_transform_conf, of a fixer whose sites have just been written.
LEMMA TransformKeeps ==
  ASSUME FixerInv, NEW v \in F!Value, F!gauge_transform_conf(F!Written(fixer, v))
  PROVE  /\ fixer' \in Field(F!Value) /\ fixed_conf' \in Field(F!Value \X F!Value)
         /\ fixer'.val = v /\ fixed_conf'.val = <<v, v>> /\ fixed_conf'.valid = FALSE
<1> DEFINE f == F!Written(fixer, v)
<1>1. f \in Field(F!Value) /\ f.val = v /\ f.valid = FALSE
  <2>1. fixer \in Field(F!Value)
    BY DEF FixerInv
  <2> HIDE DEF f
  <2> QED BY <2>1 DEF f, Field, F!Written
<1> HIDE DEF f
<1>2. /\ F!Communicated(f) \in Field(F!Value) /\ F!Communicated(f).val = v
      /\ F!Communicated(f).bord = v
  BY <1>1, WhenCommunicated
<1>3. /\ fixer' = F!Communicated(f)
      /\ fixed_conf' = F!Written(fixed_conf, <<v, v>>)
  BY <1>1, <1>2 DEF F!gauge_transform_conf, F!Transformed, f
<1>4. <<v, v>> \in F!Value \X F!Value
  OBVIOUS
<1>5. fixed_conf \in Field(F!Value \X F!Value)
  BY DEF FixerInv
<1> DEFINE two == <<v, v>>
<1>6. /\ F!Written(fixed_conf, two) \in Field(F!Value \X F!Value)
      /\ F!Written(fixed_conf, two).val = two /\ F!Written(fixed_conf, two).valid = FALSE
  <2> HIDE DEF two
  <2>1. two \in F!Value \X F!Value
    BY <1>4 DEF two
  <2> QED BY <1>5, <2>1 DEF Field, F!Written
<1> QED BY <1>2, <1>3, <1>6

\* Every step of the gauge fixing keeps the configuration the transform by fixer.
LEMMA FixerStep == FixerInv /\ [F!Next]_(F!vars) => FixerInv'
<1> SUFFICES ASSUME FixerInv, [F!Next]_(F!vars) PROVE FixerInv'
  OBVIOUS
<1>0. /\ F!TypeOK /\ F!ConfOfFixer /\ F!OffsetOfConf
      /\ fixer \in Field(F!Value) /\ fixed_conf \in Field(F!Value \X F!Value)
      /\ fixer.val.drift <= iteration /\ fixer.val \in F!Value
      /\ fixer.bord \in F!Value
      /\ fixer.val.drift \in 0 .. NMAX /\ iteration \in 0 .. pars.nmax_iterations
      /\ pars \in F!Pars /\ NMAX \in Nat /\ pars.nmax_iterations \in 1 .. NMAX
  BY ParsNumbers, ValuesOfFixer DEF FixerInv, F!TypeOK
<1>1. CASE UNCHANGED F!vars
  BY <1>1 DEF F!vars, FixerInv, F!TypeOK, F!ConfOfFixer, F!OffsetOfConf
<1>2. CASE F!FirstCheck
  <2>1. /\ fix_pc = "start" /\ fix_pc' = "fix" /\ F!CheckFixed
        /\ UNCHANGED <<pars, iteration, use_adapt, nskipped_adapt, use_GCG, fixer>>
    BY <1>2 DEF F!FirstCheck
  <2> QED BY <1>0, <2>1, CheckKeeps, WhenCommunicated
          DEF FixerInv, F!TypeOK, F!ConfOfFixer, F!OffsetOfConf
<1>3. CASE F!Exponentiate
  <2> DEFINE v == F!More(fixer.val)
  <2>1. /\ fix_pc = "fix" /\ fix_pc' = "check" /\ iteration' = iteration + 1
        /\ F!gauge_transform_conf(F!Written(fixer, v))
        /\ UNCHANGED <<pars, use_adapt, F_offset, fixed>>
        /\ \/ nskipped_adapt' = nskipped_adapt
           \/ use_adapt /\ nskipped_adapt' \in {0, nskipped_adapt + 1}
    <3>1. IF use_adapt THEN \E found \in BOOLEAN : F!adapt_alpha(found)
          ELSE UNCHANGED nskipped_adapt
      BY <1>3 DEF F!Exponentiate
    <3>2. \/ nskipped_adapt' = nskipped_adapt
          \/ use_adapt /\ nskipped_adapt' \in {0, nskipped_adapt + 1}
      BY <3>1 DEF F!adapt_alpha
    <3> QED BY <1>3, <3>2 DEF F!Exponentiate
  <2>2. iteration < pars.nmax_iterations /\ (use_adapt => nskipped_adapt < 5)
    BY <2>1 DEF FixerInv
  <2>3. v \in F!Value /\ v.drift = fixer.val.drift + 1
    BY <1>0, <2>2, ValuesOfFixer
  <2> HIDE DEF v
  <2>4. /\ fixer' \in Field(F!Value) /\ fixed_conf' \in Field(F!Value \X F!Value)
        /\ fixer'.val = v /\ fixed_conf'.val = <<v, v>> /\ fixed_conf'.valid = FALSE
    BY <2>1, <2>3, TransformKeeps
  <2>5. nskipped_adapt' \in 0 .. 5
    BY <1>0, <2>1, <2>2 DEF F!TypeOK
  <2>6. iteration' \in 0 .. pars.nmax_iterations /\ fixer'.val.drift <= iteration'
    BY <1>0, <2>1, <2>2, <2>3, <2>4
  <2>7. /\ fixer'.bord \in F!Value /\ fixed_conf'.bord \in F!Value \X F!Value
    BY <2>4 DEF Field
  <2> QED BY <1>0, <2>1, <2>3, <2>4, <2>5, <2>6, <2>7
          DEF FixerInv, F!TypeOK, F!ConfOfFixer, F!OffsetOfConf
<1>4. CASE F!Overrelax
  <2> DEFINE v == F!More(fixer.val)
  <2>1. /\ fix_pc = "fix" /\ fix_pc' = "check" /\ iteration' = iteration + 1
        /\ fixer' = [fixer EXCEPT !.val = v]
        /\ fixed_conf' = F!Written(fixed_conf, <<v, v>>)
        /\ UNCHANGED <<pars, use_adapt, nskipped_adapt, F_offset, fixed>>
    <3>1. fixed_conf.val[1] = fixer.val /\ fixed_conf.val[2] = fixer.val
      BY <1>0 DEF F!ConfOfFixer
    <3> QED BY <1>4, <3>1 DEF F!Overrelax
  <2>2. iteration < pars.nmax_iterations
    BY <2>1 DEF FixerInv
  <2>3. v \in F!Value /\ v.drift = fixer.val.drift + 1
    BY <1>0, <2>2, ValuesOfFixer
  <2> HIDE DEF v
  <2>4. /\ fixer' \in Field(F!Value) /\ fixer'.val = v /\ fixer'.bord = fixer.bord
    BY <1>0, <2>1, <2>3 DEF Field
  <2>5. /\ fixed_conf' \in Field(F!Value \X F!Value)
        /\ fixed_conf'.val = <<v, v>> /\ fixed_conf'.valid = FALSE
        /\ fixed_conf'.bord \in F!Value \X F!Value
    <3>1. <<v, v>> \in F!Value \X F!Value
      BY <2>3
    <3>2. fixed_conf.bord \in F!Value \X F!Value
      BY <1>0 DEF F!TypeOK
    <3> DEFINE two == <<v, v>>
    <3>3. two \in F!Value \X F!Value /\ fixed_conf' = F!Written(fixed_conf, two)
      BY <2>1, <3>1
    <3> HIDE DEF two
    <3>4. fixed_conf \in Field(F!Value \X F!Value)
      BY <1>0
    <3>5. /\ fixed_conf' \in Field(F!Value \X F!Value) /\ fixed_conf'.val = two
          /\ fixed_conf'.valid = FALSE /\ fixed_conf'.bord = fixed_conf.bord
      BY <3>3, <3>4 DEF Field, F!Written
    <3> QED BY <3>2, <3>5 DEF two
  <2>6. iteration' \in 0 .. pars.nmax_iterations /\ fixer'.val.drift <= iteration'
    BY <1>0, <2>1, <2>2, <2>3, <2>4
  <2> QED BY <1>0, <2>1, <2>3, <2>4, <2>5, <2>6
          DEF FixerInv, F!TypeOK, F!ConfOfFixer, F!OffsetOfConf
<1>5. CASE F!Check
  <2>1. /\ fix_pc = "check" /\ F!CheckFixed
        /\ fix_pc' \in {"unitarize", "fix"} /\ (fix_pc' = "fix" => ~ F!Exhausted)
        /\ (use_adapt' => nskipped_adapt < 5)
        /\ UNCHANGED <<pars, iteration, nskipped_adapt, use_GCG, fixer>>
    BY <1>5 DEF F!Check
  <2>2. fix_pc' = "fix" => iteration < pars.nmax_iterations
    BY <1>0, <2>1 DEF F!Exhausted
  <2>3. fixed_conf'.bord \in F!Value \X F!Value
    BY <2>1, CheckKeeps DEF Field
  <2> QED BY <1>0, <2>1, <2>2, <2>3, CheckKeeps
          DEF FixerInv, F!TypeOK, F!ConfOfFixer, F!OffsetOfConf
<1>6. CASE F!Unitarize
  <2> DEFINE v == F!OnGroup(fixer.val)
  <2>1. /\ fix_pc = "unitarize" /\ fix_pc' = "recheck"
        /\ F!gauge_transform_conf(F!Written(fixer, v))
        /\ UNCHANGED <<pars, iteration, use_adapt, nskipped_adapt, use_GCG, F_offset, fixed>>
    BY <1>6 DEF F!Unitarize, F!Unitarized
  <2>2. v \in F!Value /\ v.drift = 0
    BY <1>0, ValuesOfFixer
  <2> HIDE DEF v
  <2>3. /\ fixer' \in Field(F!Value) /\ fixed_conf' \in Field(F!Value \X F!Value)
        /\ fixer'.val = v /\ fixed_conf'.val = <<v, v>> /\ fixed_conf'.valid = FALSE
    BY <2>1, <2>2, TransformKeeps
  <2>4. fixer'.bord \in F!Value /\ fixed_conf'.bord \in F!Value \X F!Value
    BY <2>3 DEF Field
  <2> QED BY <1>0, <2>1, <2>2, <2>3, <2>4
          DEF FixerInv, F!TypeOK, F!ConfOfFixer, F!OffsetOfConf
<1>7. CASE F!Recheck
  <2>1. /\ fix_pc = "recheck" /\ F!CheckFixed /\ iteration' = iteration
        /\ fix_pc' \in {"done", "fix"} /\ (fix_pc' = "fix" => ~ F!Exhausted)
        /\ UNCHANGED <<pars, use_adapt, nskipped_adapt, use_GCG, fixer>>
    BY <1>7 DEF F!Recheck, F!IterAfter
  <2>2. fix_pc' = "fix" => iteration < pars.nmax_iterations
    BY <1>0, <2>1 DEF F!Exhausted
  <2>3. fixed_conf'.bord \in F!Value \X F!Value
    BY <2>1, CheckKeeps DEF Field
  <2>4. fixer.val.drift = 0
    BY <2>1 DEF FixerInv
  <2> QED BY <1>0, <2>1, <2>2, <2>3, <2>4, CheckKeeps
          DEF FixerInv, F!TypeOK, F!ConfOfFixer, F!OffsetOfConf
<1>8. CASE F!Done
  <2>1. UNCHANGED F!vars
    BY <1>8 DEF F!Done
  <2> QED BY <1>1, <2>1
<1> QED BY <1>1, <1>2, <1>3, <1>4, <1>5, <1>6, <1>7, <1>8 DEF F!Next

\* Whatever the method, the number of iterations and how often the fixer is put
\* back on the group, the configuration that is handed back is the transform of the
\* original one by a fixer on the group, and the adaptive search always starts from
\* the functional of the present one.
THEOREM FixerRightHolds == MCSpec => []FixerRight
<1> DEFINE Fixing == part = "gauge_fixing" => FixerInv
<1>1. MCInit => Fixing
  BY InitFixer DEF MCInit
<1>2. Fixing /\ [MCNext]_MCVars => Fixing'
  <2> SUFFICES ASSUME Fixing, [MCNext]_MCVars, part' = "gauge_fixing" PROVE FixerInv'
    OBVIOUS
  <2>1. CASE UNCHANGED MCVars
    <3>1. part = "gauge_fixing" /\ UNCHANGED F!vars
      BY <2>1 DEF MCVars, fixing, F!vars
    <3> QED BY <3>1, FixerStep
  <2>2. CASE MCNext
    <3>1. part = "gauge_fixing" /\ [F!Next]_(F!vars)
      BY <2>2 DEF MCNext
    <3> QED BY <3>1, FixerStep
  <2> QED BY <2>1, <2>2
<1>3. Fixing => FixerRight
  BY DEF FixerInv, FixerRight
<1> QED BY <1>1, <1>2, <1>3, PTL DEF MCSpec
=============================================================================
