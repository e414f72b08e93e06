------------------------------ MODULE IldgFile ------------------------------
(***************************************************************************)
(* Writing a lattice vector to an ILDG file and reading it back             *)
(* (ILDG_File.cpp, writer.cpp, reader.cpp).                                *)
(*                                                                         *)
(* Every rank opens the same file and keeps a position of its own in it.    *)
(* Rank 0 writes the headers and the texts, the others only move ahead; the *)
(* data are written by all, each rank a piece of the lattice in the order   *)
(* of the file, remapped from its own sites.  With C files each rank also   *)
(* has a buffer that reaches the file at a flush, at a seek, or when full.  *)
(* The invariants hold at every moment, so also for the file that is left   *)
(* if the program is killed.                                               *)
(*                                                                         *)
(* A cell of the file is four bytes: a record is padded to two of them.  A  *)
(* header has two cells, a site one, a checksum one that stands for the     *)
(* data it is the checksum of.                                             *)
(***************************************************************************)
EXTENDS Lattice, SequencesExt

CONSTANTS Texts,      \* lengths of the records that precede the data
          BUFSIZ,     \* cells held by the buffer of a C file
          UseMpiIo    \* the builds: with MPI I/O (TRUE) and without (FALSE)

IldgFileAssumption ==
  /\ Texts \in Seq(Nat) /\ BUFSIZ \in Nat /\ UseMpiIo \subseteq BOOLEAN

VARIABLES use_mpi_io,
          file,       \* the cells on disk
          op, stage,  \* per rank: the operation, and how far it is
          pos, ori_pos,
          pend,       \* per rank: cells written and still in the buffer
          bar,        \* per rank: barriers reached
          crashed     \* ranks stopped by a check

vars == <<use_mpi_io, file, op, stage, pos, ori_pos, pend, bar, crashed>>

ceil_to_next_eight_multiple(n) == n + (n % 2)
Hole == [type |-> "hole"]
Old == [type |-> "old"]
Garbage == [type |-> "garbage"]
Pad == [type |-> "pad"]
Text == [type |-> "text"]
Header(type, len) == <<[type |-> "header", of |-> type, data_length |-> len], [type |-> "rest"]>>
Site(g) == [type |-> "site", x |-> g]

-----------------------------------------------------------------------------
(***************************************************************************)
(* The order of the sites in the file: time slowest, then the directions    *)
(* from the last to the first.                                             *)
(***************************************************************************)
scidac_mapping == [mu \in Dirs |-> IF mu = 0 THEN 0 ELSE NDIM - mu]
Mapped(x) == [mu \in Dirs |-> x[scidac_mapping[mu]]]
glb_coord(r, i) ==
  [mu \in Dirs |-> coord_of_lx(i, loc_size)[mu] + rank_coord[r][mu] * loc_size[mu]]

\* Mutant: the order of the memory.
iglb_ILDGLexical(g) == lx_of_coord(g, glb_size)
iglb_ILDG(g) == lx_of_coord(Mapped(g), Mapped(glb_size))
\* index_from_ILDG_remapping: the site of an element of the piece of rank r.
FromILDG(r, i) ==
  LET m == coord_of_lx(r * loc_vol + i, Mapped(glb_size))
  IN  [nu \in Dirs |-> m[CHOOSE mu \in Dirs : scidac_mapping[mu] = nu]]

\* What rank r holds in position i of buf after index_to_ILDG_remapping.
Remapped(r) ==
  [i \in 1 .. loc_vol |->
     LET from == CHOOSE f \in Ranks \X (0 .. loc_vol - 1) : iglb_ILDG(glb_coord(f[1], f[2])) = r * loc_vol + i - 1
     IN  Site(glb_coord(from[1], from[2]))]
\* With MPI I/O the own sites, in the order of the file.
remap_to_write_ildg_data(r) ==
  [i \in 1 .. loc_vol |->
     LET isour == CHOOSE j \in 0 .. loc_vol - 1 :
                    lx_of_coord(Mapped(coord_of_lx(j, loc_size)), Mapped(loc_size)) = i - 1
     IN  Site(glb_coord(r, isour))]

\* The pieces of all ranks, as sequences.
Pieces == FoldLeft(LAMBDA done, r : Append(done, SubSeq(Remapped(r), 1, loc_vol)), <<>>, [n \in 1 .. nranks |-> n - 1])

-----------------------------------------------------------------------------
(***************************************************************************)
(* The calls of write_ildg_gauge_conf, in order.                           *)
(***************************************************************************)
MasterWrite(cells) == [call |-> "master_write", cells |-> cells]
Blank(cell, n) == [i \in 1 .. n |-> cell]
\* ILDG_File_write_record pads the text.
Record(type, body) ==
  LET len == ceil_to_next_eight_multiple(Len(body))
  IN  <<MasterWrite(Header(type, len)), MasterWrite(body \o Blank(Pad, len - Len(body)))>>
Checksum == [type |-> "checksum", of |-> [g \in {glb_coord_of_glblx(gx) : gx \in 0 .. glb_vol - 1} |-> Site(g)]]
DataRecord ==
  <<MasterWrite(Header("ildg-binary-data", glb_vol)), [call |-> "raw"]>>
  \o IF glb_vol % 2 # 0 THEN <<MasterWrite(Blank(Pad, 2 - (glb_vol % 2)))>> ELSE <<>>
Calls ==
  <<[call |-> "open"]>>
  \o FlattenSeq([n \in 1 .. Len(Texts) |-> Record("text", Blank(Text, Texts[n]))])
  \o DataRecord \o Record("scidac-checksum", <<Checksum>>) \o <<[call |-> "close"]>>

Init ==
  /\ use_mpi_io \in UseMpiIo
  /\ file = Blank(Old, 4)
  /\ op = [r \in Ranks |-> 1] /\ stage = [r \in Ranks |-> 1]
  /\ pos = [r \in Ranks |-> 0] /\ ori_pos = [r \in Ranks |-> 0]
  /\ pend = [r \in Ranks |-> <<>>]
  /\ bar = [r \in Ranks |-> 0]
  /\ crashed = {}

\* Mutant: no barriers.
GoesAlone(r, call, s) ==
  /\ op[r] <= Len(Calls) /\ Calls[op[r]].call = call /\ stage[r] = s
  /\ crashed = {}
\* A rank goes on when all have reached the last barrier it has called.
Goes(r, call, s) ==
  /\ op[r] <= Len(Calls) /\ Calls[op[r]].call = call /\ stage[r] = s
  /\ crashed = {}
  /\ \A q \in Ranks : bar[q] >= bar[r]
MPI_Barrier(r) == bar' = [bar EXCEPT ![r] = @ + 1]
Stage(r, s) == stage' = [stage EXCEPT ![r] = s] /\ UNCHANGED op
NextCall(r) == op' = [op EXCEPT ![r] = @ + 1] /\ stage' = [stage EXCEPT ![r] = 1]

\* The file with cells written from p on; what lies before is a hole.
Written(f, p, cells) ==
  LET size == IF p + Len(cells) > Len(f) THEN p + Len(cells) ELSE Len(f)
  IN  IF cells = <<>> THEN f
      ELSE [n \in 1 .. size |-> IF n > p /\ n <= p + Len(cells) THEN cells[n - p]
                                ELSE IF n <= Len(f) THEN f[n] ELSE Hole]
Flushed(r) == Written(file, pos[r] - Len(pend[r]), pend[r])

\* fwrite: if the cells do not fit into the buffer some of them are written.
fwrite(r, cells) ==
  LET all == pend[r] \o cells
  IN  \E n \in 0 .. Len(all) :
        /\ Len(all) <= BUFSIZ => n = 0
        /\ Len(all) - n <= BUFSIZ
        /\ file' = Written(file, pos[r] - Len(pend[r]), SubSeq(all, 1, n))
        /\ pend' = [pend EXCEPT ![r] = SubSeq(all, n + 1, Len(all))]
        /\ pos' = [pos EXCEPT ![r] = @ + Len(cells)]
\* fseek writes the buffer.
fseek(r, p) ==
  /\ file' = Flushed(r)
  /\ pend' = [pend EXCEPT ![r] = <<>>]
  /\ pos' = [pos EXCEPT ![r] = p]
MPI_File_write(r, p, cells) ==
  /\ file' = Written(file, p, cells)
  /\ pos' = [pos EXCEPT ![r] = p + Len(cells)]
  /\ UNCHANGED pend

-----------------------------------------------------------------------------
(***************************************************************************)
(* ILDG_File_open_for_write: "w" empties the file, for every rank that      *)
(* opens it.  With MPI I/O opening and resizing are collective.             *)
(***************************************************************************)
Open(r) ==
  /\ Goes(r, "open", 1)
  /\ IF use_mpi_io
     THEN MPI_Barrier(r) /\ Stage(r, 2) /\ UNCHANGED file
     ELSE file' = <<>> /\ NextCall(r) /\ UNCHANGED bar
  /\ UNCHANGED <<use_mpi_io, pos, ori_pos, pend, crashed>>
SetSize(r) ==
  /\ Goes(r, "open", 2)
  /\ file' = <<>>
  /\ MPI_Barrier(r) /\ NextCall(r)
  /\ UNCHANGED <<use_mpi_io, pos, ori_pos, pend, crashed>>

\* ILDG_File_master_write: rank 0 writes, the others skip as much.
WriteOrSkip(r) ==
  /\ Goes(r, "master_write", 1)
  /\ LET cells == Calls[op[r]].cells
     IN  IF r # 0 THEN fseek(r, pos[r] + Len(cells))
         ELSE IF use_mpi_io THEN MPI_File_write(r, pos[r], cells)
         ELSE fwrite(r, cells)
  /\ MPI_Barrier(r) /\ Stage(r, 2)
  /\ UNCHANGED <<use_mpi_io, ori_pos, crashed>>
Sync(r) ==
  /\ Goes(r, "master_write", 2)
  /\ fseek(r, pos[r])
  /\ MPI_Barrier(r) /\ NextCall(r)
  /\ UNCHANGED <<use_mpi_io, ori_pos, crashed>>

-----------------------------------------------------------------------------
(***************************************************************************)
(* ILDG_File_write_ildg_data_all_raw.                                      *)
(***************************************************************************)
new_pos(r) == pos[r] + r * loc_vol
SeekPiece(r) ==
  /\ Goes(r, "raw", 1)
  /\ ori_pos' = [ori_pos EXCEPT ![r] = pos[r]]
  /\ IF use_mpi_io THEN UNCHANGED <<file, pend, pos>> ELSE fseek(r, new_pos(r))
  /\ MPI_Barrier(r) /\ Stage(r, 2)
  /\ UNCHANGED <<use_mpi_io, crashed>>

\* With MPI I/O one element of the view per site.
nbytes_per_site == glb_vol \div loc_vol
ViewCells(r) ==
  LET buf == remap_to_write_ildg_data(r)
      Cell(i, k) == LET n == (i - 1) * nbytes_per_site + k IN IF n <= loc_vol THEN buf[n] ELSE Garbage
      At(i, k) == ori_pos[r] + iglb_ILDG(buf[i].x) * nbytes_per_site + k
      size == ori_pos[r] + glb_vol * nbytes_per_site
      own == {<<i, k>> : i \in 1 .. loc_vol, k \in 1 .. nbytes_per_site}
  IN  [n \in 1 .. size |->
         IF \E c \in own : At(c[1], c[2]) = n
         THEN LET c == CHOOSE c \in own : At(c[1], c[2]) = n IN Cell(c[1], c[2])
         ELSE IF n <= Len(file) THEN file[n] ELSE Hole]
WritePiece(r) ==
  /\ Goes(r, "raw", 2) /\ ~use_mpi_io
  /\ fwrite(r, Pieces[r + 1])
  /\ Stage(r, 3)
  /\ UNCHANGED <<use_mpi_io, ori_pos, bar, crashed>>
WriteView(r) ==
  /\ Goes(r, "raw", 2) /\ use_mpi_io
  /\ file' = ViewCells(r)
  /\ MPI_Barrier(r) /\ Stage(r, 3)
  /\ UNCHANGED <<use_mpi_io, pos, ori_pos, pend, crashed>>

\* Mutant: one after the data, not padded.
EndPosUnpadded(r) == ori_pos[r] + glb_vol + 1
\* Mutant: after the own piece.
EndPosOwn(r) == pos[r]
EndPos(r) == ori_pos[r] + ceil_to_next_eight_multiple(glb_vol)
SeekEnd(r) ==
  /\ Goes(r, "raw", 3)
  /\ IF use_mpi_io /\ loc_vol * nbytes_per_site # glb_vol \div nranks
     THEN crashed' = crashed \union {r} /\ UNCHANGED <<file, pend, pos, bar, op, stage>>
     ELSE fseek(r, EndPos(r)) /\ MPI_Barrier(r) /\ NextCall(r) /\ UNCHANGED crashed
  /\ UNCHANGED <<use_mpi_io, ori_pos>>

-----------------------------------------------------------------------------
\* ILDG_File_close.
AwaitAll(r) ==
  /\ Goes(r, "close", 1)
  /\ MPI_Barrier(r) /\ Stage(r, 2)
  /\ UNCHANGED <<use_mpi_io, file, pos, ori_pos, pend, crashed>>
Close(r) ==
  /\ Goes(r, "close", 2)
  /\ fseek(r, pos[r])
  /\ MPI_Barrier(r) /\ NextCall(r)
  /\ UNCHANGED <<use_mpi_io, ori_pos, crashed>>

Closed(r) == op[r] > Len(Calls)
End == ((\A r \in Ranks : Closed(r)) \/ crashed # {}) /\ UNCHANGED vars

RankStep(r) ==
  \/ Open(r) \/ SetSize(r) \/ WriteOrSkip(r) \/ Sync(r)
  \/ SeekPiece(r) \/ WritePiece(r) \/ WriteView(r) \/ SeekEnd(r)
  \/ AwaitAll(r) \/ Close(r)
Next == (\E r \in Ranks : RankStep(r)) \/ End

Spec == Init /\ [][Next]_vars

-----------------------------------------------------------------------------
(***************************************************************************)
(* Reading: read_real_vector of a file with such cells.                    *)
(***************************************************************************)
\* ILDG_File_search_record from p: where the record starts, or why not.
search_record(f, p, record_name) ==
  LET Body(q) == ceil_to_next_eight_multiple(q) + 2
      \* past the end of the file all positions are alike
      search[q \in 0 .. 2 * Len(f) + 2] ==
        IF q >= Len(f) THEN [found |-> FALSE, why |-> "end"]
        ELSE IF Body(q) > Len(f) THEN [found |-> FALSE, why |-> "short"]
        ELSE LET header == f[Body(q) - 1]
             IN  IF header.type # "header" \/ f[Body(q)].type # "rest" THEN [found |-> FALSE, why |-> "magic"]
                 ELSE IF header.of = record_name
                      THEN [found |-> TRUE, at |-> Body(q), data_length |-> header.data_length]
                 ELSE search[ceil_to_next_eight_multiple(Body(q) + header.data_length)]
  IN  search[p]

\* The data of the ranks after the remapping, by site.
ReadData(f, at) ==
  [g \in {FromILDG(r, i) : r \in Ranks, i \in 0 .. loc_vol - 1} |->
     LET x == CHOOSE y \in Ranks \X (0 .. loc_vol - 1) : FromILDG(y[1], y[2]) = g
     IN  f[at + x[1] * loc_vol + x[2] + 1]]
read_real_vector(f) ==
  LET data == search_record(f, 0, "ildg-binary-data")
  IN  IF ~data.found \/ data.at + glb_vol > Len(f) THEN [end |-> "crash"]
      ELSE LET check == search_record(f, data.at + ceil_to_next_eight_multiple(glb_vol), "scidac-checksum")
               read == ReadData(f, data.at)
           IN  IF check.found
               THEN IF check.at + check.data_length > Len(f) THEN [end |-> "crash"]
                    ELSE [end |-> IF f[check.at + 1] = [type |-> "checksum", of |-> read] THEN "agree" ELSE "disagree",
                          data |-> read]
               ELSE IF check.why = "end" THEN [end |-> "not found", data |-> read] ELSE [end |-> "crash"]

-----------------------------------------------------------------------------
(***************************************************************************)
(* Properties.                                                             *)
(***************************************************************************)

TypeOK ==
  /\ op \in [Ranks -> 1 .. Len(Calls) + 1] /\ stage \in [Ranks -> 1 .. 3]
  /\ pos \in [Ranks -> Nat] /\ ori_pos \in [Ranks -> Nat] /\ bar \in [Ranks -> Nat]
  /\ \A r \in Ranks : Len(pend[r]) <= BUFSIZ
  /\ crashed \subseteq Ranks

\* The position of a rank is only its own: they agree whenever the ranks start
\* the same call, although only one writes and each is sent to a piece.
SamePosition ==
  \A r, q \in Ranks : op[r] = op[q] /\ stage[r] = 1 /\ stage[q] = 1 => pos[r] = pos[q]

\* What has reached the file stays: no rank that opens it late empties it, and no
\* rank writes over another.
NothingLost ==
  [][\A n \in 1 .. Len(file) :
       file[n] \notin {Hole, Old} => n <= Len(file') /\ file'[n] = file[n]]_file

\* Once all have closed it, the file reads back as the vector, and the checksum
\* is found.
ReadBack ==
  (\A r \in Ranks : Closed(r)) =>
    LET r == read_real_vector(file) IN r.end = "agree" /\ \A g \in DOMAIN r.data : r.data[g] = Site(g)

\* The sites are in the order of the format whatever the division in ranks.
StandardOrder ==
  (\A r \in Ranks : Closed(r)) =>
    LET at == search_record(file, 0, "ildg-binary-data").at
    IN  \A m, n \in 1 .. glb_vol :
          LET x == file[at + m].x
              y == file[at + n].x
          IN  m < n => \E mu \in Dirs : /\ x[scidac_mapping[mu]] < y[scidac_mapping[mu]]
                                        /\ \A nu \in 0 .. mu - 1 : x[scidac_mapping[nu]] = y[scidac_mapping[nu]]

\* If the program is killed: a file in which a checksum is found is whole.
ChecksumLast ==
  LET r == read_real_vector(file)
  IN  r.end \in {"agree", "disagree"} => \A g \in DOMAIN r.data : r.data[g] = Site(g)

\* "written %zu bytes instead than %zu" (ILDG_File.cpp:642) is never met.
AllWritten == crashed = {}
=============================================================================
