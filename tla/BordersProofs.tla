--------------------------- MODULE BordersProofs ----------------------------
(***************************************************************************)
(* What the exchange of borders promises, for any number of ranks, threads and *)
(* operations: send_buf and recv_buf are not overwritten while they are in use, *)
(* and a loop that reads a border finds there what the neighbours have computed *)
(* last.  On top of the phases of a rank (BordersPhases):                  *)
(*                                                                         *)
(*   - a surface is the version of the vector its thread has computed (SurfInv); *)
(*   - messages (NetInv): the master of a rank has come to some exchange of the *)
(*     program (MyX) and may have yet to wait for it.  Neighbours are at most *)
(*     one exchange apart (Near).  On each communicator the messages from one *)
(*     to the other and the receives they meet are in the same order, those of *)
(*     the older exchange first (Channel), and carry the surface as it was at *)
(*     that exchange (Held, Ready).  A master that has nothing to wait for has *)
(*     no pending receive, and none of his messages still needs send_buf   *)
(*     (Settled); each half of recv_buf has arrived or is still asked for  *)
(*     (Received);                                                         *)
(*   - a valid border is the version of the vector the program is at, unless a *)
(*     thread is about to mark it as not valid (HaloInv).                  *)
(*                                                                         *)
(* On one rank nothing is communicated (Alone).                            *)
(***************************************************************************)
EXTENDS BordersPhases

-----------------------------------------------------------------------------
\* What the vectors contain.
Done(r, t) ==
  IF pc[r][t] \in Ended \/ (prog[ip[r][t]].kind = "update" /\ pc[r][t] # "write")
    THEN ip[r][t] + 1 ELSE ip[r][t]
SurfInv == \A r \in Ranks, v \in Vects, h \in Halves :
  surf[r][v][h] = Version(v, Done(r, h % nthreads))

\* What is exchanged by operation i.
Good(r, h, i) ==
  [from |-> r, half |-> h, ver |-> [v \in ToSet(prog[i].vs) |-> Version(v, i)]]

\* The exchange the master has come to, and whether he has yet to wait for it.
Ahead == {"start", "fill", "filled", "post"}
XAt(l, i) == LastX(IF l \in Ahead THEN i - 1 ELSE i)
AwaitAt(l, i) ==
  \/ l \in {"finish", "wait"} /\ prog[i].kind = "read" /\ Talks(i)
  \/ /\ Talking(IF l \in Ended THEN i + 1 ELSE i) # {}
     /\ l \in Ended \cup {"finish", "wait"} \/ prog[i].kind = "update"
MyX(r) == XAt(pc[r][0], ip[r][0])
Awaiting(r) == AwaitAt(pc[r][0], ip[r][0])

\* What is in send_buf until it has been taken, while it is filled, ...
Held(r) == Awaiting(r) => \A h \in Halves : send_buf[r][h] = Good(r, h, MyX(r))
Ready(r) == \A t \in Threads :
  /\ pc[r][t] = "post" => \A h \in Halves : send_buf[r][h] = Good(r, h, ip[r][t])
  /\ pc[r][t] = "filled" => \A h \in Chunk(t) : send_buf[r][h] = Good(r, h, ip[r][t])
\* ... and what an exchange leaves behind.
Settled(r) == \A s \in Ranks, c \in Comms :
  /\ ~ Awaiting(r) => recvs[r][s][c] = <<>>
  /\ ~ Awaiting(r) \/ c # Comm(prog[MyX(r)]) =>
       \A k \in 1 .. Len(sends[r][s][c]) : sends[r][s][c][k].taken

\* What has been received.
Received(r) ==
  MyX(r) > 0 => \A h \in Halves :
    LET s == rank_neigh(r, h)
    IN \/ recv_buf[r][h] = Good(s, 1 - h, MyX(r))
       \/ \E k \in 1 .. Len(recvs[r][s][Comm(prog[MyX(r)])]) :
            recvs[r][s][Comm(prog[MyX(r)])][k] = h

\* Message m from rank r is for half h of the border, and of exchange i.
Carries(r, m, h, i) == m.half = 1 - h /\ Contents(r, m) = Good(r, 1 - h, i)

\* The messages q from r, come to exchange x, and the receives p of s, come to
\* exchange y, on a communicator: those of the older exchange are first.
Line(r, s, c, q, p, x, y) ==
  /\ p # <<>> => y > 0 /\ c = Comm(prog[y])
  /\ \A k \in 1 .. Len(p) : p[k] \in Halves /\ rank_neigh(s, p[k]) = r
  /\ x >= y => Len(p) <= Len(q) /\ \A k \in 1 .. Len(p) : Carries(r, q[k], p[k], y)
  /\ x = y => Len(q) = Len(p)
  /\ x > y /\ c = Comm(prog[x]) =>
       /\ Len(q) = Len(p) + Len(From(s, r))
       /\ \A k \in 1 .. Len(From(s, r)) : Carries(r, q[Len(p) + k], From(s, r)[k], x)
  /\ x > y /\ c # Comm(prog[x]) => Len(q) = Len(p)
  /\ x < y => q = <<>> /\ p = IF c = Comm(prog[y]) THEN From(s, r) ELSE <<>>
Channel(r, s, c) == Line(r, s, c, sends[r][s][c], recvs[s][r][c], MyX(r), MyX(s))

\* Neighbours are not more than one exchange apart.
Adjacent(x, y) ==
  x = y \/ (x > y /\ y = LastX(x - 1)) \/ (y > x /\ x = LastX(y - 1))
Near(r, s) == From(s, r) # <<>> => Adjacent(MyX(r), MyX(s))

NetInv ==
  \A r \in Ranks :
    /\ Held(r) /\ Ready(r) /\ Settled(r) /\ Received(r)
    /\ \A s \in Ranks : Near(r, s) /\ \A c \in Comms : Channel(r, s, c)

-----------------------------------------------------------------------------
\* The borders.
HaloGood(r, v, h, i) ==
  LET p == halo[r][v][h]
  IN /\ p.from = rank_neigh(r, h) /\ p.half = 1 - h
     /\ v \in DOMAIN p.ver /\ p.ver[v] = Version(v, i)
HaloFine(r, v, i) == \A h \in Halves : HaloGood(r, v, h, i)

Mine(r, t) ==
  IF Len(prog[ip[r][t]].vs) = 2 THEN Chunk(t) ELSE IF t = 0 THEN Halves ELSE {}
\* The vectors whose border is right, valid or about to become so.
Flagging == {"flag", "flag1", "setflag", "flag2"}
Trusted(r, t, v) ==
  valid[r][v] /\ ~ (pc[r][t] \in {"setflag", "flag2"} /\ prog[ip[r][t]] = UpdateOf(v))
HaloOf(r, t) ==
  /\ \A v \in Vects : Trusted(r, t, v) => HaloFine(r, v, Cur(r, t))
  /\ pc[r][t] \in Flagging /\ prog[ip[r][t]].kind # "update" =>
       \A v \in ToSet(prog[ip[r][t]].vs), h \in Mine(r, t) : HaloGood(r, v, h, ip[r][t])
HaloInv(r) == \A t \in Threads : HaloOf(r, t)
HaloCheck == \A r \in Ranks : HaloInv(r)

-----------------------------------------------------------------------------
\* What a thread does is what its operation is for, ...
LEMMA Where ==
  ASSUME Typed, ProgInv, NEW r \in Ranks, PhaseOf(r), NEW t \in Threads, pc[r][t] \notin Ended
  PROVE  /\ ip[r][t] \in 1 .. Len(prog) /\ op(r, t) \in Ops /\ op(r, t) = prog[ip[r][t]]
         /\ pc[r][t] = "write" => op(r, t).kind = "update"
         /\ pc[r][t] = "start" => op(r, t).kind \in {"read", "start"}
         /\ pc[r][t] \in {"fill", "filled", "post"} => op(r, t).kind \in {"read", "start"} /\ Talks(ip[r][t])
         /\ pc[r][t] = "finish" => op(r, t).kind \in {"read", "finish"}
         /\ pc[r][t] \in {"wait", "waited", "unpack"} => Fetching(ip[r][t])
         /\ pc[r][t] \in {"flag", "flag1", "setflag", "flag2"} =>
              op(r, t).kind = "update" \/ Fetching(ip[r][t])
         /\ pc[r][t] \in {"loop", "looped"} => op(r, t).kind = "read"
         /\ pc[r][t] = "wait" => comm_in_prog[r][Comm(op(r, t))]
<1>0. PICK i, o, l : i = ip[r][t] /\ o = op(r, t) /\ l = pc[r][t]
  OBVIOUS
<1>1. /\ i \in 1 .. Len(prog) /\ o \in Ops /\ o = prog[i] /\ l \notin Ended
  BY <1>0, AtOp DEF Typed
<1>2. PICK n \in 0 .. Len(prog) :
        \/ Between(r, n) \/ Posting(r, n) \/ Unpacking(r, n) \/ (\E a \in {1, 2} : Setting(r, n, a))
        \/ Second(r, n) \/ Using(r, n)
  BY DEF PhaseOf
<1>3. CASE Between(r, n)
  <2>1. Passing(r, t, n)
    BY <1>3 DEF Between
  <2>2. /\ l = "write" => o.kind = "update"
        /\ l = "start" => o.kind \in {"read", "start"}
        /\ l \in {"fill", "filled"} => o.kind \in {"read", "start"} /\ Talks(i)
        /\ l = "finish" => o.kind = "finish" \/ (o.kind = "read" /\ ~ Talks(i))
        /\ l \in {"wait", "waited"} => o.kind = "finish" /\ Talks(i)
        /\ l \in {"loop", "looped"} => o.kind = "read" /\ ~ Talks(i)
        /\ l \in {"flag", "flag1", "flag2"} => o.kind = "update"
        /\ l \notin {"unpack", "setflag"}
        /\ l = "post" => i = n /\ o.kind = "start" /\ Talks(i)
        /\ Cur(r, t) = i
    BY <1>0, <1>1, <2>1, PassingAt
  <2>3. ASSUME l = "wait" PROVE comm_in_prog[r][Comm(o)]
    <3>1. /\ Talking(i) = Talking(n + 1) /\ \A c \in CommsOf(n + 1) : comm_in_prog[r][c]
      BY <1>0, <2>1, <2>2, <2>3 DEF Passing
    <3>2. o.kind = "finish" /\ Talks(i)
      BY <2>2, <2>3
    <3>3. Talking(i) # {} /\ \A j \in Talking(i) : o.vs = prog[j].vs
      <4>1. prog[i].kind = "finish" /\ Talks(i) /\ prog \in Seq(Ops)
        BY <1>1, <3>2 DEF Typed, Placed
      <4>2. Talking(i) # {} /\ \A j \in Talking(i) : prog[i].vs = prog[j].vs
        BY <1>1, <4>1, TalkingNext
      <4> QED BY <1>1, <4>2
    <3>4. Comm(o) \in CommsOf(n + 1)
      BY <3>1, <3>3 DEF CommsOf, Comm
    <3> QED BY <3>1, <3>4
  <2>4. /\ l \in {"fill", "filled", "post"} => o.kind \in {"read", "start"} /\ Talks(i)
        /\ l = "finish" => o.kind \in {"read", "finish"}
        /\ l \in {"wait", "waited", "unpack"} => Fetching(i)
        /\ l \in {"flag", "flag1", "setflag", "flag2"} => o.kind = "update" \/ Fetching(i)
        /\ l \in {"loop", "looped"} => o.kind = "read"
    BY <1>1, <2>2 DEF Fetching
  <2> QED BY <1>0, <1>1, <2>2, <2>3, <2>4
<1>4. CASE Posting(r, n)
  <2>1. /\ i = n /\ l \in {"post", "finish", "wait", "waited"} /\ (l # "post" => comm_in_prog[r][Comm(o)])
        /\ o.kind = "read" /\ Talks(i) /\ Fetching(i)
    BY <1>0, <1>1, <1>4 DEF Posting, Fetching
  <2> QED BY <1>0, <1>1, <2>1
<1>5. CASE Unpacking(r, n)
  <2>1. i = n /\ l \in {"unpack", "flag", "flag1", "flag2"} /\ Fetching(i)
    BY <1>0, <1>5 DEF Unpacking
  <2> QED BY <1>0, <1>1, <2>1
<1>6. ASSUME NEW a \in {1, 2}, Setting(r, n, a)
      PROVE  i = n /\ l \in {"setflag", "flag2"} /\ (o.kind = "update" \/ Fetching(i))
  BY <1>0, <1>1, <1>6 DEF Setting
<1>7. CASE Second(r, n)
  <2>1. i = n /\ l \in {"flag", "flag1", "flag2"} /\ Fetching(i)
    BY <1>0, <1>7 DEF Second
  <2> QED BY <1>0, <1>1, <2>1
<1>8. CASE Using(r, n)
  <2>1. i = n /\ l \in {"loop", "looped"} /\ o.kind = "read"
    BY <1>0, <1>1, <1>8 DEF Using
  <2> QED BY <1>0, <1>1, <2>1
<1> QED BY <1>0, <1>1, <1>2, <1>3, <1>4, <1>5, <1>6, <1>7, <1>8

\* Where a thread may go.
LEMMA Moves ==
  ASSUME Typed, nparal_dir > 0, NEW r \in Ranks, NEW t \in Threads, Advance(r, t), ~ Call(r, t)
  PROVE  /\ pc[r][t] \notin Waiting
         /\ pc[r][t] \in Ended => pc'[r][t] \in Ended
         /\ pc[r][t] = "start" => pc'[r][t] \in {"fill", "next", "finish"}
         /\ pc[r][t] = "fill" => pc'[r][t] = "filled"
         /\ pc[r][t] = "post" => pc'[r][t] \in {"next", "finish"}
         /\ pc[r][t] = "finish" => pc'[r][t] \in {"wait", "loop", "next"}
         /\ pc[r][t] = "wait" => pc'[r][t] = "waited"
         /\ pc[r][t] = "unpack" => pc'[r][t] = "flag"
         /\ pc[r][t] = "flag" => pc'[r][t] \in {"flag1", "flag2"}
         /\ pc[r][t] = "setflag" => pc'[r][t] = "flag2"
         /\ pc[r][t] = "loop" => pc'[r][t] = "looped"
         /\ pc[r][t] = "write" => pc'[r][t] = "flag"
<1>0. pc[r][t] \notin Waiting /\ (pc[r][t] \in Ended => pc'[r][t] \in Ended)
  BY GoesTo
<1>1. ASSUME pc[r][t] = "start" PROVE pc'[r][t] \in {"fill", "next", "finish"}
  BY <1>1, GoesTo
<1>2. ASSUME pc[r][t] = "fill" PROVE pc'[r][t] = "filled"
  BY <1>2, GoesTo
<1>3. ASSUME pc[r][t] = "post" PROVE pc'[r][t] \in {"next", "finish"}
  BY <1>3, GoesTo
<1>4. ASSUME pc[r][t] = "finish" PROVE pc'[r][t] \in {"wait", "loop", "next"}
  BY <1>4, GoesTo
<1>5. ASSUME pc[r][t] = "wait" PROVE pc'[r][t] = "waited"
  BY <1>5, GoesTo
<1>6. ASSUME pc[r][t] = "unpack" PROVE pc'[r][t] = "flag"
  BY <1>6, GoesTo
<1>7. ASSUME pc[r][t] = "flag" PROVE pc'[r][t] \in {"flag1", "flag2"}
  BY <1>7, GoesTo
<1>8. ASSUME pc[r][t] = "setflag" PROVE pc'[r][t] = "flag2"
  BY <1>8, GoesTo
<1>9. ASSUME pc[r][t] = "loop" PROVE pc'[r][t] = "looped"
  BY <1>9, GoesTo
<1>10. ASSUME pc[r][t] = "write" PROVE pc'[r][t] = "flag"
  BY <1>10, GoesTo
<1> QED BY <1>0, <1>1, <1>2, <1>3, <1>4, <1>5, <1>6, <1>7, <1>8, <1>9, <1>10

\* What the vectors contain.
LEMMA DoneStep ==
  ASSUME Typed, nparal_dir > 0, NEW r \in Ranks, NEW t \in Threads,
         \/ Advance(r, t) /\ ~ Write(r, t) /\ ~ Call(r, t)
         \/ Barrier(r),
         NEW i, i = ip[r][t]
  PROVE  \/ Done(r, t)' = Done(r, t)
         \/ /\ i \in 1 .. Len(prog) /\ prog[i].kind # "update"
            /\ Done(r, t) = i /\ Done(r, t)' = i + 1
<1>1. PICK l, m : l = pc[r][t] /\ m = pc'[r][t]
  OBVIOUS
<1>2. /\ i \in Nat /\ l \in PCs /\ (l \notin Ended => i \in 1 .. Len(prog) /\ op(r, t) = prog[i])
  BY <1>1, AtOp DEF Typed
<1>3. /\ prog' = prog /\ ip' = ip /\ m # "write" /\ l # "write" /\ (l \in Ended => m \in Ended)
  <2>1. CASE Barrier(r)
    <3>1. prog' = prog /\ ip' = ip /\ l \in Waiting
      BY <1>1, <2>1, BarrierEffects
    <3>2. m = Past(r, t)
      BY <1>1, <2>1 DEF Barrier, Typed, Placed
    <3>3. m \in {"post", "unpack", "setflag", "next", "flag", "loop"}
      BY <1>1, <3>1, <3>2 DEF Waiting, Past
    <3> QED BY <3>1, <3>3 DEF Waiting, Ended
  <2>2. CASE Advance(r, t) /\ ~ Write(r, t) /\ ~ Call(r, t)
    <3>1. prog' = prog /\ ip' = ip /\ l \notin Waiting /\ (l \in Ended => m \in Ended)
      BY <1>1, <2>2, GoesTo
    <3>2. l # "write"
      BY <1>1, <2>2 DEF Advance, Exit, Start, Fill, Post, Finish, Wait, Unpack, Flag, SetFlag, Loop
    <3>3. m # "write"
      <4>1. /\ l = "start" => m \in {"fill", "next", "finish"}
            /\ l = "fill" => m = "filled"
            /\ l = "post" => m \in {"next", "finish"}
            /\ l = "finish" => m \in {"wait", "loop", "next"}
            /\ l = "wait" => m = "waited"
            /\ l = "unpack" => m = "flag"
            /\ l = "flag" => m \in {"flag1", "flag2"}
            /\ l = "setflag" => m = "flag2"
            /\ l = "loop" => m = "looped"
        BY <1>1, <2>2, Moves
      <4> QED BY <1>2, <3>1, <3>2, <4>1 DEF PCs, Waiting, Ended
    <3> QED BY <3>1, <3>2, <3>3
  <2> QED BY <2>1, <2>2
<1>4. /\ Done(r, t) = IF l \in Ended \/ prog[i].kind = "update" THEN i + 1 ELSE i
      /\ Done(r, t)' = IF m \in Ended \/ prog[i].kind = "update" THEN i + 1 ELSE i
  BY <1>1, <1>3 DEF Done, Ended
<1> QED BY <1>2, <1>3, <1>4

\* The surface is what the program has computed up to where each thread is.
LEMMA SurfStep == Typed /\ nparal_dir > 0 /\ PhaseCheck /\ ProgInv /\ SurfInv /\ [Next]_vars => SurfInv'
<1> SUFFICES ASSUME Typed, nparal_dir > 0, PhaseCheck, ProgInv, SurfInv, [Next]_vars
             PROVE  SurfInv'
  OBVIOUS
<1> SUFFICES ASSUME NEW q \in Ranks, NEW v \in Vects, NEW h \in Halves
             PROVE  surf'[q][v][h] = Version(v, Done(q, h % nthreads))'
  <2>1. Ranks' = Ranks /\ Vects' = Vects /\ Halves' = Halves /\ nthreads' = nthreads
    <3>1. UNCHANGED env
      BY Launching
    <3> QED BY <3>1 DEF env, Ranks, Vects, Halves
  <2> QED BY <2>1 DEF SurfInv
<1>1. /\ prog \in Seq(Ops) /\ Len(prog) \in Nat /\ \A k \in 1 .. Len(prog) : prog'[k] = prog[k]
  BY Grows
<1>2. PICK u \in Threads : u = h % nthreads /\ surf[q][v][h] = Version(v, Done(q, u))
  BY Sizes DEF Typed, SurfInv
<1>3. nthreads' = nthreads
  BY Launching DEF env
<1>4. /\ ip[q][u] \in Nat /\ ip[q][u] <= Len(prog)
      /\ pc[q][u] \notin Ended => ip[q][u] \in 1 .. Len(prog) /\ op(q, u) = prog[ip[q][u]] /\ op(q, u) \in Ops
  BY AtOp DEF Typed
<1>5. Done(q, u) \in Nat /\ Done(q, u) <= Len(prog) + 1
  BY <1>1, <1>4 DEF Done
<1>6. Version(v, Done(q, u)) = surf[q][v][h]
  BY <1>2
<1>7. SUFFICES Version(v, Done(q, u))' = surf'[q][v][h]
  <2>1. PICK d : d = Done(q, u)'
    OBVIOUS
  <2>2. d = Done(q, h % nthreads)'
    BY <1>2, <1>3, <2>1
  <2> QED BY <1>7, <2>1, <2>2 DEF Version
<1>8. ASSUME surf'[q][v][h] = surf[q][v][h], Done(q, u)' = Done(q, u)
      PROVE  Version(v, Done(q, u))' = surf'[q][v][h]
  <2>1. PICK d \in Nat : d = Done(q, u) /\ d <= Len(prog) + 1
    BY <1>5
  <2>2. Version(v, d)' = Version(v, d)
    BY <1>1, <2>1, Told
  <2>3. Version(v, Done(q, u))' = Version(v, d)'
    BY <1>8, <2>1 DEF Version
  <2> QED BY <1>6, <1>8, <2>1, <2>2, <2>3
<1>9. ASSUME prog' = prog, surf'[q][v][h] = surf[q][v][h],
             ip[q][u] \in 1 .. Len(prog), prog[ip[q][u]].kind # "update",
             Done(q, u) = ip[q][u], Done(q, u)' = ip[q][u] + 1
      PROVE  Version(v, Done(q, u))' = surf'[q][v][h]
  <2>1. PICK d \in 1 .. Len(prog) : d = ip[q][u]
    BY <1>9
  <2>2. prog[d] # UpdateOf(v)
    BY <1>9, <2>1 DEF UpdateOf
  <2>3. Version(v, d + 1) = Version(v, d)
    BY <1>1, <2>1, <2>2, VersionNext
  <2>4. Version(v, Done(q, u))' = Version(v, d + 1)
    BY <1>9, <2>1 DEF Version
  <2> QED BY <1>6, <1>9, <2>1, <2>3, <2>4
<1>10. ASSUME NEW r \in Ranks, NEW t \in Threads, Advance(r, t), ~ Call(r, t), ~ Write(r, t)
       PROVE  Version(v, Done(q, u))' = surf'[q][v][h]
  <2>1. surf' = surf
    BY <1>10 DEF Advance, Exit, Start, Fill, Post, Finish, Wait, Unpack, Flag, SetFlag, Loop, data
  <2>2. /\ prog' = prog /\ ip' = ip
        /\ \A p \in Ranks, w \in Threads : p # r \/ w # t => pc'[p][w] = pc[p][w]
    BY <1>10, Effects
  <2>3. CASE q = r /\ u = t
    <3>1. \/ Done(r, t)' = Done(r, t)
          \/ /\ ip[r][t] \in 1 .. Len(prog) /\ prog[ip[r][t]].kind # "update"
             /\ Done(r, t) = ip[r][t] /\ Done(r, t)' = ip[r][t] + 1
      BY <1>10, DoneStep
    <3> QED BY <1>8, <1>9, <2>1, <2>2, <2>3, <3>1
  <2>4. CASE q # r \/ u # t
    <3>1. Done(q, u)' = Done(q, u)
      BY <2>2, <2>4 DEF Done
    <3> QED BY <1>8, <2>1, <3>1
  <2> QED BY <2>3, <2>4
<1>11. ASSUME NEW r \in Ranks, NEW t \in Threads, Call(r, t)
       PROVE  Version(v, Done(q, u))' = surf'[q][v][h]
  <2>1. surf' = surf
    BY <1>11 DEF Call, data
  <2>2. /\ \A p \in Ranks, w \in Threads : p # r \/ w # t => pc'[p][w] = pc[p][w] /\ ip'[p][w] = ip[p][w]
        /\ ip'[r][t] = ip[r][t] + 1 /\ ip[r][t] + 1 \in 1 .. Len(prog') /\ pc[r][t] = "next"
        /\ pc'[r][t] = Entry(prog'[ip[r][t] + 1]) /\ prog'[ip[r][t] + 1] \in Ops
    BY <1>11, CallEffects
  <2>3. Done(q, u)' = Done(q, u)
    <3>1. CASE q = r /\ u = t
      <4>1. Done(q, u) = ip[r][t] + 1
        BY <2>2, <3>1 DEF Done, Ended
      <4>2. PICK o \in Ops : o = prog'[ip[r][t] + 1]
        BY <2>2
      <4>3. o.kind \in {"read", "start", "finish", "update"}
        BY <4>2, Operations
      <4>4. pc'[r][t] \in {"write", "start", "finish"} /\ (o.kind = "update" => pc'[r][t] = "write")
        BY <2>2, <4>2, <4>3 DEF Entry
      <4>5. Done(q, u)' = ip'[r][t]
        BY <2>2, <3>1, <4>2, <4>4 DEF Done, Ended
      <4> QED BY <2>2, <4>1, <4>5
    <3>2. CASE q # r \/ u # t
      <4>1. pc'[q][u] = pc[q][u] /\ ip'[q][u] = ip[q][u]
        BY <2>2, <3>2
      <4>2. pc[q][u] \notin Ended => prog'[ip[q][u]] = prog[ip[q][u]]
        BY <1>1, <1>4
      <4> QED BY <4>1, <4>2 DEF Done
    <3> QED BY <3>1, <3>2
  <2> QED BY <1>8, <2>1, <2>3
<1>12. ASSUME NEW r \in Ranks, NEW t \in Threads, Write(r, t)
       PROVE  Version(v, Done(q, u))' = surf'[q][v][h]
  <2>1. PICK i, o : i = ip[r][t] /\ o = op(r, t)
    OBVIOUS
  <2>2. /\ pc[r][t] = "write" /\ prog' = prog /\ ip' = ip
        /\ surf' = [surf EXCEPT ![r][o.vs[1]] = [x \in Halves |-> IF x \in Chunk(t) THEN i ELSE @[x]]]
        /\ Goto(r, t, "flag")
    BY <1>12, <2>1 DEF Write, where
  <2>3. i \in 1 .. Len(prog) /\ o = prog[i] /\ o \in Ops
    BY <2>1, <2>2, AtOp DEF Typed, Ended
  <2>4. o.kind = "update" /\ o = UpdateOf(o.vs[1]) /\ o.vs[1] \in Vects
    <3>1. o.kind = "update"
      <4>1. PhaseOf(r)
        BY DEF PhaseCheck
      <4>2. pc[r][t] \notin Ended
        BY <2>2 DEF Ended
      <4> QED BY <2>1, <2>2, <4>1, <4>2, Where
    <3> QED BY <2>3, <3>1, Operations
  <2>5. /\ \A p \in Ranks, w \in Threads : p # r \/ w # t => pc'[p][w] = pc[p][w]
        /\ pc'[r][t] = "flag"
    <3>1. "flag" \in PCs /\ Placed /\ UNCHANGED env
      BY <1>12 DEF Typed, PCs, Write
    <3> QED BY <2>2, <3>1, Going
  <2>6. CASE q = r /\ u = t
    <3>1. h \in Chunk(t)
      BY <1>2, <2>6 DEF Chunk
    <3>2. surf \in [Ranks -> [Vects -> [Halves -> Nat]]]
      BY DEF Typed, Filled
    <3>3. surf'[r][v][h] = IF v = o.vs[1] THEN i ELSE surf[r][v][h]
      BY <2>2, <2>4, <3>1, <3>2
    <3>4. Done(q, u) = i /\ Done(q, u)' = i + 1
      BY <2>1, <2>2, <2>3, <2>4, <2>5, <2>6 DEF Done, Ended
    <3>5. Version(v, i + 1) = IF o = UpdateOf(v) THEN i ELSE Version(v, i)
      BY <1>1, <2>3, VersionNext
    <3>6. o = UpdateOf(v) <=> v = o.vs[1]
      <4>1. v = o.vs[1] => o = UpdateOf(v)
        BY <2>4
      <4>2. o = UpdateOf(v) => o.vs = <<v>>
        BY DEF UpdateOf
      <4> QED BY <4>1, <4>2
    <3>7. Version(v, Done(q, u))' = Version(v, i + 1)
      BY <2>2, <3>4 DEF Version
    <3> QED BY <1>6, <2>6, <3>3, <3>4, <3>5, <3>6, <3>7
  <2>7. CASE q # r \/ u # t
    <3>1. surf'[q][v][h] = surf[q][v][h]
      <4>1. surf \in [Ranks -> [Vects -> [Halves -> Nat]]]
        BY DEF Typed, Filled
      <4>2. q = r => h \notin Chunk(t)
        BY <1>2, <2>7 DEF Chunk
      <4> QED BY <2>2, <2>4, <4>1, <4>2
    <3>2. Done(q, u)' = Done(q, u)
      BY <2>2, <2>5, <2>7 DEF Done
    <3> QED BY <1>8, <3>1, <3>2
  <2> QED BY <2>6, <2>7
<1>13. ASSUME NEW r \in Ranks, Barrier(r) PROVE Version(v, Done(q, u))' = surf'[q][v][h]
  <2>1. surf' = surf /\ prog' = prog /\ ip' = ip /\ (q # r => pc'[q] = pc[q])
    BY <1>13, BarrierEffects DEF data
  <2>2. CASE q = r
    <3>1. \/ Done(r, u)' = Done(r, u)
          \/ /\ ip[r][u] \in 1 .. Len(prog) /\ prog[ip[r][u]].kind # "update"
             /\ Done(r, u) = ip[r][u] /\ Done(r, u)' = ip[r][u] + 1
      BY <1>13, DoneStep
    <3> QED BY <1>8, <1>9, <2>1, <2>2, <3>1
  <2>3. CASE q # r
    <3>1. Done(q, u)' = Done(q, u)
      BY <2>1, <2>3 DEF Done
    <3> QED BY <1>8, <2>1, <3>1
  <2> QED BY <2>2, <2>3
<1>14. ASSUME UNCHANGED <<surf, prog, ip, pc>> PROVE Version(v, Done(q, u))' = surf'[q][v][h]
  <2>1. Done(q, u)' = Done(q, u)
    BY <1>14 DEF Done
  <2> QED BY <1>8, <1>14, <2>1
<1>15. ASSUME NEW r \in Ranks, NEW s \in Ranks, NEW c \in Comms, Deliver(r, s, c)
       PROVE  Version(v, Done(q, u))' = surf'[q][v][h]
  BY <1>14, <1>15 DEF Deliver, where, data
<1>16. UNCHANGED vars => Version(v, Done(q, u))' = surf'[q][v][h]
  BY <1>14 DEF vars, where, data
<1> QED BY <1>10, <1>11, <1>12, <1>13, <1>15, <1>16 DEF Next, Progress, Transport, Terminated

-----------------------------------------------------------------------------
\* The neighbours: what one asks for is what the other sends.
LEMMA Facing ==
  ASSUME nranks \in Nat \ {0}, NEW r \in Ranks, NEW s \in Ranks
  PROVE  /\ To(r, s) = From(s, r) /\ From(s, r) \in Seq(Halves)
         /\ From(s, r) = <<>> <=> From(r, s) = <<>>
         /\ \A k \in 1 .. Len(From(s, r)) : From(s, r)[k] \in Halves /\ rank_neigh(s, From(s, r)[k]) = r
         /\ \A h \in Halves : rank_neigh(s, h) = r => \E k \in 1 .. Len(From(s, r)) : From(s, r)[k] = h
         /\ nranks > 1 => From(r, r) = <<>>
<1>1. PICK S : S = {h \in Halves : rank_neigh(s, h) = r}
  OBVIOUS
<1>2. \A h \in Halves : rank_neigh(s, h) = r <=> rank_neigh(r, 1 - h) = s
  <2>1. ASSUME NEW h \in Halves PROVE rank_neigh(s, h) = r <=> rank_neigh(r, 1 - h) = s
    <3>1. \A a \in Ranks : rank_neigh(a, 1 - h) = s <=> rank_neigh(s, h) = a
      BY Grid
    <3> QED BY <3>1
  <2> QED BY <2>1
<1>3. To(r, s) = InOrder(S) /\ From(s, r) = InOrder(S)
  <2>1. {h \in Halves : rank_neigh(r, 1 - h) = s} = S
    BY <1>1, <1>2
  <2> QED BY <1>1, <2>1 DEF To, From
<1>4. S = {} <=> {h \in Halves : rank_neigh(r, h) = s} = {}
  BY <1>1, <1>2 DEF Halves
<1>5. \A T \in SUBSET Halves :
        /\ InOrder(T) \in Seq(Halves)
        /\ InOrder(T) = <<>> <=> T = {}
        /\ \A k \in 1 .. Len(InOrder(T)) : InOrder(T)[k] \in T
        /\ \A h \in T : \E k \in 1 .. Len(InOrder(T)) : InOrder(T)[k] = h
  <2> SUFFICES ASSUME NEW T \in SUBSET Halves
               PROVE  /\ InOrder(T) \in Seq(Halves)
                      /\ InOrder(T) = <<>> <=> T = {}
                      /\ \A k \in 1 .. Len(InOrder(T)) : InOrder(T)[k] \in T
                      /\ \A h \in T : \E k \in 1 .. Len(InOrder(T)) : InOrder(T)[k] = h
    OBVIOUS
  <2>0. \A h \in T : h = 0 \/ h = 1
    BY DEF Halves
  <2>1. CASE 0 \in T /\ 1 \in T
    <3>1. InOrder(T) = <<0, 1>>
      <4>1. InOrder(T) = <<0>> \o <<1>>
        BY <2>1 DEF InOrder
      <4>2. <<0>> \o <<1>> = <<0, 1>>
        <5>1. <<0>> \in Seq(Halves) /\ <<1>> \in Seq(Halves) /\ <<0, 1>> \in Seq(Halves)
          BY DEF Halves
        <5>2. <<0>> \o <<1>> \in Seq(Halves) /\ Len(<<0>> \o <<1>>) = 2
          BY <5>1
        <5>3. (<<0>> \o <<1>>)[1] = 0 /\ (<<0>> \o <<1>>)[2] = 1
          BY <5>1
        <5>4. \A k \in 1 .. 2 : (<<0>> \o <<1>>)[k] = <<0, 1>>[k]
          <6>1. \A k \in 1 .. 2 : k = 1 \/ k = 2
            OBVIOUS
          <6> QED BY <5>3, <6>1
        <5> QED BY <5>1, <5>2, <5>4, SeqEqual
      <4> QED BY <4>1, <4>2
    <3>2. <<0, 1>>[1] = 0 /\ <<0, 1>>[2] = 1 /\ Len(<<0, 1>>) = 2 /\ <<0, 1>> \in Seq(Halves) /\ <<0, 1>> # <<>>
      BY DEF Halves
    <3> QED BY <2>0, <2>1, <3>1, <3>2
  <2>2. CASE 0 \in T /\ 1 \notin T
    <3>1. InOrder(T) = <<0>>
      BY <2>2 DEF InOrder
    <3>2. <<0>>[1] = 0 /\ Len(<<0>>) = 1 /\ <<0>> \in Seq(Halves) /\ <<0>> # <<>>
      BY DEF Halves
    <3> QED BY <2>0, <2>2, <3>1, <3>2
  <2>3. CASE 0 \notin T /\ 1 \in T
    <3>1. InOrder(T) = <<1>>
      BY <2>3 DEF InOrder
    <3>2. <<1>>[1] = 1 /\ Len(<<1>>) = 1 /\ <<1>> \in Seq(Halves) /\ <<1>> # <<>>
      BY DEF Halves
    <3> QED BY <2>0, <2>3, <3>1, <3>2
  <2>4. CASE 0 \notin T /\ 1 \notin T
    <3>1. InOrder(T) = <<>> /\ T = {}
      BY <2>0, <2>4 DEF InOrder
    <3>2. Len(InOrder(T)) = 0 /\ InOrder(T) \in Seq(Halves)
      BY <3>1
    <3> QED BY <3>1, <3>2
  <2> QED BY <2>1, <2>2, <2>3, <2>4
<1>6. S \in SUBSET Halves /\ {h \in Halves : rank_neigh(r, h) = s} \in SUBSET Halves
  BY <1>1
<1>7. From(s, r) = <<>> <=> From(r, s) = <<>>
  BY <1>3, <1>4, <1>5, <1>6 DEF From
<1>8. ASSUME nranks > 1 PROVE From(r, r) = <<>>
  <2>1. \A h \in Halves : rank_neigh(r, h) # r
    <3>1. PICK n \in Nat : n = nranks /\ n > 1 /\ r \in 0 .. n - 1
      BY <1>8 DEF Ranks
    <3>2. (r + 1) % n = IF r = n - 1 THEN 0 ELSE r + 1
      <4>1. CASE r = n - 1
        BY <3>1, <4>1
      <4>2. CASE r # n - 1
        BY <3>1, <4>2
      <4> QED BY <4>1, <4>2
    <3>3. (r + n - 1) % n = IF r = 0 THEN n - 1 ELSE r - 1
      <4>1. CASE r = 0
        BY <3>1, <4>1
      <4>2. CASE r # 0
        <5>1. (r + n - 1) % n = (r - 1) % n
          BY <3>1, <4>2
        <5> QED BY <3>1, <4>2, <5>1
      <4> QED BY <4>1, <4>2
    <3> QED BY <3>1, <3>2, <3>3 DEF rank_neigh, Halves
  <2>2. {h \in Halves : rank_neigh(r, h) = r} = {}
    BY <2>1
  <2> QED BY <1>5, <2>2 DEF From
<1>9. /\ From(s, r) \in Seq(Halves)
      /\ \A k \in 1 .. Len(From(s, r)) : From(s, r)[k] \in S
      /\ \A h \in S : \E k \in 1 .. Len(From(s, r)) : From(s, r)[k] = h
  BY <1>3, <1>5, <1>6
<1>10. /\ \A k \in 1 .. Len(From(s, r)) : From(s, r)[k] \in Halves /\ rank_neigh(s, From(s, r)[k]) = r
       /\ \A h \in Halves : rank_neigh(s, h) = r => \E k \in 1 .. Len(From(s, r)) : From(s, r)[k] = h
  BY <1>1, <1>9
<1>11. To(r, s) = From(s, r)
  BY <1>3
<1> QED BY <1>7, <1>8, <1>9, <1>10, <1>11

-----------------------------------------------------------------------------
\* Exchanges that follow the same one are the same.
LEMMA Following ==
  ASSUME prog \in Seq(Ops), NEW i \in 1 .. Len(prog), NEW j \in 1 .. Len(prog),
         Exchange(i), Exchange(j), LastX(i - 1) = LastX(j - 1)
  PROVE  i = j /\ LastX(i - 1) < i
<1>1. i \in Nat /\ j \in Nat /\ Len(prog) \in Nat /\ i > 0 /\ j > 0 /\ i - 1 \in Nat /\ j - 1 \in Nat
  OBVIOUS
<1>2. LastX(i - 1) \in 0 .. i - 1 /\ \A k \in 1 .. i - 1 : Exchange(k) => k <= LastX(i - 1)
  BY <1>1, Exchanges
<1>3. LastX(j - 1) \in 0 .. j - 1 /\ \A k \in 1 .. j - 1 : Exchange(k) => k <= LastX(j - 1)
  BY <1>1, Exchanges
<1>4. ~ i < j
  BY <1>1, <1>2, <1>3
<1>5. ~ j < i
  BY <1>1, <1>2, <1>3
<1> QED BY <1>1, <1>2, <1>4, <1>5

\* Where nothing is asked for nothing is sent.
LEMMA LineSilent ==
  ASSUME nranks \in Nat \ {0}, NEW r \in Ranks, NEW s \in Ranks, NEW c, From(s, r) = <<>>,
         NEW q \in Seq(Parcels), NEW p \in Seq(Halves), NEW x \in Nat, NEW y \in Nat
  PROVE  /\ Line(r, s, c, q, p, x, y) => q = <<>> /\ p = <<>>
         /\ Line(r, s, c, <<>>, <<>>, x, y)
<1>1. ASSUME Line(r, s, c, q, p, x, y) PROVE q = <<>> /\ p = <<>>
  <2>1. Len(p) \in Nat /\ (Len(p) = 0 => p = <<>>) /\ Len(q) \in Nat /\ (Len(q) = 0 => q = <<>>)
    OBVIOUS
  <2>2. Len(From(s, r)) = 0 /\ \A h \in Halves : rank_neigh(s, h) # r
    <3>1. Len(From(s, r)) = 0
      OBVIOUS
    <3> QED BY <3>1, Facing
  <2>3. ~ (1 \in 1 .. Len(p))
    BY <1>1, <2>2 DEF Line
  <2>4. p = <<>> /\ Len(p) = 0
    BY <2>1, <2>3
  <2>5. x < y \/ x = y \/ x > y
    OBVIOUS
  <2>6. Len(q) = 0 \/ q = <<>>
    BY <1>1, <2>2, <2>4, <2>5 DEF Line
  <2> QED BY <2>1, <2>4, <2>6
<1>2. Line(r, s, c, <<>>, <<>>, x, y)
  <2>1. Len(<<>>) = 0 /\ 0 <= 0 /\ 0 + 0 = 0 /\ \A k \in 1 .. 0 : FALSE
    OBVIOUS
  <2> QED BY <2>1 DEF Line
<1> QED BY <1>1, <1>2

\* A rank sends, ...
LEMMA LineSent ==
  ASSUME Typed, NEW r \in Ranks, NEW s \in Ranks, NEW c \in Comms,
         NEW i \in 1 .. Len(prog), Exchange(i), NEW x \in Nat, x = LastX(i - 1),
         NEW y \in Nat, y > 0 => y \in 1 .. Len(prog) /\ Exchange(y),
         Line(r, s, c, sends[r][s][c], recvs[s][r][c], x, y), Adjacent(x, y), y >= x,
         \A h \in Halves : send_buf[r][h] = Good(r, h, i),
         sends'[r][s][c] = IF c = Comm(prog[i]) THEN sends[r][s][c] \o Messages(r, s) ELSE sends[r][s][c]
  PROVE  Line(r, s, c, sends'[r][s][c], recvs[s][r][c], i, y) /\ Adjacent(i, y)
<1> PICK q, p, q1 : q = sends[r][s][c] /\ p = recvs[s][r][c] /\ q1 = sends'[r][s][c]
  OBVIOUS
<1> SUFFICES Line(r, s, c, q1, p, i, y) /\ Adjacent(i, y)
  OBVIOUS
<1>0. /\ q \in Seq(Parcels) /\ p \in Seq(Halves) /\ Line(r, s, c, q, p, x, y)
      /\ q1 = IF c = Comm(prog[i]) THEN q \o Messages(r, s) ELSE q
  BY DEF Typed, Filled
<1>1. prog \in Seq(Ops) /\ nranks \in Nat \ {0} /\ i \in Nat /\ x < i
  BY Sizes, Following DEF Typed, Placed
<1>2. PICK a : a = From(s, r)
  OBVIOUS
<1>3. PICK m : m = Messages(r, s)
  OBVIOUS
<1>4. a \in Seq(Halves) /\ a = To(r, s) /\ \A k \in 1 .. Len(a) : a[k] \in Halves /\ rank_neigh(s, a[k]) = r
  BY <1>1, <1>2, Facing
<1>5. /\ m \in Seq(Parcels) /\ Len(m) = Len(a)
      /\ \A k \in 1 .. Len(a) : m[k] = [half |-> 1 - a[k], piece |-> NoPiece, taken |-> FALSE]
  BY <1>3, <1>4, Messaging
<1>6. \A k \in 1 .. Len(a) : Carries(r, m[k], a[k], i)
  <2> TAKE k \in 1 .. Len(a)
  <2>1. a[k] \in Halves /\ 1 - a[k] \in Halves
    BY <1>4 DEF Halves
  <2>2. m[k].half = 1 - a[k] /\ ~ m[k].taken
    <3>1. m[k] = [half |-> 1 - a[k], piece |-> NoPiece, taken |-> FALSE]
      BY <1>5
    <3> QED BY <3>1
  <2>3. Contents(r, m[k]) = send_buf[r][1 - a[k]]
    BY <2>2 DEF Contents
  <2> QED BY <2>1, <2>2, <2>3 DEF Carries
<1>7. /\ Len(q) \in Nat /\ Len(p) \in Nat /\ Len(a) \in Nat
      /\ \A k \in 1 .. Len(q) : (q \o m)[k] = q[k]
      /\ \A k \in 1 .. Len(a) : (q \o m)[Len(q) + k] = m[k]
      /\ Len(q \o m) = Len(q) + Len(a)
  <2>1. m \in Seq(Parcels) /\ Len(m) = Len(a)
    BY <1>5
  <2>2. Len(q) \in Nat /\ Len(p) \in Nat /\ Len(m) \in Nat
    <3>1. q \in Seq(Parcels) /\ p \in Seq(Halves)
      BY <1>0
    <3> QED BY <2>1, <3>1
  <2>3. /\ Len(q \o m) = Len(q) + Len(m)
        /\ \A k \in 1 .. Len(q) + Len(m) : (q \o m)[k] = IF k <= Len(q) THEN q[k] ELSE m[k - Len(q)]
    <3>1. q \in Seq(Parcels) /\ m \in Seq(Parcels)
      BY <1>0, <2>1
    <3> QED BY <3>1, ConcatProperties
  <2>4. \A k \in 1 .. Len(q) : k \in 1 .. Len(q) + Len(m) /\ k <= Len(q)
    BY <2>2
  <2>5. \A k \in 1 .. Len(m) : Len(q) + k \in 1 .. Len(q) + Len(m) /\ ~ Len(q) + k <= Len(q) /\ Len(q) + k - Len(q) = k
    BY <2>2
  <2>6. \A k \in 1 .. Len(m) : (q \o m)[Len(q) + k] = m[k]
    BY <2>3, <2>5
  <2>7. \A k \in 1 .. Len(q) : (q \o m)[k] = q[k]
    BY <2>3, <2>4
  <2> QED BY <2>1, <2>2, <2>3, <2>6, <2>7
<1>8. /\ p # <<>> => y > 0 /\ c = Comm(prog[y])
      /\ \A k \in 1 .. Len(p) : p[k] \in Halves /\ rank_neigh(s, p[k]) = r
  BY <1>0 DEF Line
<1>9. CASE y = x
  <2>1. Len(q) = Len(p) /\ \A k \in 1 .. Len(p) : Carries(r, q[k], p[k], y)
    BY <1>0, <1>9 DEF Line
  <2>2. CASE c = Comm(prog[i])
    <3>1. q1 = q \o m
      BY <1>0, <1>3, <2>2
    <3>2. /\ Len(q1) = Len(p) + Len(a) /\ \A k \in 1 .. Len(p) : Carries(r, q1[k], p[k], y)
          /\ \A k \in 1 .. Len(a) : Carries(r, q1[Len(p) + k], a[k], i)
      <4>1. Len(q1) = Len(p) + Len(a)
        BY <1>7, <2>1, <3>1
      <4>2. ASSUME NEW k \in 1 .. Len(p) PROVE Carries(r, q1[k], p[k], y)
        <5>1. q1[k] = q[k]
          BY <1>7, <2>1, <3>1
        <5> QED BY <2>1, <5>1
      <4>3. ASSUME NEW k \in 1 .. Len(a) PROVE Carries(r, q1[Len(p) + k], a[k], i)
        <5>1. q1[Len(p) + k] = m[k]
          BY <1>7, <2>1, <3>1
        <5> QED BY <1>6, <5>1
      <4> QED BY <4>1, <4>2, <4>3
    <3>3. i > y /\ ~ i < y /\ i # y /\ i >= y /\ Len(p) <= Len(q1) /\ y = LastX(i - 1)
      <4>1. i \in Nat /\ y \in Nat /\ y < i /\ y = LastX(i - 1)
        BY <1>1, <1>9
      <4>2. Len(p) <= Len(q1)
        <5>1. Len(p) \in Nat /\ Len(a) \in Nat
          BY <1>7
        <5>2. Len(q1) = Len(p) + Len(a)
          BY <3>2
        <5> QED BY <5>1, <5>2
      <4> QED BY <4>1, <4>2
    <3>4. Line(r, s, c, q1, p, i, y)
      BY <1>2, <1>8, <2>2, <3>2, <3>3 DEF Line
    <3> QED BY <3>3, <3>4 DEF Adjacent
  <2>3. CASE c # Comm(prog[i])
    <3>1. q1 = q
      BY <1>0, <2>3
    <3>2. i > y /\ ~ i < y /\ i # y /\ Len(p) <= Len(q) /\ y = LastX(i - 1)
      <4>1. i \in Nat /\ y \in Nat /\ y < i /\ y = LastX(i - 1)
        BY <1>1, <1>9
      <4>2. Len(p) <= Len(q)
        BY <1>7, <2>1
      <4> QED BY <4>1, <4>2
    <3>3. Line(r, s, c, q, p, i, y)
      BY <1>8, <2>1, <2>3, <3>2 DEF Line
    <3> QED BY <3>1, <3>2, <3>3 DEF Adjacent
  <2> QED BY <2>2, <2>3
<1>10. CASE y > x
  <2>1. y = i
    <3>1. x = LastX(y - 1) /\ y \in 1 .. Len(prog) /\ Exchange(y)
      BY <1>10 DEF Adjacent
    <3> QED BY <1>1, <3>1, Following
  <2>2. q = <<>> /\ p = IF c = Comm(prog[i]) THEN a ELSE <<>>
    BY <1>0, <1>2, <1>10, <2>1 DEF Line
  <2>3. CASE c = Comm(prog[i])
    <3>1. q1 = m /\ p = a
      BY <1>0, <1>3, <1>5, <2>2, <2>3
    <3>2. Len(m) = Len(a) /\ Len(a) <= Len(m)
      BY <1>5, <1>7
    <3>3. i > 0 /\ c = Comm(prog[i])
      <4>1. i > 0
        BY <1>1
      <4> QED BY <2>3, <4>1
    <3>4. Line(r, s, c, m, a, i, i)
      <4>1. ~ i < i /\ ~ i > i /\ i >= i
        BY <1>1
      <4> HIDE <1>10, <2>1, <2>2, <3>1
      <4> QED BY <1>4, <1>6, <3>2, <3>3, <4>1 DEF Line
    <3> QED BY <2>1, <3>1, <3>4 DEF Adjacent
  <2>4. CASE c # Comm(prog[i])
    <3>1. q1 = <<>> /\ p = <<>> /\ Len(q1) = 0 /\ Len(p) = 0
      BY <1>0, <2>2, <2>4
    <3>2. \A k \in 1 .. Len(p) : FALSE
      BY <3>1
    <3> QED BY <1>1, <1>8, <2>1, <3>1, <3>2 DEF Line, Adjacent
  <2> QED BY <2>3, <2>4
<1> QED BY <1>9, <1>10

\* ... or asks for what another one sends.
LEMMA LineAsked ==
  ASSUME Typed, NEW r \in Ranks, NEW s \in Ranks, NEW c \in Comms,
         NEW i \in 1 .. Len(prog), Exchange(i), NEW y \in Nat, y = LastX(i - 1),
         NEW x \in Nat, x > 0 => x \in 1 .. Len(prog) /\ Exchange(x),
         Line(r, s, c, sends[r][s][c], recvs[s][r][c], x, y), Adjacent(x, y), x >= y,
         recvs[s][r][c] = <<>>, recvs'[s][r][c] = IF c = Comm(prog[i]) THEN From(s, r) ELSE <<>>
  PROVE  Line(r, s, c, sends[r][s][c], recvs'[s][r][c], x, i) /\ Adjacent(x, i)
<1> PICK q, p, p1 : q = sends[r][s][c] /\ p = <<>> /\ p1 = recvs'[s][r][c]
  OBVIOUS
<1> SUFFICES Line(r, s, c, q, p1, x, i) /\ Adjacent(x, i)
  OBVIOUS
<1>0. /\ q \in Seq(Parcels) /\ p = <<>> /\ Line(r, s, c, q, p, x, y)
      /\ p1 = IF c = Comm(prog[i]) THEN From(s, r) ELSE <<>>
  BY DEF Typed, Filled
<1>1. prog \in Seq(Ops) /\ nranks \in Nat \ {0} /\ i \in Nat /\ i > 0 /\ y < i
  BY Sizes, Following DEF Typed, Placed
<1>2. PICK a : a = From(s, r)
  OBVIOUS
<1>4. a \in Seq(Halves) /\ \A k \in 1 .. Len(a) : a[k] \in Halves /\ rank_neigh(s, a[k]) = r
  BY <1>1, <1>2, Facing
<1>5. /\ Len(q) \in Nat /\ Len(p) = 0 /\ Len(a) \in Nat /\ (Len(q) = 0 => q = <<>>)
      /\ Len(<<>>) = 0 /\ \A k \in 1 .. 0 : FALSE
  BY <1>0, <1>4
<1>6. /\ p1 # <<>> => i > 0 /\ c = Comm(prog[i])
      /\ \A k \in 1 .. Len(p1) : p1[k] \in Halves /\ rank_neigh(s, p1[k]) = r
      /\ c = Comm(prog[i]) => p1 = a
      /\ c # Comm(prog[i]) => p1 = <<>>
  BY <1>0, <1>1, <1>2, <1>4, <1>5
<1>7. CASE x = y
  <2>1. q = <<>> /\ x < i
    BY <1>0, <1>1, <1>5, <1>7 DEF Line
  <2> QED BY <1>1, <1>6, <1>7, <2>1 DEF Line, Adjacent
<1>8. CASE x > y
  <2>1. x = i
    <3>1. y = LastX(x - 1) /\ x \in 1 .. Len(prog) /\ Exchange(x)
      BY <1>8 DEF Adjacent
    <3> QED BY <1>1, <3>1, Following
  <2>2. CASE c = Comm(prog[i])
    <3>1. Len(q) = 0 + Len(a) /\ \A k \in 1 .. Len(a) : Carries(r, q[0 + k], a[k], i)
      BY <1>0, <1>2, <1>5, <1>8, <2>1, <2>2 DEF Line
    <3>2. \A k \in 1 .. Len(a) : 0 + k = k
      BY <1>5
    <3>3. Len(q) = Len(p1) /\ \A k \in 1 .. Len(p1) : Carries(r, q[k], p1[k], i)
      BY <1>5, <1>6, <2>2, <3>1, <3>2
    <3> QED BY <1>1, <1>5, <1>6, <2>1, <3>3 DEF Line, Adjacent
  <2>3. CASE c # Comm(prog[i])
    <3>1. Len(q) = 0 /\ p1 = <<>> /\ Len(p1) = 0
      BY <1>0, <1>5, <1>6, <1>8, <2>1, <2>3 DEF Line
    <3> QED BY <1>1, <1>5, <1>6, <2>1, <3>1 DEF Line, Adjacent
  <2> QED BY <2>2, <2>3
<1> QED BY <1>7, <1>8

\* The first message is the one the first receive is for.
LEMMA LineTail ==
  ASSUME NEW r, NEW s, NEW c, NEW q \in Seq(Parcels), NEW p \in Seq(Halves), NEW x \in Nat, NEW y \in Nat,
         Line(r, s, c, q, p, x, y), Len(q) > 0, Len(p) > 0, From(s, r) \in Seq(Halves)
  PROVE  /\ Line(r, s, c, Tail(q), Tail(p), x, y)
         /\ Carries(r, q[1], p[1], y) /\ c = Comm(prog[y]) /\ y > 0
         /\ p[1] \in Halves /\ rank_neigh(s, p[1]) = r
<1>1. /\ Len(q) \in Nat /\ Len(p) \in Nat /\ q # <<>> /\ p # <<>>
      /\ Len(Tail(q)) = Len(q) - 1 /\ Len(Tail(p)) = Len(p) - 1
      /\ \A k \in 1 .. Len(q) - 1 : Tail(q)[k] = q[k + 1]
      /\ \A k \in 1 .. Len(p) - 1 : Tail(p)[k] = p[k + 1]
  OBVIOUS
<1>2. PICK a : a = From(s, r) /\ Len(a) \in Nat
  OBVIOUS
<1>3. x >= y /\ y > 0 /\ c = Comm(prog[y])
  <2>1. x < y => q = <<>>
    BY DEF Line
  <2>2. p # <<>> => y > 0 /\ c = Comm(prog[y])
    BY DEF Line
  <2> QED BY <1>1, <2>1, <2>2
<1>4. /\ Len(p) <= Len(q)
      /\ \A k \in 1 .. Len(p) : p[k] \in Halves /\ rank_neigh(s, p[k]) = r /\ Carries(r, q[k], p[k], y)
      /\ x = y => Len(q) = Len(p)
      /\ x > y /\ c = Comm(prog[x]) =>
           Len(q) = Len(p) + Len(a) /\ \A k \in 1 .. Len(a) : Carries(r, q[Len(p) + k], a[k], x)
      /\ x > y /\ c # Comm(prog[x]) => Len(q) = Len(p)
  BY <1>2, <1>3 DEF Line
<1>5. \A k \in 1 .. Len(p) - 1 :
        /\ k \in 1 .. Len(q) - 1 /\ k + 1 \in 1 .. Len(p)
        /\ Tail(p)[k] = p[k + 1] /\ Tail(q)[k] = q[k + 1]
  <2>1. Len(p) <= Len(q) /\ Len(q) \in Nat /\ Len(p) \in Nat
    BY <1>1, <1>4
  <2>2. \A k \in 1 .. Len(p) - 1 : k \in 1 .. Len(q) - 1 /\ k + 1 \in 1 .. Len(p)
    BY <2>1
  <2> QED BY <1>1, <2>2
<1>6. ASSUME x > y, c = Comm(prog[x])
      PROVE  \A k \in 1 .. Len(a) : Tail(q)[Len(p) - 1 + k] = q[Len(p) + k]
  <2>1. Len(q) = Len(p) + Len(a)
    BY <1>4, <1>6
  <2>2. \A k \in 1 .. Len(a) : Len(p) - 1 + k \in 1 .. Len(q) - 1 /\ Len(p) - 1 + k + 1 = Len(p) + k
    BY <1>1, <1>2, <2>1
  <2> QED BY <1>1, <2>2
<1>7. PICK b, d : b = Tail(q) /\ d = Tail(p)
  OBVIOUS
<1>8. /\ d # <<>> => y > 0 /\ c = Comm(prog[y])
      /\ \A k \in 1 .. Len(d) : d[k] \in Halves /\ rank_neigh(s, d[k]) = r
      /\ Len(d) <= Len(b) /\ \A k \in 1 .. Len(d) : Carries(r, b[k], d[k], y)
      /\ x = y => Len(b) = Len(d)
      /\ x > y /\ c # Comm(prog[x]) => Len(b) = Len(d)
  <2>1. Len(b) = Len(q) - 1 /\ Len(d) = Len(p) - 1 /\ Len(q) \in Nat /\ Len(p) \in Nat
    BY <1>1, <1>7
  <2>2. /\ Len(d) <= Len(b) /\ (x = y => Len(b) = Len(d)) /\ (x > y /\ c # Comm(prog[x]) => Len(b) = Len(d))
    <3>1. Len(p) <= Len(q) /\ (x = y => Len(q) = Len(p)) /\ (x > y /\ c # Comm(prog[x]) => Len(q) = Len(p))
      BY <1>4
    <3> QED BY <2>1, <3>1
  <2>3. ASSUME NEW k \in 1 .. Len(d) PROVE d[k] \in Halves /\ rank_neigh(s, d[k]) = r /\ Carries(r, b[k], d[k], y)
    <3>1. d[k] = p[k + 1] /\ b[k] = q[k + 1] /\ k + 1 \in 1 .. Len(p)
      BY <1>5, <1>7, <2>1
    <3> QED BY <1>4, <3>1
  <2> QED BY <1>3, <2>2, <2>3
<1>9. x > y /\ c = Comm(prog[x]) =>
         /\ Len(b) = Len(d) + Len(a)
         /\ \A k \in 1 .. Len(a) : Carries(r, b[Len(d) + k], a[k], x)
  <2> SUFFICES ASSUME x > y, c = Comm(prog[x])
               PROVE  /\ Len(b) = Len(d) + Len(a)
                      /\ \A k \in 1 .. Len(a) : Carries(r, b[Len(d) + k], a[k], x)
    OBVIOUS
  <2>1. Len(b) = Len(q) - 1 /\ Len(d) = Len(p) - 1 /\ Len(q) \in Nat /\ Len(p) \in Nat
    BY <1>1, <1>7
  <2>2. Len(q) = Len(p) + Len(a) /\ \A k \in 1 .. Len(a) : Carries(r, q[Len(p) + k], a[k], x)
    BY <1>4
  <2>3. \A k \in 1 .. Len(a) : b[Len(d) + k] = q[Len(p) + k]
    BY <1>6, <1>7, <2>1
  <2>4. Len(b) = Len(d) + Len(a)
    BY <1>2, <2>1, <2>2
  <2> QED BY <2>2, <2>3, <2>4
<1>10. Line(r, s, c, b, d, x, y)
  BY <1>2, <1>3, <1>8, <1>9 DEF Line
<1>11. 1 \in 1 .. Len(p)
  BY <1>1
<1> QED BY <1>3, <1>4, <1>7, <1>10, <1>11

-----------------------------------------------------------------------------
\* What is said of the operation a master is at stays.
LEMMA PlaceTold ==
  ASSUME prog \in Seq(Ops), \A k \in 1 .. Len(prog) : prog'[k] = prog[k],
         NEW i \in Nat, i <= Len(prog), NEW l, i > 0 \/ l \in Ended
  PROVE  /\ XAt(l, i)' = XAt(l, i) /\ (AwaitAt(l, i)' <=> AwaitAt(l, i))
         /\ XAt(l, i) \in Nat
         /\ XAt(l, i) > 0 => XAt(l, i) \in 1 .. Len(prog) /\ Exchange(XAt(l, i))
<1>1. Len(prog) \in Nat /\ (l \in Ahead => i > 0)
  BY DEF Ended, Ahead
<1>2. PICK n : n = IF l \in Ahead THEN i - 1 ELSE i
  OBVIOUS
<1>3. n \in Nat /\ n <= Len(prog)
  BY <1>1, <1>2
<1>4. XAt(l, i)' = LastX(n)' /\ XAt(l, i) = LastX(n)
  BY <1>2 DEF XAt
<1>5. LastX(n)' = LastX(n)
  BY <1>3, ToldMore
<1>6. LastX(n) \in 0 .. n /\ (LastX(n) > 0 => Exchange(LastX(n)))
  BY <1>3, Exchanges
<1>7. PICK m : m = IF l \in Ended THEN i + 1 ELSE i
  OBVIOUS
<1>8. Talking(m)' = Talking(m)
  <2>1. m \in Nat /\ m <= Len(prog) + 1
    BY <1>1, <1>7
  <2> QED BY <2>1, ToldMore
<1>9. l \notin Ended => (Talks(i)' <=> Talks(i)) /\ prog'[i] = prog[i]
  <2>1. ASSUME i > 0 PROVE (Talks(i)' <=> Talks(i)) /\ prog'[i] = prog[i]
    <3>1. i \in 1 .. Len(prog) /\ i <= Len(prog) + 1
      BY <1>1, <2>1
    <3>2. Talks(i)' <=> Talks(i)
      BY <2>1, <3>1, Told
    <3> QED BY <3>1, <3>2
  <2> QED BY <2>1
<1>10. AwaitAt(l, i)' <=> AwaitAt(l, i)
  <2>1. AwaitAt(l, i) <=>
          \/ l \in {"finish", "wait"} /\ prog[i].kind = "read" /\ Talks(i)
          \/ Talking(m) # {} /\ (l \in Ended \cup {"finish", "wait"} \/ prog[i].kind = "update")
    BY <1>7 DEF AwaitAt
  <2>2. AwaitAt(l, i)' <=>
          \/ l \in {"finish", "wait"} /\ prog'[i].kind = "read" /\ Talks(i)'
          \/ Talking(m)' # {} /\ (l \in Ended \cup {"finish", "wait"} \/ prog'[i].kind = "update")
    BY <1>7 DEF AwaitAt, Ended
  <2>3. CASE l \in Ended
    <3>1. l \notin {"finish", "wait"}
      BY <2>3 DEF Ended
    <3> QED BY <1>8, <2>1, <2>2, <2>3, <3>1
  <2>4. CASE l \notin Ended
    BY <1>8, <1>9, <2>1, <2>2, <2>4
  <2> QED BY <2>3, <2>4
<1> QED BY <1>1, <1>3, <1>4, <1>5, <1>6, <1>10

\* When a master has yet to wait.
LEMMA AwaitIs ==
  ASSUME prog \in Seq(Ops), ProgInv, NEW i \in 1 .. Len(prog), NEW l
  PROVE  /\ l \in Ended => (AwaitAt(l, i) <=> Talking(i + 1) # {})
         /\ l \notin Ended /\ prog[i].kind = "update" => (AwaitAt(l, i) <=> Talking(i) # {})
         /\ l \in {"finish", "wait"} /\ prog[i].kind \in {"read", "finish"} =>
              (AwaitAt(l, i) <=> Talks(i))
         /\ l \notin Ended \cup {"finish", "wait"} /\ prog[i].kind # "update" => ~ AwaitAt(l, i)
<1>1. /\ prog[i].kind = "read" => Talking(i) = {}
      /\ prog[i].kind = "finish" => (Talks(i) <=> Talking(i) # {})
  BY TalkingNext
<1>2. l \in Ended => l \notin {"finish", "wait"}
  BY DEF Ended
<1>3. l \in Ended => (AwaitAt(l, i) <=> Talking(i + 1) # {})
  BY <1>2 DEF AwaitAt
<1>4. l \notin Ended /\ prog[i].kind = "update" => (AwaitAt(l, i) <=> Talking(i) # {})
  BY DEF AwaitAt
<1>5. l \in {"finish", "wait"} /\ prog[i].kind = "read" => (AwaitAt(l, i) <=> Talks(i))
  BY <1>1, <1>2 DEF AwaitAt
<1>6. l \in {"finish", "wait"} /\ prog[i].kind = "finish" => (AwaitAt(l, i) <=> Talks(i))
  BY <1>1, <1>2 DEF AwaitAt
<1>7. l \notin Ended \cup {"finish", "wait"} /\ prog[i].kind # "update" => ~ AwaitAt(l, i)
  BY DEF AwaitAt
<1> QED BY <1>3, <1>4, <1>5, <1>6, <1>7

\* Threads communicate when there is something to.
LEMMA Decided ==
  ASSUME Typed, ProgInv, nparal_dir > 0, NEW r \in Ranks, PhaseOf(r), NEW t \in Threads,
         Advance(r, t), ~ Call(r, t)
  PROVE  /\ pc[r][t] = "start" => (pc'[r][t] = "fill" <=> Talks(ip[r][t]))
         /\ pc[r][t] = "finish" => (pc'[r][t] = "wait" <=> Talks(ip[r][t]))
<1>0. PICK i, l : i = ip[r][t] /\ l = pc[r][t]
  OBVIOUS
<1> SUFFICES ASSUME l \in {"start", "finish"}
             PROVE  /\ l = "start" => (pc'[r][t] = "fill" <=> Talks(i))
                    /\ l = "finish" => (pc'[r][t] = "wait" <=> Talks(i))
  BY <1>0
<1>1. i \in 1 .. Len(prog) /\ op(r, t) = prog[i] /\ op(r, t) \in Ops /\ prog \in Seq(Ops)
  <2>1. pc[r][t] \notin Ended
    BY <1>0 DEF Ended
  <2> QED BY <1>0, <2>1, AtOp DEF Typed, Placed
<1>2. /\ l = "start" => (pc'[r][t] = "fill" <=> \E v \in ToSet(op(r, t).vs) : ~ valid[r][v])
      /\ l = "finish" => (pc'[r][t] = "wait" <=> Busy(r, op(r, t).vs))
  <2>0. PICK o : o = op(r, t)
    OBVIOUS
  <2>1. ASSUME pc[r][t] = "start" PROVE pc'[r][t] = "fill" <=> \E v \in ToSet(o.vs) : ~ valid[r][v]
    <3>1. pc'[r][t] = IF \E v \in ToSet(o.vs) : ~ valid[r][v] THEN "fill"
                      ELSE IF o.kind = "start" THEN "next" ELSE "finish"
      BY <2>0, <2>1, GoesTo
    <3> QED BY <3>1
  <2>2. ASSUME pc[r][t] = "finish" PROVE pc'[r][t] = "wait" <=> Busy(r, o.vs)
    <3>1. pc'[r][t] = IF Busy(r, o.vs) THEN "wait" ELSE IF o.kind = "read" THEN "loop" ELSE "next"
      BY <2>0, <2>2, GoesTo
    <3> QED BY <3>1
  <2> QED BY <1>0, <2>0, <2>1, <2>2
<1>3. PICK n \in 0 .. Len(prog) :
        \/ Between(r, n) \/ Posting(r, n) \/ Unpacking(r, n) \/ (\E a \in {1, 2} : Setting(r, n, a))
        \/ Second(r, n) \/ Using(r, n)
  BY DEF PhaseOf
<1>4. CASE Between(r, n)
  <2>1. Passing(r, t, n) /\ Marked(r, CommsOf(n + 1))
    BY <1>4 DEF Between
  <2>2. /\ l = "start" => prog[i].kind \in {"read", "start"}
        /\ l = "finish" => prog[i].kind = "finish" \/ (prog[i].kind = "read" /\ ~ Talks(i))
        /\ Cur(r, t) = i
    <3>1. pc[r][t] \notin Ended
      BY <1>0 DEF Ended
    <3> QED BY <1>0, <1>1, <2>1, <3>1, PassingAt
  <2>3. FlagsAt(r, i, {}) /\ CommsOf(i) = CommsOf(n + 1) /\ \A c \in CommsOf(i) : comm_in_prog[r][c]
    BY <1>0, <2>1, <2>2 DEF Passing, CommsOf
  <2>4. /\ (\E v \in ToSet(prog[i].vs) : ~ valid[r][v]) <=> Talks(i)
        /\ prog[i].kind = "finish" => (Busy(r, prog[i].vs) <=> Talks(i))
        /\ prog[i].kind = "read" /\ ~ Talks(i) => ~ Busy(r, prog[i].vs)
    BY <1>1, <2>1, <2>3, Decides
  <2> QED BY <1>1, <1>2, <2>2, <2>4
<1>5. CASE Posting(r, n)
  <2>1. /\ i = n /\ l = "finish" /\ prog[i].kind = "read" /\ Talks(i) /\ comm_in_prog[r][Comm(prog[i])]
        /\ FlagsAt(r, i, {})
    BY <1>0, <1>5 DEF Posting
  <2>2. Busy(r, prog[i].vs)
    BY <1>1, <2>1, Decides
  <2> QED BY <1>1, <1>2, <2>1, <2>2
<1>6. ASSUME Unpacking(r, n) \/ (\E a \in {1, 2} : Setting(r, n, a)) \/ Second(r, n) \/ Using(r, n)
      PROVE  FALSE
  <2>1. l \in {"unpack", "flag", "flag1", "flag2", "setflag", "loop", "looped"}
    BY <1>0, <1>6 DEF Unpacking, Setting, Second, Using
  <2> QED BY <2>1
<1> QED BY <1>3, <1>4, <1>5, <1>6

\* The places between which neither the exchange nor the waiting changes.
Beside(l, m, i) ==
  \/ l \in Ahead /\ m \in Ahead /\ prog[i].kind \in {"read", "start"}
  \/ l = "start" /\ m \in {"finish", "next"} /\ prog[i].kind \in {"read", "start"} /\ ~ Talks(i)
  \/ l = "finish" /\ m \in {"loop", "next"} /\ prog[i].kind \in {"read", "finish"} /\ ~ Talks(i)
  \/ l = "finish" /\ m = "wait"
  \/ l \in {"write", "flag", "flag1", "setflag", "flag2"} /\ m \in {"write", "flag", "flag1", "setflag", "flag2"}
  \/ /\ l \in {"waited", "unpack", "flag2", "loop", "looped"} /\ m \in {"unpack", "flag", "loop", "looped", "next"}
     /\ prog[i].kind \in {"read", "finish"}
  \/ l = "flag2" /\ m = "next" /\ prog[i].kind = "update"

\* Threads at the same phase of one operation are at the same exchange, and wait
\* for it alike.
LEMMA Besides ==
  ASSUME prog \in Seq(Ops), ProgInv, NEW i \in 1 .. Len(prog), NEW l, NEW m, Beside(l, m, i)
  PROVE  XAt(m, i) = XAt(l, i) /\ (AwaitAt(m, i) <=> AwaitAt(l, i))
<1>1. /\ prog[i].kind = "start" => Talking(i) = {} /\ Talking(i + 1) = IF Talks(i) THEN {i} ELSE {}
      /\ prog[i].kind = "read" => Talking(i) = {} /\ Talking(i + 1) = {}
      /\ prog[i].kind = "finish" => Talking(i + 1) = {} /\ (Talks(i) <=> Talking(i) # {})
      /\ prog[i].kind = "update" => Talking(i + 1) = Talking(i)
  BY TalkingNext
<1>2. \A k : /\ k \in Ended => (AwaitAt(k, i) <=> Talking(i + 1) # {})
             /\ k \notin Ended /\ prog[i].kind = "update" => (AwaitAt(k, i) <=> Talking(i) # {})
             /\ k \in {"finish", "wait"} /\ prog[i].kind \in {"read", "finish"} => (AwaitAt(k, i) <=> Talks(i))
             /\ k \notin Ended \cup {"finish", "wait"} /\ prog[i].kind # "update" => ~ AwaitAt(k, i)
  BY AwaitIs
<1>3. i \in Nat /\ i > 0 /\ i <= Len(prog) /\ Len(prog) \in Nat
  OBVIOUS
<1>4. ~ Exchange(i) => LastX(i) = LastX(i - 1)
  BY <1>3, Exchanges
<1>5. CASE l \in Ahead /\ m \in Ahead /\ prog[i].kind \in {"read", "start"}
  <2>1. l \notin Ended \cup {"finish", "wait"} /\ m \notin Ended \cup {"finish", "wait"}
    BY <1>5 DEF Ahead, Ended
  <2> QED BY <1>2, <1>5, <2>1 DEF XAt
<1>6. CASE l = "start" /\ m \in {"finish", "next"} /\ prog[i].kind \in {"read", "start"} /\ ~ Talks(i)
  <2>1. l \in Ahead /\ m \notin Ahead /\ l \notin Ended \cup {"finish", "wait"}
    BY <1>6 DEF Ahead, Ended
  <2>2. XAt(m, i) = XAt(l, i)
    BY <1>4, <1>6, <2>1 DEF XAt, Exchange
  <2>3. ~ AwaitAt(l, i)
    BY <1>2, <1>6, <2>1
  <2>4. ~ AwaitAt(m, i)
    <3>1. CASE m = "next"
      <4>1. Talking(i + 1) = {} /\ m \in Ended
        BY <1>1, <1>6, <3>1 DEF Ended
      <4> QED BY <1>2, <4>1
    <3>2. CASE m = "finish"
      <4>1. CASE prog[i].kind = "read"
        BY <1>2, <1>6, <3>2, <4>1
      <4>2. CASE prog[i].kind = "start"
        BY <1>1, <3>2, <4>2 DEF AwaitAt, Ended
      <4> QED BY <1>6, <4>1, <4>2
    <3> QED BY <1>6, <3>1, <3>2
  <2> QED BY <2>2, <2>3, <2>4
<1>7. CASE l = "finish" /\ m \in {"loop", "next"} /\ prog[i].kind \in {"read", "finish"} /\ ~ Talks(i)
  <2>1. l \notin Ahead /\ m \notin Ahead
    BY <1>7 DEF Ahead
  <2>2. ~ AwaitAt(l, i)
    BY <1>2, <1>7
  <2>3. ~ AwaitAt(m, i)
    <3>1. m = "next" => m \in Ended /\ Talking(i + 1) = {}
      BY <1>1, <1>7 DEF Ended
    <3>2. m = "loop" => m \notin Ended \cup {"finish", "wait"} /\ prog[i].kind # "update"
      BY <1>7 DEF Ended
    <3> QED BY <1>2, <1>7, <3>1, <3>2
  <2> QED BY <2>1, <2>2, <2>3 DEF XAt
<1>8. CASE l = "finish" /\ m = "wait"
  BY <1>8 DEF XAt, AwaitAt, Ahead, Ended
<1>9. CASE l \in {"write", "flag", "flag1", "setflag", "flag2"} /\ m \in {"write", "flag", "flag1", "setflag", "flag2"}
  <2>1. /\ l \notin Ahead /\ m \notin Ahead
        /\ l \notin Ended \cup {"finish", "wait"} /\ m \notin Ended \cup {"finish", "wait"}
    BY <1>9 DEF Ahead, Ended
  <2>2. AwaitAt(m, i) <=> AwaitAt(l, i)
    BY <1>2, <2>1
  <2> QED BY <2>1, <2>2 DEF XAt
<1>10. CASE /\ l \in {"waited", "unpack", "flag2", "loop", "looped"} /\ m \in {"unpack", "flag", "loop", "looped", "next"}
            /\ prog[i].kind \in {"read", "finish"}
  <2>1. /\ l \notin Ahead /\ m \notin Ahead /\ prog[i].kind # "update"
        /\ l \notin Ended \cup {"finish", "wait"} /\ (m \in Ended \/ m \notin Ended \cup {"finish", "wait"})
    BY <1>10 DEF Ahead, Ended
  <2>2. ~ AwaitAt(l, i)
    BY <1>2, <2>1
  <2>3. ~ AwaitAt(m, i)
    <3>1. Talking(i + 1) = {}
      BY <1>1, <1>10
    <3> QED BY <1>2, <2>1, <3>1
  <2> QED BY <2>1, <2>2, <2>3 DEF XAt
<1>11. CASE l = "flag2" /\ m = "next" /\ prog[i].kind = "update"
  <2>1. l \notin Ahead /\ m \notin Ahead /\ l \notin Ended /\ m \in Ended
    BY <1>11 DEF Ahead, Ended
  <2>2. AwaitAt(m, i) <=> AwaitAt(l, i)
    BY <1>1, <1>2, <1>11, <2>1
  <2> QED BY <2>1, <2>2 DEF XAt
<1> QED BY <1>5, <1>6, <1>7, <1>8, <1>9, <1>10, <1>11 DEF Beside

\* The master starts or ends an exchange at two places only.
LEMMA MasterBeside ==
  ASSUME Typed, ProgInv, nparal_dir > 0, NEW r \in Ranks, PhaseOf(r), NEW t \in Threads,
         \/ Advance(r, t) /\ ~ Call(r, t) /\ ~ Post(r, t) /\ ~ Wait(r, t)
         \/ Barrier(r),
         pc[r][t] \notin Ended
  PROVE  Beside(pc[r][t], pc'[r][t], ip[r][t])
<1>1. PICK l, m, i, o : l = pc[r][t] /\ m = pc'[r][t] /\ i = ip[r][t] /\ o = op(r, t)
  OBVIOUS
<1> SUFFICES Beside(l, m, i)
  BY <1>1
<1>2. /\ i \in 1 .. Len(prog) /\ o \in Ops /\ o = prog[i] /\ l \in PCs /\ l \notin Ended
      /\ o.kind \in {"read", "start", "finish", "update"}
  <2>1. i \in 1 .. Len(prog) /\ o \in Ops /\ o = prog[i] /\ l \in PCs /\ l \notin Ended
    BY <1>1, AtOp DEF Typed
  <2> QED BY <2>1, Operations
<1>3. /\ l = "start" => o.kind \in {"read", "start"}
      /\ l \in {"fill", "filled", "post"} => o.kind \in {"read", "start"}
      /\ l = "finish" => o.kind \in {"read", "finish"}
      /\ l \in {"wait", "waited", "unpack"} => o.kind \in {"read", "finish"}
      /\ l \in {"flag", "flag1", "setflag", "flag2"} => o.kind \in {"update", "read", "finish"}
      /\ l \in {"loop", "looped"} => o.kind = "read"
  <2>1. Fetching(i) => prog[i].kind \in {"read", "finish"}
    BY DEF Fetching
  <2>2. /\ l = "start" => o.kind \in {"read", "start"}
        /\ l \in {"fill", "filled", "post"} => o.kind \in {"read", "start"}
        /\ l = "finish" => o.kind \in {"read", "finish"}
        /\ l \in {"wait", "waited", "unpack"} => Fetching(i)
        /\ l \in {"flag", "flag1", "setflag", "flag2"} => o.kind = "update" \/ Fetching(i)
        /\ l \in {"loop", "looped"} => o.kind = "read"
    BY <1>1, Where
  <2> QED BY <1>2, <2>1, <2>2
<1>4. CASE Barrier(r)
  <2>1. /\ l \in Waiting
        /\ l = "filled" => m = "post"
        /\ l = "waited" => m = "unpack"
        /\ l = "flag1" => m = "setflag"
        /\ l = "looped" => m = "next"
        /\ l = "flag2" => m = "flag" \/ m = IF o.kind = "read" THEN "loop" ELSE "next"
    BY <1>1, <1>4, BarrierEffects
  <2>2. CASE l = "filled"
    BY <1>2, <1>3, <2>1, <2>2 DEF Beside, Ahead
  <2>3. CASE l = "waited" \/ l = "looped"
    BY <1>2, <1>3, <2>1, <2>3 DEF Beside
  <2>4. CASE l = "flag1"
    BY <2>1, <2>4 DEF Beside
  <2>5. CASE l = "flag2"
    BY <1>2, <1>3, <2>1, <2>5 DEF Beside
  <2> QED BY <1>1, <2>1, <2>2, <2>3, <2>4, <2>5 DEF Waiting
<1>5. CASE Advance(r, t) /\ ~ Call(r, t) /\ ~ Post(r, t) /\ ~ Wait(r, t)
  <2>1. /\ l \notin Waiting
        /\ l = "write" => m = "flag"
        /\ l = "start" => m \in {"fill", "next", "finish"}
        /\ l = "fill" => m = "filled"
        /\ l = "finish" => m \in {"wait", "loop", "next"}
        /\ l = "unpack" => m = "flag"
        /\ l = "flag" => m \in {"flag1", "flag2"}
        /\ l = "setflag" => m = "flag2"
        /\ l = "loop" => m = "looped"
    BY <1>1, <1>5, Moves
  <2>2. l # "post" /\ l # "wait"
    BY <1>1, <1>5 DEF Advance, Exit, Write, Start, Fill, Finish, Unpack, Flag, SetFlag, Loop
  <2>3. /\ l = "start" => (m = "fill" <=> Talks(i))
        /\ l = "finish" => (m = "wait" <=> Talks(i))
    BY <1>1, <1>5, Decided
  <2>4. CASE l = "write" \/ l = "flag" \/ l = "setflag"
    BY <2>1, <2>4 DEF Beside
  <2>5. CASE l = "start" \/ l = "fill"
    <3>1. l \in Ahead
      BY <2>5 DEF Ahead
    <3>2. CASE m \in Ahead
      BY <1>2, <1>3, <2>5, <3>1, <3>2 DEF Beside
    <3>3. CASE m \notin Ahead
      BY <1>2, <1>3, <2>1, <2>3, <2>5, <3>3 DEF Beside, Ahead
    <3> QED BY <3>2, <3>3
  <2>6. CASE l = "finish"
    BY <1>2, <1>3, <2>1, <2>3, <2>6 DEF Beside
  <2>7. CASE l = "unpack" \/ l = "loop"
    BY <1>2, <1>3, <2>1, <2>7 DEF Beside
  <2> QED BY <1>1, <1>2, <2>1, <2>2, <2>4, <2>5, <2>6, <2>7 DEF PCs, Ended, Waiting
<1> QED BY <1>4, <1>5

\* All other steps leave the exchange of a master, and whether he waits for it.
LEMMA MastersKeep ==
  ASSUME Typed, ProgInv, nparal_dir > 0, PhaseCheck, [Next]_vars, NEW r \in Ranks,
         ~ Post(r, 0), ~ Wait(r, 0)
  PROVE  MyX(r)' = MyX(r) /\ (Awaiting(r)' <=> Awaiting(r))
<1>1. PICK l, m, i, j : l = pc[r][0] /\ m = pc'[r][0] /\ i = ip[r][0] /\ j = ip'[r][0]
  OBVIOUS
<1>2. /\ prog \in Seq(Ops) /\ Len(prog) \in Nat /\ \A k \in 1 .. Len(prog) : prog'[k] = prog[k]
      /\ 0 \in Threads /\ PhaseOf(r)
  BY Grows, Sizes DEF Typed, PhaseCheck
<1>3. i \in Nat /\ i <= Len(prog) /\ (l \notin Ended => i \in 1 .. Len(prog))
  BY <1>1, <1>2, AtOp DEF Typed
<1>4. MyX(r)' = XAt(m, j)' /\ MyX(r) = XAt(l, i) /\ (Awaiting(r)' <=> AwaitAt(m, j)') /\ (Awaiting(r) <=> AwaitAt(l, i))
  BY <1>1 DEF MyX, Awaiting
<1>5. \A k : i > 0 \/ k \in Ended => XAt(k, i)' = XAt(k, i) /\ (AwaitAt(k, i)' <=> AwaitAt(k, i))
  BY <1>2, <1>3, PlaceTold
<1>6. ASSUME i = j, l = m PROVE MyX(r)' = MyX(r) /\ (Awaiting(r)' <=> Awaiting(r))
  <2>1. XAt(m, j)' = XAt(l, i)' /\ (AwaitAt(m, j)' <=> AwaitAt(l, i)')
    BY <1>6
  <2>2. i > 0 \/ l \in Ended
    BY <1>3
  <2> QED BY <1>4, <1>5, <2>1, <2>2
<1>7. ASSUME (Advance(r, 0) /\ ~ Call(r, 0)) \/ Barrier(r) PROVE MyX(r)' = MyX(r) /\ (Awaiting(r)' <=> Awaiting(r))
  <2>1. i = j
    <3>1. ip' = ip
      BY <1>2, <1>7, Effects, BarrierEffects
    <3> QED BY <1>1, <3>1
  <2>2. CASE l \in Ended
    <3>1. m \in Ended
      <4>1. ~ Barrier(r)
        <5>1. pc[r][0] \notin Waiting
          BY <1>1, <2>2 DEF Ended, Waiting
        <5> QED BY <1>2, <5>1, BarrierEffects
      <4> QED BY <1>1, <1>2, <1>7, <2>2, <4>1, Moves
    <3>2. XAt(m, i) = XAt(l, i) /\ (AwaitAt(m, i) <=> AwaitAt(l, i))
      <4>1. l \notin Ahead /\ m \notin Ahead /\ l \notin {"finish", "wait"} /\ m \notin {"finish", "wait"}
        BY <2>2, <3>1 DEF Ended, Ahead
      <4> QED BY <2>2, <3>1, <4>1 DEF XAt, AwaitAt
    <3> QED BY <1>4, <1>5, <2>1, <3>1, <3>2
  <2>3. CASE l \notin Ended
    <3>1. Beside(l, m, i)
      BY <1>1, <1>2, <1>7, <2>3, MasterBeside
    <3>2. i \in 1 .. Len(prog) /\ i > 0
      BY <1>3, <2>3
    <3>3. XAt(m, i) = XAt(l, i) /\ (AwaitAt(m, i) <=> AwaitAt(l, i))
      BY <1>2, <3>1, <3>2, Besides
    <3> QED BY <1>4, <1>5, <2>1, <3>2, <3>3
  <2> QED BY <2>2, <2>3
<1>8. ASSUME Call(r, 0) PROVE MyX(r)' = MyX(r) /\ (Awaiting(r)' <=> Awaiting(r))
  <2>1. /\ l = "next" /\ j = i + 1 /\ j \in 1 .. Len(prog') /\ m = Entry(prog'[j]) /\ prog'[j] \in Ops
    BY <1>1, <1>2, <1>8, CallEffects
  <2>2. PICK o : o = prog'[j] /\ o.kind \in {"read", "start", "finish", "update"}
    <3>1. prog'[j].kind \in {"read", "start", "finish", "update"}
      BY <2>1, Operations
    <3> QED BY <3>1
  <2>3. /\ o.kind = "update" => m = "write"
        /\ o.kind \in {"read", "start"} => m = "start"
        /\ o.kind = "finish" => m = "finish"
    BY <2>1, <2>2 DEF Entry
  <2>4. l \in Ended /\ l \notin Ahead /\ l \notin {"finish", "wait"} /\ m \notin Ended /\ j - 1 = i
    BY <1>3, <2>1, <2>2, <2>3 DEF Ended, Ahead
  <2>5. prog' \in Seq(Ops) /\ ProgInv' /\ Len(prog') \in Nat
    <3>1. prog' \in Seq(Ops)
      BY Grows
    <3>2. ProgInv'
      BY ProgStep
    <3> QED BY <3>1, <3>2
  <2>6. Talking(j)' = Talking(j) /\ LastX(i)' = LastX(i)
    <3>1. j \in Nat /\ j <= Len(prog) + 1
      BY <1>3, <2>1
    <3> QED BY <1>2, <1>3, <3>1, ToldMore
  <2>7. Awaiting(r) <=> Talking(j) # {}
    BY <1>4, <2>1, <2>4 DEF AwaitAt
  <2>8. Awaiting(r)' <=> Talking(j)' # {}
    <3>1. AwaitAt(m, j)' <=>
            \/ m \in {"finish", "wait"} /\ o.kind = "read" /\ Talks(j)'
            \/ Talking(j)' # {} /\ (m \in {"finish", "wait"} \/ o.kind = "update")
      BY <2>2, <2>4 DEF AwaitAt, Ended
    <3>2. CASE o.kind \in {"read", "start"}
      <4>1. \A k \in 1 .. j - 1 : ~ Open(k, j)'
        <5>1. LegalAt(j)'
          BY <2>1, <2>5 DEF ProgInv
        <5>2. \A k \in 1 .. j - 1 : Open(k, j)' => prog'[j].kind \in {"finish", "update"}
          BY <5>1 DEF LegalAt
        <5> QED BY <2>2, <3>2, <5>2
      <4>2. Talking(j)' = {}
        BY <4>1 DEF Talking
      <4> QED BY <1>4, <2>3, <3>1, <3>2, <4>2
    <3>3. CASE o.kind \in {"finish", "update"}
      BY <1>4, <2>3, <3>1, <3>3
    <3> QED BY <2>2, <3>2, <3>3
  <2>9. MyX(r)' = LastX(i)'
    <3>1. CASE o.kind \in {"read", "start"}
      <4>1. m \in Ahead
        BY <2>3, <3>1 DEF Ahead
      <4>2. XAt(m, j)' = LastX(j - 1)'
        BY <4>1 DEF XAt, Ahead
      <4>3. LastX(j - 1)' = LastX(i)'
        BY <2>4
      <4> QED BY <1>4, <4>2, <4>3
    <3>2. CASE o.kind \in {"finish", "update"}
      <4>1. m \notin Ahead
        BY <2>3, <3>2 DEF Ahead
      <4>2. XAt(m, j)' = LastX(j)'
        BY <4>1 DEF XAt, Ahead
      <4>3. ~ Exchange(j)'
        BY <2>2, <3>2 DEF Exchange
      <4>4. LastX(j)' = LastX(j - 1)'
        <5>1. PICK X : X = {k \in 1 .. j : Exchange(k)'}
          OBVIOUS
        <5>2. X = {k \in 1 .. j - 1 : Exchange(k)'}
          <6>1. \A k : k \in 1 .. j <=> k \in 1 .. j - 1 \/ k = j
            <7>1. j \in Nat /\ j > 0
              BY <1>3, <2>1
            <7> QED BY <7>1
          <6> QED BY <4>3, <5>1, <6>1
        <5> QED BY <5>1, <5>2 DEF LastX
      <4>5. LastX(j - 1)' = LastX(i)'
        BY <2>4
      <4> QED BY <1>4, <4>2, <4>4, <4>5
    <3> QED BY <2>2, <3>1, <3>2
  <2>10. MyX(r) = LastX(i)
    BY <1>4, <2>4 DEF XAt
  <2> QED BY <2>6, <2>7, <2>8, <2>9, <2>10
<1>9. ASSUME NEW q \in Ranks, NEW u \in Threads, q # r \/ u # 0, Advance(q, u)
      PROVE  i = j /\ l = m
  <2>1. CASE Call(q, u)
    BY <1>1, <1>2, <1>9, <2>1, CallEffects
  <2>2. CASE ~ Call(q, u)
    BY <1>1, <1>2, <1>9, <2>2, Effects
  <2> QED BY <2>1, <2>2
<1>10. ASSUME NEW q \in Ranks, q # r, Barrier(q) PROVE i = j /\ l = m
  BY <1>1, <1>2, <1>10, BarrierEffects
<1>11. ASSUME NEW q \in Ranks, NEW s \in Ranks, NEW c \in Comms, Deliver(q, s, c) PROVE i = j /\ l = m
  BY <1>1, <1>11 DEF Deliver, where
<1>12. UNCHANGED vars => i = j /\ l = m
  BY <1>1 DEF vars, where
<1>13. ASSUME NEW q \in Ranks, NEW u \in Threads, Advance(q, u)
       PROVE  MyX(r)' = MyX(r) /\ (Awaiting(r)' <=> Awaiting(r))
  BY <1>6, <1>7, <1>8, <1>9, <1>13
<1>14. ASSUME NEW q \in Ranks, Barrier(q) PROVE MyX(r)' = MyX(r) /\ (Awaiting(r)' <=> Awaiting(r))
  BY <1>6, <1>7, <1>10, <1>14
<1> QED BY <1>6, <1>11, <1>12, <1>13, <1>14 DEF Next, Progress, Transport, Terminated

\* Where the master starts an exchange, ...
LEMMA PostTurns ==
  ASSUME Typed, ProgInv, nparal_dir > 0, NEW r \in Ranks, PhaseOf(r), Post(r, 0),
         NEW i, i = ip[r][0]
  PROVE  /\ i \in 1 .. Len(prog) /\ op(r, 0) = prog[i] /\ Exchange(i)
         /\ MyX(r) = LastX(i - 1) /\ ~ Awaiting(r)
         /\ MyX(r)' = i /\ Awaiting(r)' /\ prog' = prog
<1>1. PICK m, o : m = pc'[r][0] /\ o = op(r, 0)
  OBVIOUS
<1>2. pc[r][0] = "post" /\ pc[r][0] \notin Ended /\ 0 \in Threads /\ prog \in Seq(Ops)
  BY Sizes DEF Post, Typed, Placed, Ended
<1>3. i \in 1 .. Len(prog) /\ o = prog[i] /\ o.kind \in {"read", "start"} /\ Talks(i)
  BY <1>1, <1>2, Where
<1>4. prog' = prog /\ ip' = ip /\ m = IF o.kind = "start" THEN "next" ELSE "finish"
  <2>1. Advance(r, 0) /\ ~ Call(r, 0)
    BY <1>2 DEF Advance, Call
  <2> QED BY <1>1, <1>2, <2>1, GoesTo
<1>5. i \in Nat /\ i > 0 /\ i <= Len(prog)
  BY <1>3
<1>6. MyX(r) = LastX(i - 1)
  BY <1>2 DEF MyX, XAt, Ahead
<1>7. ~ Awaiting(r)
  <2>1. ~ AwaitAt("post", i)
    BY <1>2, <1>3, AwaitIs DEF Ended
  <2> QED BY <1>2, <2>1 DEF Awaiting
<1>8. MyX(r)' = i
  <2>1. m \notin Ahead
    BY <1>3, <1>4 DEF Ahead
  <2>2. MyX(r)' = LastX(i)'
    BY <1>1, <1>4, <2>1 DEF MyX, XAt, Ahead
  <2>3. LastX(i)' = LastX(i)
    BY <1>2, <1>4, <1>5, ToldMore
  <2>4. LastX(i) = i
    BY <1>2, <1>3, <1>5, Exchanges DEF Exchange
  <2> QED BY <2>2, <2>3, <2>4
<1>9. Awaiting(r)'
  <2>1. AwaitAt(m, i)
    <3>1. CASE o.kind = "start"
      <4>1. Talking(i + 1) # {}
        <5>1. prog[i].kind = "start" /\ Talks(i)
          BY <1>3, <3>1
        <5>2. Talking(i + 1) = {i}
          BY <1>2, <1>3, <5>1, TalkingNext
        <5> QED BY <5>2
      <4> QED BY <1>2, <1>3, <1>4, <3>1, <4>1, AwaitIs DEF Ended
    <3>2. CASE o.kind = "read"
      BY <1>3, <1>4, <3>2 DEF AwaitAt
    <3> QED BY <1>3, <3>1, <3>2
  <2>2. AwaitAt(m, i)' <=> AwaitAt(m, i)
    BY <1>2, <1>4, <1>5, PlaceTold
  <2>3. Awaiting(r)' <=> AwaitAt(m, i)'
    BY <1>1, <1>4 DEF Awaiting
  <2> QED BY <2>1, <2>2, <2>3
<1> QED BY <1>1, <1>3, <1>4, <1>6, <1>7, <1>8, <1>9 DEF Exchange

\* ... and where he has waited for it.
LEMMA WaitTurns ==
  ASSUME Typed, ProgInv, nparal_dir > 0, NEW r \in Ranks, PhaseOf(r), Wait(r, 0)
  PROVE  /\ MyX(r) > 0 /\ Comm(op(r, 0)) = Comm(prog[MyX(r)]) /\ comm_in_prog[r][Comm(op(r, 0))]
         /\ MyX(r)' = MyX(r) /\ Awaiting(r) /\ ~ Awaiting(r)' /\ prog' = prog
<1>1. PICK m, o, i : m = pc'[r][0] /\ o = op(r, 0) /\ i = ip[r][0]
  OBVIOUS
<1>2. pc[r][0] = "wait" /\ pc[r][0] \notin Ended /\ 0 \in Threads /\ prog \in Seq(Ops)
  BY Sizes DEF Wait, Typed, Placed, Ended
<1>3. i \in 1 .. Len(prog) /\ o = prog[i] /\ o.kind \in {"read", "finish"} /\ Talks(i) /\ comm_in_prog[r][Comm(o)]
  <2>1. i \in 1 .. Len(prog) /\ o = prog[i] /\ Fetching(i) /\ comm_in_prog[r][Comm(o)]
    BY <1>1, <1>2, Where
  <2> QED BY <2>1 DEF Fetching
<1>4. prog' = prog /\ ip' = ip /\ m = "waited"
  <2>1. Advance(r, 0) /\ ~ Call(r, 0)
    BY <1>2 DEF Advance, Call
  <2> QED BY <1>1, <1>2, <2>1, GoesTo
<1>5. i \in Nat /\ i > 0 /\ i <= Len(prog)
  BY <1>3
<1>6. MyX(r) = LastX(i)
  BY <1>1, <1>2 DEF MyX, XAt, Ahead
<1>7. MyX(r)' = LastX(i)
  <2>1. MyX(r)' = LastX(i)'
    BY <1>1, <1>4 DEF MyX, XAt, Ahead
  <2>2. LastX(i)' = LastX(i)
    BY <1>2, <1>4, <1>5, ToldMore
  <2> QED BY <2>1, <2>2
<1>8. LastX(i) > 0 /\ prog[LastX(i)].vs = prog[i].vs
  <2>1. CASE o.kind = "read"
    <3>1. LastX(i) = i
      BY <1>2, <1>3, <1>5, <2>1, Exchanges DEF Exchange
    <3> QED BY <1>5, <3>1
  <2>2. CASE o.kind = "finish"
    <3>1. Talking(i) # {} /\ \A j \in Talking(i) : LastX(i) = j /\ j \in 1 .. i - 1 /\ prog[i].vs = prog[j].vs
      BY <1>2, <1>3, <2>2, TalkingNext
    <3> QED BY <3>1
  <2> QED BY <1>3, <2>1, <2>2
<1>9. Awaiting(r)
  <2>1. AwaitAt("wait", i)
    BY <1>2, <1>3, AwaitIs
  <2> QED BY <1>1, <1>2, <2>1 DEF Awaiting
<1>10. ~ Awaiting(r)'
  <2>1. ~ AwaitAt("waited", i)
    BY <1>2, <1>3, AwaitIs DEF Ended
  <2>2. AwaitAt(m, i)' <=> AwaitAt(m, i)
    BY <1>2, <1>4, <1>5, PlaceTold
  <2>3. Awaiting(r)' <=> AwaitAt(m, i)'
    BY <1>1, <1>4 DEF Awaiting
  <2> QED BY <1>4, <2>1, <2>2, <2>3
<1> QED BY <1>1, <1>3, <1>4, <1>6, <1>7, <1>8, <1>9, <1>10 DEF Comm

-----------------------------------------------------------------------------
\* What an exchange carries does not change later, ...
LEMMA GoodTold ==
  ASSUME prog \in Seq(Ops), \A k \in 1 .. Len(prog) : prog'[k] = prog[k],
         NEW i \in 1 .. Len(prog), NEW r, NEW h
  PROVE  Good(r, h, i)' = Good(r, h, i)
<1>1. i \in Nat /\ i <= Len(prog) + 1 /\ prog'[i] = prog[i]
  OBVIOUS
<1>2. \A v : Version(v, i)' = Version(v, i)
  BY <1>1, Told
<1> QED BY <1>1, <1>2 DEF Good

\* ... nor which exchange a rank has come to.
LEMMA MyXs ==
  ASSUME Typed, NEW r \in Ranks
  PROVE  MyX(r) \in Nat /\ (MyX(r) > 0 => MyX(r) \in 1 .. Len(prog) /\ Exchange(MyX(r)))
<1>1. PICK l, i : l = pc[r][0] /\ i = ip[r][0]
  OBVIOUS
<1>2. /\ i \in Nat /\ i <= Len(prog) /\ Len(prog) \in Nat /\ prog \in Seq(Ops)
      /\ l \notin Ended => i > 0
  BY <1>1, Sizes, AtOp DEF Typed, Placed
<1>3. PICK n : n = IF l \in Ahead THEN i - 1 ELSE i
  OBVIOUS
<1>4. n \in Nat /\ n <= Len(prog)
  BY <1>2, <1>3 DEF Ahead, Ended
<1>5. MyX(r) = LastX(n)
  BY <1>1, <1>3 DEF MyX, XAt
<1>6. LastX(n) \in 0 .. n /\ (LastX(n) > 0 => Exchange(LastX(n)))
  BY <1>2, <1>4, Exchanges
<1> QED BY <1>2, <1>4, <1>5, <1>6

\* What is on its way stays so, while the messages carry the same.
LEMMA LineTold ==
  ASSUME Typed, UNCHANGED env, \A k \in 1 .. Len(prog) : prog'[k] = prog[k],
         NEW r \in Ranks, NEW s \in Ranks, NEW c, NEW q \in Seq(Parcels), NEW p \in Seq(Halves),
         NEW x \in Nat, NEW y \in Nat, x <= Len(prog), y <= Len(prog),
         NEW q1 \in Seq(Parcels), Len(q1) = Len(q),
         \A k \in 1 .. Len(q) : q1[k].half = q[k].half /\ Contents(r, q1[k])' = Contents(r, q[k]),
         Line(r, s, c, q, p, x, y)
  PROVE  Line(r, s, c, q1, p, x, y)'
<1>1. /\ Len(q) \in Nat /\ Len(p) \in Nat /\ (Len(q) = 0 <=> q = <<>>) /\ (Len(q1) = 0 <=> q1 = <<>>)
      /\ Len(prog) \in Nat /\ prog \in Seq(Ops)
  BY DEF Typed, Placed
<1>2. \A i \in 1 .. Len(prog) : Comm(prog[i])' = Comm(prog[i])
  BY DEF Comm
<1>3. (\A h : rank_neigh(s, h)' = rank_neigh(s, h)) /\ From(s, r)' = From(s, r) /\ Halves' = Halves
  BY DEF env, rank_neigh, From, Halves, InOrder
<1>4. PICK a : a = From(s, r) /\ a \in Seq(Halves) /\ Len(a) \in Nat
  <2>1. From(s, r) \in Seq(Halves)
    BY Facing, Sizes DEF Typed
  <2> QED BY <2>1
<1>5. ASSUME NEW k \in 1 .. Len(q), NEW h, NEW i \in 1 .. Len(prog), Carries(r, q[k], h, i)
      PROVE  Carries(r, q1[k], h, i)'
  <2>1. Good(r, 1 - h, i)' = Good(r, 1 - h, i)
    BY <1>1, <1>5, GoodTold
  <2>2. q1[k].half = q[k].half /\ Contents(r, q1[k])' = Contents(r, q[k])
    BY <1>5
  <2>3. q[k].half = 1 - h /\ Contents(r, q[k]) = Good(r, 1 - h, i)
    BY <1>5 DEF Carries
  <2> QED BY <2>1, <2>2, <2>3 DEF Carries
<1>6. p # <<>> => y > 0 /\ y \in 1 .. Len(prog) /\ c = Comm(prog[y])
  BY <1>1 DEF Line
<1>7. (p # <<>> => y > 0 /\ c = Comm(prog[y])') /\ \A k \in 1 .. Len(p) : p[k] \in Halves /\ rank_neigh(s, p[k])' = r
  BY <1>2, <1>3, <1>6 DEF Line
<1>8. x >= y => Len(p) <= Len(q1) /\ \A k \in 1 .. Len(p) : Carries(r, q1[k], p[k], y)'
  <2> SUFFICES ASSUME x >= y
               PROVE  Len(p) <= Len(q1) /\ \A k \in 1 .. Len(p) : Carries(r, q1[k], p[k], y)'
    OBVIOUS
  <2>1. Len(p) <= Len(q) /\ \A k \in 1 .. Len(p) : Carries(r, q[k], p[k], y)
    BY DEF Line
  <2>2. ASSUME NEW k \in 1 .. Len(p) PROVE Carries(r, q1[k], p[k], y)'
    <3>1. k \in 1 .. Len(q) /\ p # <<>>
      BY <1>1, <2>1
    <3> QED BY <1>5, <1>6, <2>1, <3>1
  <2> QED BY <2>1, <2>2
<1>9. x = y => Len(q1) = Len(p)
  BY DEF Line
<1>10. x > y => /\ x \in 1 .. Len(prog)
                /\ c = Comm(prog[x])' =>
                     /\ Len(q1) = Len(p) + Len(a)
                     /\ \A k \in 1 .. Len(a) : Carries(r, q1[Len(p) + k], a[k], x)'
                /\ c # Comm(prog[x])' => Len(q1) = Len(p)
  <2> SUFFICES ASSUME x > y
               PROVE  /\ x \in 1 .. Len(prog)
                      /\ c = Comm(prog[x])' =>
                           /\ Len(q1) = Len(p) + Len(a)
                           /\ \A k \in 1 .. Len(a) : Carries(r, q1[Len(p) + k], a[k], x)'
                      /\ c # Comm(prog[x])' => Len(q1) = Len(p)
    OBVIOUS
  <2>1. x \in 1 .. Len(prog) /\ Comm(prog[x])' = Comm(prog[x])
    BY <1>1, <1>2
  <2>2. CASE c = Comm(prog[x])
    <3>1. Len(q) = Len(p) + Len(a) /\ \A k \in 1 .. Len(a) : Carries(r, q[Len(p) + k], a[k], x)
      BY <1>4, <2>2 DEF Line
    <3>2. \A k \in 1 .. Len(a) : Len(p) + k \in 1 .. Len(q)
      BY <1>1, <1>4, <3>1
    <3>3. \A k \in 1 .. Len(a) : Carries(r, q1[Len(p) + k], a[k], x)'
      BY <1>5, <2>1, <3>1, <3>2
    <3> QED BY <2>1, <2>2, <3>1, <3>3
  <2>3. CASE c # Comm(prog[x])
    <3>1. Len(q) = Len(p)
      BY <2>3 DEF Line
    <3> QED BY <2>1, <2>3, <3>1
  <2> QED BY <2>2, <2>3
<1>11. x < y => q1 = <<>> /\ p = IF c = Comm(prog[y])' THEN a ELSE <<>>
  <2> SUFFICES ASSUME x < y PROVE q1 = <<>> /\ p = IF c = Comm(prog[y])' THEN a ELSE <<>>
    OBVIOUS
  <2>1. q = <<>> /\ p = IF c = Comm(prog[y]) THEN a ELSE <<>>
    BY <1>4 DEF Line
  <2>2. y \in 1 .. Len(prog)
    BY <1>1
  <2> QED BY <1>1, <1>2, <2>1, <2>2
<1> QED BY <1>3, <1>4, <1>7, <1>8, <1>9, <1>10, <1>11 DEF Line

\* Exchanges next to one another stay so.
LEMMA AdjacentTold ==
  ASSUME prog \in Seq(Ops), \A k \in 1 .. Len(prog) : prog'[k] = prog[k],
         NEW x \in Nat, NEW y \in Nat, x <= Len(prog), y <= Len(prog), Adjacent(x, y)
  PROVE  Adjacent(x, y)'
<1>1. Len(prog) \in Nat
  OBVIOUS
<1>2. \A z \in Nat : z > 0 /\ z <= Len(prog) => LastX(z - 1)' = LastX(z - 1)
  <2> SUFFICES ASSUME NEW z \in Nat, z > 0, z <= Len(prog) PROVE LastX(z - 1)' = LastX(z - 1)
    OBVIOUS
  <2>1. PICK n \in Nat : n = z - 1 /\ n <= Len(prog) /\ n <= Len(prog) + 1
    BY <1>1
  <2>2. LastX(n)' = LastX(n)
    BY <2>1, ToldMore
  <2> QED BY <2>1, <2>2
<1>3. CASE x = y
  BY <1>3 DEF Adjacent
<1>4. CASE x > y /\ y = LastX(x - 1)
  <2>1. LastX(x - 1)' = LastX(x - 1)
    BY <1>2, <1>4
  <2> QED BY <1>4, <2>1 DEF Adjacent
<1>5. CASE y > x /\ x = LastX(y - 1)
  <2>1. LastX(y - 1)' = LastX(y - 1)
    BY <1>2, <1>5
  <2> QED BY <1>5, <2>1 DEF Adjacent
<1> QED BY <1>3, <1>4, <1>5 DEF Adjacent

\* What has been received stays, ...
LEMMA ReceivedKept ==
  ASSUME Typed, UNCHANGED env, \A k \in 1 .. Len(prog) : prog'[k] = prog[k], NEW r \in Ranks,
         MyX(r)' = MyX(r), recv_buf'[r] = recv_buf[r],
         \A s \in Ranks, c \in Comms : recvs'[r][s][c] = recvs[r][s][c], Received(r)
  PROVE  Received(r)'
<1>1. PICK x : x = MyX(r)
  OBVIOUS
<1> SUFFICES ASSUME x > 0
             PROVE  \A h \in Halves :
                      \/ recv_buf'[r][h] = Good(rank_neigh(r, h), 1 - h, x)'
                      \/ \E k \in 1 .. Len(recvs'[r][rank_neigh(r, h)'][Comm(prog[x])']) :
                           recvs'[r][rank_neigh(r, h)'][Comm(prog[x])'][k] = h
  <2>1. Received(r)' <=>
          (x > 0 => \A h \in Halves :
                      \/ recv_buf'[r][h] = Good(rank_neigh(r, h), 1 - h, x)'
                      \/ \E k \in 1 .. Len(recvs'[r][rank_neigh(r, h)'][Comm(prog[x])']) :
                           recvs'[r][rank_neigh(r, h)'][Comm(prog[x])'][k] = h)
    BY <1>1 DEF Received, Good, Halves
  <2> QED BY <2>1
<1>2. x \in 1 .. Len(prog) /\ prog \in Seq(Ops)
  BY <1>1, MyXs DEF Typed, Placed
<1> TAKE h \in Halves
<1>3. PICK s, c : s = rank_neigh(r, h) /\ c = Comm(prog[x])
  OBVIOUS
<1>4. s \in Ranks /\ c \in Comms
  <2>1. s \in Ranks
    BY <1>3, Grid, Sizes DEF Typed
  <2> QED BY <1>3, <2>1 DEF Comm, Comms
<1>5. rank_neigh(r, h)' = s /\ Comm(prog[x])' = c
  BY <1>2, <1>3 DEF rank_neigh, Comm, env
<1>6. Good(s, 1 - h, x)' = Good(s, 1 - h, x)
  BY <1>2, GoodTold
<1>7. recv_buf[r][h] = Good(s, 1 - h, x) \/ \E k \in 1 .. Len(recvs[r][s][c]) : recvs[r][s][c][k] = h
  BY <1>1, <1>3 DEF Received
<1>8. Good(rank_neigh(r, h), 1 - h, x)' = Good(s, 1 - h, x)'
  BY <1>5 DEF Good
<1>9. recvs'[r][s][c] = recvs[r][s][c]
  BY <1>4
<1> QED BY <1>5, <1>6, <1>7, <1>8, <1>9

\* ... and what is on its way.
LEMMA NetKept ==
  ASSUME Typed, Typed', NetInv, UNCHANGED env, \A k \in 1 .. Len(prog) : prog'[k] = prog[k],
         recvs' = recvs, recv_buf' = recv_buf, \A r \in Ranks : MyX(r)' = MyX(r),
         \A r, s \in Ranks, c \in Comms :
           /\ Len(sends'[r][s][c]) = Len(sends[r][s][c])
           /\ \A k \in 1 .. Len(sends[r][s][c]) :
                /\ sends'[r][s][c][k].half = sends[r][s][c][k].half
                /\ Contents(r, sends[r][s][c][k])' = Contents(r, sends[r][s][c][k]),
         NEW r \in Ranks
  PROVE  Received(r)' /\ \A s \in Ranks : Near(r, s)' /\ \A c \in Comms : Channel(r, s, c)'
<1>1. Received(r)'
  BY ReceivedKept DEF NetInv
<1>2. ASSUME NEW s \in Ranks
      PROVE  /\ MyX(r) \in Nat /\ MyX(r) <= Len(prog) /\ MyX(s) \in Nat /\ MyX(s) <= Len(prog)
             /\ MyX(r)' = MyX(r) /\ MyX(s)' = MyX(s) /\ prog \in Seq(Ops)
  <2>1. /\ MyX(r) \in Nat /\ (MyX(r) > 0 => MyX(r) \in 1 .. Len(prog))
        /\ MyX(s) \in Nat /\ (MyX(s) > 0 => MyX(s) \in 1 .. Len(prog))
    BY MyXs
  <2>2. prog \in Seq(Ops) /\ Len(prog) \in Nat
    BY DEF Typed, Placed
  <2> QED BY <2>1, <2>2
<1>3. ASSUME NEW s \in Ranks PROVE Near(r, s)'
  <2>1. PICK x, y : x = MyX(r) /\ y = MyX(s)
    OBVIOUS
  <2>2. From(s, r)' = From(s, r)
    BY DEF env, rank_neigh, From, Halves, InOrder
  <2>3. From(s, r) # <<>> => Adjacent(x, y)
    BY <1>3, <2>1 DEF NetInv, Near
  <2>4. From(s, r) # <<>> => Adjacent(x, y)'
    BY <1>2, <1>3, <2>1, <2>3, AdjacentTold
  <2>5. MyX(r)' = x /\ MyX(s)' = y
    BY <1>2, <1>3, <2>1
  <2> QED BY <2>2, <2>4, <2>5 DEF Near, Adjacent
<1>4. ASSUME NEW s \in Ranks, NEW c \in Comms PROVE Channel(r, s, c)'
  <2>1. PICK x, y : x = MyX(r) /\ y = MyX(s)
    OBVIOUS
  <2>2. PICK q, p, q1 : q = sends[r][s][c] /\ p = recvs[s][r][c] /\ q1 = sends'[r][s][c]
    OBVIOUS
  <2>3. q \in Seq(Parcels) /\ p \in Seq(Halves)
    BY <1>4, <2>2 DEF Typed, Filled
  <2>4. q1 \in Seq(Parcels)
    <3>1. sends' \in [Ranks' -> [Ranks' -> [Comms -> Seq(Parcels)']]]
      BY DEF Typed, Filled, Comms
    <3>2. Parcels' = Parcels /\ Ranks' = Ranks
      BY DEF Parcels, Pieces, Halves, Vects, env, Ranks
    <3>3. Seq(Parcels)' = Seq(Parcels)
      BY <3>2
    <3> QED BY <1>4, <2>2, <3>1, <3>2, <3>3
  <2>5. Line(r, s, c, q, p, x, y)
    BY <1>4, <2>1, <2>2 DEF NetInv, Channel
  <2>6. Len(q1) = Len(q) /\ \A k \in 1 .. Len(q) : q1[k].half = q[k].half /\ Contents(r, q1[k])' = Contents(r, q[k])
    <3>1. \A k : Contents(r, sends[r][s][c][k])' = Contents(r, q1[k])'
      BY <2>2 DEF Contents
    <3> QED BY <1>4, <2>2, <3>1
  <2>7. Line(r, s, c, q1, p, x, y)'
    BY <1>2, <1>4, <2>1, <2>3, <2>4, <2>5, <2>6, LineTold
  <2>8. Channel(r, s, c)' <=> Line(r, s, c, q1, p, x, y)'
    <3>1. MyX(r)' = x /\ MyX(s)' = y /\ recvs'[s][r][c] = p
      BY <1>2, <1>4, <2>1, <2>2
    <3> QED BY <2>2, <3>1 DEF Channel, Line, Carries
  <2> QED BY <2>7, <2>8
<1> QED BY <1>1, <1>3, <1>4
-----------------------------------------------------------------------------
\* While send_buf is filled nothing is in flight, and nobody is to start it.
LEMMA FillAlone ==
  ASSUME Typed, ProgInv, NEW r \in Ranks, PhaseOf(r), NEW t \in Threads, pc[r][t] = "fill"
  PROVE  ~ Awaiting(r) /\ \A u \in Threads : pc[r][u] # "post"
<1>1. PICK n \in 0 .. Len(prog) : Between(r, n)
  BY DEF PhaseOf, Posting, Unpacking, Setting, Second, Using
<1>2. \A u \in Threads : Passing(r, u, n)
  BY <1>1 DEF Between
<1>3. prog \in Seq(Ops) /\ 0 \in Threads
  BY Sizes DEF Typed, Placed
<1>4. Talking(n + 1) = {}
  <2> PICK i : i = ip[r][t]
    OBVIOUS
  <2>1. i \in 1 .. Len(prog) /\ Cur(r, t) = i /\ prog[i].kind \in {"read", "start"}
    <3>1. pc[r][t] \notin Ended
      BY DEF Ended
    <3> QED BY <1>2, <3>1, PassingAt
  <2>2. Talking(Cur(r, t)) = Talking(n + 1)
    BY <1>2 DEF Passing
  <2>3. Talking(i) = {}
    BY <1>3, <2>1, TalkingNext
  <2> QED BY <2>1, <2>2, <2>3
<1>5. \A u \in Threads : pc[r][u] # "post"
  <2> SUFFICES ASSUME NEW u \in Threads, pc[r][u] = "post" PROVE FALSE
    OBVIOUS
  <2>1. pc[r][u] \notin Ended
    BY DEF Ended
  <2>2. n \in 1 .. Len(prog) /\ prog[n].kind = "start" /\ Talks(n)
    BY <1>2, <2>1, PassingAt
  <2>3. Talking(n + 1) = {n}
    BY <1>3, <2>2, TalkingNext
  <2> QED BY <1>4, <2>3
<1>6. ~ Awaiting(r)
  <2> PICK l, j : l = pc[r][0] /\ j = ip[r][0]
    OBVIOUS
  <2>1. Passing(r, 0, n) /\ l # "post"
    BY <1>2, <1>3, <1>5
  <2>2. Talking(Cur(r, 0)) = {}
    BY <1>4, <2>1 DEF Passing
  <2>3. Cur(r, 0) = IF l \in Ended THEN j + 1 ELSE j
    BY DEF Cur
  <2>4. l \in {"finish", "wait"} => ~ (prog[j].kind = "read" /\ Talks(j))
    <3>1. ASSUME l = "finish" PROVE prog[j].kind = "finish" \/ ~ Talks(j)
      <4>1. pc[r][0] \notin Ended
        BY <3>1 DEF Ended
      <4> PICK o : o = prog[j]
        OBVIOUS
      <4>2. 0 \in Threads /\ Passing(r, 0, n) /\ pc[r][0] = "finish" /\ j = ip[r][0]
        BY <1>3, <2>1, <3>1
      <4>3. o.kind = "finish" \/ (o.kind = "read" /\ ~ Talks(j))
        BY <4>1, <4>2, PassingAt
      <4> QED BY <4>3
    <3>2. ASSUME l = "wait" PROVE prog[j].kind = "finish"
      <4>1. pc[r][0] \notin Ended
        BY <3>2 DEF Ended
      <4>2. pc[r][0] \in {"wait", "waited"}
        BY <3>2
      <4> PICK o : o = prog[j]
        OBVIOUS
      <4>3. o.kind = "finish"
        BY <1>3, <2>1, <4>1, <4>2, PassingAt
      <4> QED BY <4>3
    <3> QED BY <3>1, <3>2
  <2>5. ~ AwaitAt(l, j)
    BY <2>2, <2>3, <2>4 DEF AwaitAt
  <2> QED BY <2>5 DEF Awaiting
<1> QED BY <1>5, <1>6

\* All threads have filled their part of it for the same operation.
LEMMA SameFilling ==
  ASSUME Typed, ProgInv, NEW r \in Ranks, PhaseOf(r), Barrier(r),
         NEW t \in Threads, pc[r][t] = "filled"
  PROVE  \A u \in Threads : pc[r][u] = "filled" /\ ip[r][u] = ip[r][t]
<1>1. PICK n \in 0 .. Len(prog) : Between(r, n)
  BY DEF PhaseOf, Posting, Unpacking, Setting, Second, Using
<1>2. \A u \in Threads : pc[r][u] \in Waiting
  BY DEF Barrier
<1>3. PICK m \in 1 .. Len(prog) :
        /\ \A u \in Threads : ip[r][u] = m /\ at[r][u] = 1 /\ FlagOf(r, u, m, 1)
        /\ FlagsAt(r, m, {}) /\ Marked(r, CommsOf(m)) /\ \A c \in CommsOf(m) : comm_in_prog[r][c]
        /\ CASE prog[m].kind = "update" -> \A u \in Threads : pc[r][u] \in {"flag1", "flag2"}
             [] prog[m].kind = "finish" -> Talks(m) /\ \A u \in Threads : pc[r][u] = "waited"
             [] prog[m].kind = "start"  -> Talks(m) /\ \A u \in Threads : pc[r][u] = "filled"
             [] prog[m].kind = "read"   -> \A u \in Threads : pc[r][u] = IF Talks(m) THEN "filled" ELSE "looped"
  BY <1>1, <1>2, SameBarrier
<1>4. prog[m] \in Ops
  BY DEF Typed, Placed
<1>5. prog[m].kind \in {"update", "finish", "start", "read"}
  BY <1>4, Operations
<1> QED BY <1>3, <1>5
\* What a thread does to the buffers and to the messages.
LEMMA Touches ==
  ASSUME NEW r, NEW t, Advance(r, t)
  PROVE  /\ recv_buf' = recv_buf
         /\ Fill(r, t) \/ send_buf' = send_buf
         /\ Post(r, t) \/ recvs' = recvs
         /\ Post(r, t) \/ Wait(r, t) \/ sends' = sends
         /\ Unpack(r, t) \/ halo' = halo
<1>1. CASE Fill(r, t)
  BY <1>1 DEF Fill, net, data
<1>2. CASE Post(r, t)
  BY <1>2 DEF Post, bufs, data
<1>3. CASE Wait(r, t)
  BY <1>3 DEF Wait, bufs, data
<1>4. CASE Unpack(r, t)
  BY <1>4 DEF Unpack, bufs, net
<1>5. CASE ~ Fill(r, t) /\ ~ Post(r, t) /\ ~ Wait(r, t) /\ ~ Unpack(r, t)
  BY <1>5 DEF Advance, Call, Exit, Write, Start, Finish, Flag, SetFlag, Loop, bufs, net, data
<1> QED BY <1>1, <1>2, <1>3, <1>4, <1>5

\* What has been put in send_buf stays ...
LEMMA ReadyKept ==
  ASSUME Typed, Typed', UNCHANGED env, \A k \in 1 .. Len(prog) : prog'[k] = prog[k], NEW r \in Ranks,
         \A h \in Halves : send_buf'[r][h] = send_buf[r][h],
         \A t \in Threads : pc'[r][t] \in {"post", "filled"} => pc'[r][t] = pc[r][t] /\ ip'[r][t] = ip[r][t],
         Ready(r)
  PROVE  Ready(r)'
<1>1. Threads' = Threads /\ Halves' = Halves /\ nthreads' = nthreads
  BY DEF env, Threads, Halves
<1> SUFFICES ASSUME NEW t \in Threads
             PROVE  /\ pc'[r][t] = "post" => \A h \in Halves : send_buf'[r][h] = Good(r, h, ip[r][t])'
                    /\ pc'[r][t] = "filled" => \A h \in Chunk(t)' : send_buf'[r][h] = Good(r, h, ip[r][t])'
  BY <1>1 DEF Ready
<1>2. PICK i : i = ip[r][t]
  OBVIOUS
<1> SUFFICES ASSUME pc'[r][t] \in {"post", "filled"}
             PROVE  /\ pc'[r][t] = "post" => \A h \in Halves : send_buf'[r][h] = Good(r, h, ip[r][t])'
                    /\ pc'[r][t] = "filled" => \A h \in Chunk(t)' : send_buf'[r][h] = Good(r, h, ip[r][t])'
  OBVIOUS
<1>3. pc'[r][t] = pc[r][t] /\ ip'[r][t] = i /\ prog \in Seq(Ops) /\ i \in 1 .. Len(prog)
  <2>1. pc'[r][t] = pc[r][t] /\ ip'[r][t] = i
    BY <1>2
  <2>2. pc[r][t] \notin Ended
    BY <2>1 DEF Ended
  <2> QED BY <1>2, <2>1, <2>2, AtOp DEF Typed, Placed
<1>4. \A h : Good(r, h, i)' = Good(r, h, i)
  BY <1>3, GoodTold
<1>5. \A h : Good(r, h, ip[r][t])' = Good(r, h, i)'
  BY <1>3 DEF Good
<1>6. Chunk(t)' = Chunk(t)
  BY <1>1 DEF Chunk
<1>7. \A h \in Chunk(t) : h \in Halves
  BY DEF Chunk
<1>8. /\ pc[r][t] = "post" => \A h \in Halves : send_buf[r][h] = Good(r, h, i)
      /\ pc[r][t] = "filled" => \A h \in Chunk(t) : send_buf[r][h] = Good(r, h, i)
  BY <1>2 DEF Ready
<1> QED BY <1>3, <1>4, <1>5, <1>6, <1>7, <1>8
\* ... while the other threads put their part there, ...
LEMMA FillReady ==
  ASSUME Typed, ProgInv, nparal_dir > 0, NEW r \in Ranks, PhaseOf(r), SurfInv, [Next]_vars,
         NEW t \in Threads, Fill(r, t), Ready(r)
  PROVE  Ready(r)'
<1>1. /\ prog' = prog /\ ip' = ip /\ pc[r][t] = "fill" /\ Threads' = Threads /\ nthreads' = nthreads
      /\ Halves' = Halves
  BY Launching DEF Fill, where, Threads, env, Halves
<1>2. pc'[r][t] = "filled" /\ \A u \in Threads : u # t => pc'[r][u] = pc[r][u]
  <2>1. Goto(r, t, "filled") /\ UNCHANGED env
    BY DEF Fill, AfterFill
  <2>2. "filled" \in PCs
    BY DEF PCs, Waiting
  <2> QED BY <2>1, <2>2, Going DEF Typed
<1>3. PICK i : i = ip[r][t]
  OBVIOUS
<1>4. i \in 1 .. Len(prog) /\ op(r, t) = prog[i] /\ prog[i].kind # "update" /\ prog[i] \in Ops
  <2>1. pc[r][t] \notin Ended
    BY <1>1 DEF Ended
  <2> QED BY <1>1, <1>3, <2>1, Where
<1>5. \A h \in Halves : send_buf'[r][h] = IF h \in Chunk(t) THEN Piece(r, h, prog[i].vs) ELSE send_buf[r][h]
  <2>1. send_buf' = [send_buf EXCEPT ![r] = [h \in Halves |->
          IF h \in Chunk(t) THEN Piece(r, h, prog[i].vs) ELSE @[h]]]
    BY <1>4 DEF Fill
  <2>2. send_buf \in [Ranks -> [Halves -> Pieces]]
    BY DEF Typed, Filled
  <2> QED BY <2>1, <2>2
<1>6. ASSUME NEW h \in Chunk(t) PROVE h \in Halves /\ Piece(r, h, prog[i].vs) = Good(r, h, i)
  <2>1. h \in Halves /\ h % nthreads = t
    BY DEF Chunk
  <2>2. Done(r, t) = i
    BY <1>1, <1>3, <1>4 DEF Done, Ended
  <2>3. \A v \in Vects : surf[r][v][h] = Version(v, i)
    BY <2>1, <2>2 DEF SurfInv
  <2>4. ToSet(prog[i].vs) \subseteq Vects
    BY <1>4, Operations
  <2> QED BY <2>1, <2>3, <2>4 DEF Piece, Good
<1>7. \A u \in Threads : pc[r][u] # "post"
  BY <1>1, FillAlone
<1> SUFFICES ASSUME NEW u \in Threads
             PROVE  /\ pc'[r][u] # "post"
                    /\ pc'[r][u] = "filled" => \A h \in Chunk(u) : send_buf'[r][h] = Good(r, h, ip[r][u])'
  <2>1. \A u \in Threads : Chunk(u)' = Chunk(u)
    BY <1>1 DEF Chunk
  <2> QED BY <1>1, <2>1 DEF Ready
<1>8. pc'[r][u] # "post"
  BY <1>2, <1>7
<1>9. ASSUME pc'[r][u] = "filled", NEW h \in Chunk(u) PROVE send_buf'[r][h] = Good(r, h, ip[r][u])'
  <2>1. PICK j : j = ip[r][u]
    OBVIOUS
  <2>2. Good(r, h, ip[r][u])' = Good(r, h, j)
    <3>1. ip'[r][u] = j
      BY <1>1, <2>1
    <3>2. \A v : Version(v, j)' = Version(v, j)
      BY <1>1 DEF Version
    <3> QED BY <1>1, <3>1, <3>2 DEF Good
  <2>3. CASE u = t
    BY <1>3, <1>5, <1>6, <2>1, <2>2, <2>3
  <2>4. CASE u # t
    <3>1. pc[r][u] = "filled" /\ h \in Halves /\ h \notin Chunk(t)
      BY <1>2, <1>9, <2>4 DEF Chunk
    <3>2. send_buf[r][h] = Good(r, h, j)
      BY <1>9, <2>1, <3>1 DEF Ready
    <3> QED BY <1>5, <2>2, <3>1, <3>2
  <2> QED BY <2>3, <2>4
<1> QED BY <1>8, <1>9

\* ... and is all there when they are done.
LEMMA BarrierReady ==
  ASSUME Typed, ProgInv, NEW r \in Ranks, PhaseOf(r), Barrier(r), Ready(r)
  PROVE  Ready(r)'
<1>1. /\ prog' = prog /\ ip' = ip /\ Threads' = Threads /\ Halves' = Halves /\ send_buf' = send_buf
      /\ nthreads \in Nat \ {0}
  BY BarrierEffects, Sizes DEF bufs, Halves, Typed
<1> SUFFICES ASSUME NEW t \in Threads
             PROVE  /\ pc'[r][t] # "filled"
                    /\ pc'[r][t] = "post" => \A h \in Halves : send_buf[r][h] = Good(r, h, ip[r][t])'
  BY <1>1 DEF Ready
<1>2. pc[r][t] \in Waiting /\ pc'[r][t] # "filled" /\ (pc'[r][t] = "post" => pc[r][t] = "filled")
  <2>1. pc[r][t] \in {"filled", "waited", "flag1", "flag2", "looped"}
    BY BarrierEffects DEF Waiting
  <2>2. pc[r][t] = "filled" => pc'[r][t] = "post"
    BY BarrierEffects
  <2>3. pc[r][t] = "waited" => pc'[r][t] = "unpack"
    BY BarrierEffects
  <2>4. pc[r][t] = "flag1" => pc'[r][t] = "setflag"
    BY BarrierEffects
  <2>5. pc[r][t] = "looped" => pc'[r][t] = "next"
    BY BarrierEffects
  <2>6. pc[r][t] = "flag2" => pc'[r][t] \in {"flag", "loop", "next"}
    BY BarrierEffects
  <2> QED BY <2>1, <2>2, <2>3, <2>4, <2>5, <2>6 DEF Waiting
<1>3. ASSUME pc'[r][t] = "post", NEW h \in Halves PROVE send_buf[r][h] = Good(r, h, ip[r][t])'
  <2> PICK i : i = ip[r][t]
    OBVIOUS
  <2>1. PICK u \in Threads : u = h % nthreads /\ h \in Chunk(u)
    BY Sizes DEF Typed
  <2>2. pc[r][u] = "filled" /\ ip[r][u] = i
    BY <1>2, <1>3, <2>1, SameFilling
  <2>3. send_buf[r][h] = Good(r, h, i)
    BY <2>1, <2>2 DEF Ready
  <2>4. Good(r, h, ip[r][t])' = Good(r, h, i)
    <3>1. \A v : Version(v, i)' = Version(v, i)
      BY <1>1 DEF Version
    <3> QED BY <1>1, <2>1, <3>1 DEF Good
  <2> QED BY <2>3, <2>4
<1> QED BY <1>2, <1>3

\* No step changes what a rank has packed and has not yet sent.
LEMMA ReadyStep ==
  ASSUME Typed, ProgInv, nparal_dir > 0, PhaseCheck, SurfInv, [Next]_vars, NEW r \in Ranks, Ready(r)
  PROVE  Ready(r)'
<1>1. /\ prog \in Seq(Ops) /\ UNCHANGED env /\ Typed' /\ PhaseOf(r)
      /\ \A k \in 1 .. Len(prog) : prog'[k] = prog[k]
  BY Grows, TypedStep, Launching DEF PhaseCheck
<1>2. ASSUME send_buf'[r] = send_buf[r],
             \A t \in Threads : pc'[r][t] \in {"post", "filled"} => pc'[r][t] = pc[r][t] /\ ip'[r][t] = ip[r][t]
      PROVE  Ready(r)'
  BY <1>1, <1>2, ReadyKept
<1>3. ASSUME NEW t \in Threads, Advance(r, t) PROVE Ready(r)'
  <2>1. CASE Fill(r, t)
    BY <1>1, <2>1, FillReady
  <2>2. CASE Call(r, t)
    <3>1. send_buf' = send_buf /\ pc'[r][t] \notin {"post", "filled"}
      <4>1. prog'[ip[r][t] + 1].kind \in {"read", "start", "finish", "update"}
        BY <2>2, CallEffects, Operations
      <4>2. pc'[r][t] \in {"write", "start", "finish"}
        BY <2>2, <4>1, CallEffects DEF Entry
      <4> QED BY <2>2, <4>2, CallEffects DEF bufs
    <3>2. \A u \in Threads : u # t => pc'[r][u] = pc[r][u] /\ ip'[r][u] = ip[r][u]
      BY <2>2, CallEffects
    <3> QED BY <1>2, <3>1, <3>2
  <2>3. CASE ~ Fill(r, t) /\ ~ Call(r, t)
    <3>1. send_buf' = send_buf /\ pc[r][t] # "fill"
      <4>1. send_buf' = send_buf
        BY <1>3, <2>3, Touches
      <4>2. pc[r][t] # "fill"
        BY <1>3, <2>3 DEF Advance, Exit, Write, Start, Post, Finish, Wait, Unpack, Flag, SetFlag, Loop
      <4> QED BY <4>1, <4>2
    <3>2. ip' = ip /\ \A u \in Threads : u # t => pc'[r][u] = pc[r][u]
      BY <1>3, <2>3, Effects
    <3>3. pc'[r][t] \notin {"post", "filled"}
      <4>1. pc[r][t] \in PCs \ (Waiting \cup {"fill"})
        <5>1. pc[r][t] \in PCs
          BY AtOp DEF Typed
        <5> QED BY <1>3, <2>3, <3>1, <5>1, Moves
      <4>2. pc[r][t] \in {"next", "exit"} \/ pc[r][t] \in {"write", "start", "post", "finish",
                  "wait", "unpack", "flag", "setflag", "loop"}
        BY <4>1 DEF PCs
      <4> PICK l, m : l = pc[r][t] /\ m = pc'[r][t]
        OBVIOUS
      <4>3. /\ l \in Ended => m \in Ended
            /\ l = "start" => m \in {"fill", "next", "finish"}
            /\ l = "post" => m \in {"next", "finish"}
            /\ l = "finish" => m \in {"wait", "loop", "next"}
        BY <1>3, <2>3, Moves
      <4>4. /\ l = "wait" => m = "waited"
            /\ l = "unpack" => m = "flag"
            /\ l = "flag" => m \in {"flag1", "flag2"}
            /\ l = "setflag" => m = "flag2"
            /\ l = "loop" => m = "looped"
            /\ l = "write" => m = "flag"
        BY <1>3, <2>3, Moves
      <4> QED BY <4>2, <4>3, <4>4 DEF Ended
    <3> QED BY <1>2, <3>1, <3>2, <3>3
  <2> QED BY <2>1, <2>2, <2>3
<1>4. ASSUME NEW q \in Ranks, q # r, NEW u \in Threads, Advance(q, u) PROVE Ready(r)'
  <2>1. send_buf'[r] = send_buf[r]
    <3>1. CASE Fill(q, u)
      <4>1. send_buf \in [Ranks -> [Halves -> Pieces]]
        BY DEF Typed, Filled
      <4> QED BY <1>4, <3>1, <4>1 DEF Fill
    <3>2. CASE send_buf' = send_buf
      BY <3>2
    <3> QED BY <1>4, <3>1, <3>2, Touches
  <2>2. \A t \in Threads : pc'[r][t] = pc[r][t] /\ ip'[r][t] = ip[r][t]
    <3>1. CASE Call(q, u)
      BY <1>4, <3>1, CallEffects
    <3>2. CASE ~ Call(q, u)
      BY <1>4, <3>2, Effects
    <3> QED BY <3>1, <3>2
  <2> QED BY <1>2, <2>1, <2>2
<1>5. ASSUME Barrier(r) PROVE Ready(r)'
  BY <1>1, <1>5, BarrierReady
<1>6. ASSUME NEW q \in Ranks, q # r, Barrier(q) PROVE Ready(r)'
  <2>1. send_buf' = send_buf /\ pc'[r] = pc[r] /\ ip' = ip
    BY <1>6, BarrierEffects DEF bufs
  <2> QED BY <1>2, <2>1
<1>7. ASSUME NEW q \in Ranks, NEW s \in Ranks, NEW c \in Comms, Deliver(q, s, c) PROVE Ready(r)'
  <2>1. send_buf' = send_buf /\ pc' = pc /\ ip' = ip
    BY <1>7 DEF Deliver, where
  <2> QED BY <1>2, <2>1
<1>8. UNCHANGED vars => Ready(r)'
  <2>1. UNCHANGED vars => send_buf' = send_buf /\ pc' = pc /\ ip' = ip
    BY DEF vars, bufs, where
  <2> QED BY <1>2, <2>1
<1> QED BY <1>3, <1>4, <1>5, <1>6, <1>7, <1>8 DEF Next, Progress, Transport, Terminated
-----------------------------------------------------------------------------
\* A master waits for the exchange he has come to.
LEMMA AwaitX ==
  ASSUME Typed, ProgInv, NEW r \in Ranks, Awaiting(r)
  PROVE  MyX(r) \in 1 .. Len(prog) /\ Exchange(MyX(r))
<1>1. PICK l, i : l = pc[r][0] /\ i = ip[r][0]
  OBVIOUS
<1>2. prog \in Seq(Ops) /\ 0 \in Threads /\ Len(prog) \in Nat
  BY Sizes DEF Typed, Placed
<1>3. i \in Nat /\ i <= Len(prog) /\ (l \notin Ended => i \in 1 .. Len(prog))
  BY <1>1, <1>2, AtOp DEF Typed
<1>4. AwaitAt(l, i) /\ MyX(r) = XAt(l, i)
  BY <1>1 DEF Awaiting, MyX
<1>5. CASE l \in Ended
  <2>1. XAt(l, i) = LastX(i) /\ Talking(i + 1) # {}
    BY <1>4, <1>5 DEF XAt, AwaitAt, Ended, Ahead
  <2>2. PICK j \in 1 .. i : Open(j, i + 1) /\ Talks(j)
    BY <1>3, <2>1 DEF Talking
  <2>3. LastX(i + 1 - 1) = j
    BY <1>2, <1>3, <2>2, InFlightOnly
  <2> QED BY <1>3, <1>4, <2>1, <2>3, MyXs
<1>6. CASE l \notin Ended
  <2>1. CASE Talking(i) # {}
    <3>1. PICK j \in Talking(i) : TRUE
      BY <2>1
    <3>2. LastX(i - 1) = j /\ LastX(i) = j /\ j \in 1 .. i - 1
      BY <1>2, <1>3, <1>6, <3>1, TalkingNext
    <3>3. MyX(r) = j
      BY <1>4, <3>2 DEF XAt
    <3> QED BY <3>2, <3>3, MyXs
  <2>2. CASE Talking(i) = {}
    <3>1. l \in {"finish", "wait"} /\ Exchange(i) /\ i \in 1 .. Len(prog)
      BY <1>3, <1>4, <1>6, <2>2 DEF AwaitAt, Exchange
    <3>2. LastX(i) = i
      BY <1>2, <3>1, Exchanges
    <3>3. MyX(r) = i
      BY <1>4, <3>1, <3>2 DEF XAt, Ahead
    <3> QED BY <3>1, <3>3
  <2> QED BY <2>1, <2>2
<1> QED BY <1>5, <1>6

\* send_buf is not written while the master has to wait, ...
LEMMA SendBufKept ==
  ASSUME Typed, ProgInv, PhaseCheck, [Next]_vars, NEW r \in Ranks, Awaiting(r)
  PROVE  \A h \in Halves : send_buf'[r][h] = send_buf[r][h]
<1>1. ASSUME NEW q \in Ranks, NEW t \in Threads, Advance(q, t) PROVE send_buf'[r] = send_buf[r]
  <2>1. CASE Fill(q, t)
    <3>1. q # r
      <4>1. pc[q][t] = "fill" /\ PhaseOf(q)
        BY <2>1 DEF Fill, PhaseCheck
      <4> QED BY <1>1, <4>1, FillAlone
    <3>2. send_buf \in [Ranks -> [Halves -> Pieces]]
      BY DEF Typed, Filled
    <3> QED BY <1>1, <2>1, <3>1, <3>2 DEF Fill
  <2> QED BY <1>1, <2>1, Touches
<1>2. ASSUME NEW q \in Ranks, Barrier(q) PROVE send_buf'[r] = send_buf[r]
  BY <1>2 DEF Barrier, bufs
<1>3. Transport => send_buf'[r] = send_buf[r]
  BY DEF Transport, Deliver
<1>4. UNCHANGED vars => send_buf'[r] = send_buf[r]
  BY DEF vars, bufs
<1> QED BY <1>1, <1>2, <1>3, <1>4 DEF Next, Progress, Terminated

\* ... which leaves the messages as they are.
LEMMA ContentsKept ==
  ASSUME Typed, ProgInv, PhaseCheck, [Next]_vars, NEW r \in Ranks, Settled(r),
         NEW s \in Ranks, NEW c \in Comms, NEW k \in 1 .. Len(sends[r][s][c]),
         NEW m, m = sends[r][s][c][k]
  PROVE  Contents(r, m)' = Contents(r, m)
<1>1. m \in Parcels
  BY DEF Typed, Filled
<1>2. CASE Awaiting(r)
  <2>1. send_buf'[r][m.half] = send_buf[r][m.half]
    BY <1>1, <1>2, SendBufKept DEF Parcels
  <2> QED BY <2>1 DEF Contents
<1>3. CASE ~ Awaiting(r)
  BY <1>3 DEF Settled, Contents
<1> QED BY <1>2, <1>3

\* send_buf stays as it is while the master comes to no other exchange.
LEMMA HeldKept ==
  ASSUME Typed, ProgInv, PhaseCheck, [Next]_vars, NEW r \in Ranks,
         MyX(r)' = MyX(r), Awaiting(r)' => Awaiting(r), Held(r)
  PROVE  Held(r)'
<1>1. prog \in Seq(Ops) /\ Halves' = Halves /\ \A k \in 1 .. Len(prog) : prog'[k] = prog[k]
  BY Grows DEF Halves
<1> SUFFICES ASSUME Awaiting(r)', NEW h \in Halves PROVE send_buf'[r][h] = Good(r, h, MyX(r))'
  BY <1>1 DEF Held
<1>2. PICK x \in 1 .. Len(prog) : x = MyX(r)
  BY AwaitX
<1>3. send_buf'[r][h] = Good(r, h, x)
  BY <1>2, SendBufKept DEF Held
<1>4. Good(r, h, MyX(r))' = Good(r, h, x)'
  BY <1>2 DEF Good
<1>5. Good(r, h, x)' = Good(r, h, x)
  BY <1>1, GoodTold
<1> QED BY <1>3, <1>4, <1>5

\* What an exchange leaves behind, while the master does not turn to another one.
LEMMA SettledKept ==
  ASSUME Typed, ProgInv, UNCHANGED env, \A k \in 1 .. Len(prog) : prog'[k] = prog[k], NEW r \in Ranks,
         MyX(r)' = MyX(r), Awaiting(r)' <=> Awaiting(r),
         \A s \in Ranks, c \in Comms :
           /\ recvs[r][s][c] = <<>> => recvs'[r][s][c] = <<>>
           /\ (\A k \in 1 .. Len(sends[r][s][c]) : sends[r][s][c][k].taken) =>
                \A k \in 1 .. Len(sends'[r][s][c]) : sends'[r][s][c][k].taken,
         Settled(r)
  PROVE  Settled(r)'
<1>1. Ranks' = Ranks /\ Comms' = Comms
  BY DEF env, Ranks, Comms
<1> SUFFICES ASSUME NEW s \in Ranks, NEW c \in Comms
             PROVE  /\ ~ Awaiting(r)' => recvs'[r][s][c] = <<>>
                    /\ ~ Awaiting(r)' \/ c # Comm(prog[MyX(r)])' =>
                         \A k \in 1 .. Len(sends'[r][s][c]) : sends'[r][s][c][k].taken
  BY <1>1 DEF Settled
<1>2. ~ Awaiting(r)' => recvs'[r][s][c] = <<>>
  BY DEF Settled
<1>3. Awaiting(r) => Comm(prog[MyX(r)])' = Comm(prog[MyX(r)])
  <2> SUFFICES ASSUME Awaiting(r) PROVE Comm(prog[MyX(r)])' = Comm(prog[MyX(r)])
    OBVIOUS
  <2>1. PICK x \in 1 .. Len(prog) : x = MyX(r)
    BY AwaitX
  <2> QED BY <2>1 DEF Comm
<1> QED BY <1>2, <1>3 DEF Settled

\* What can be said of a rank, apart from what it has prepared.
NetOf(r) ==
  Held(r) /\ Settled(r) /\ Received(r) /\ \A s \in Ranks : Near(r, s) /\ \A c \in Comms : Channel(r, s, c)

\* Most steps leave the messages alone.
LEMMA QuietNet ==
  ASSUME Typed, ProgInv, nparal_dir > 0, PhaseCheck, NetInv, [Next]_vars,
         UNCHANGED <<recvs, sends, recv_buf>>, \A r \in Ranks : ~ Post(r, 0) /\ ~ Wait(r, 0)
  PROVE  \A r \in Ranks : NetOf(r)'
<1>1. /\ UNCHANGED env /\ Typed' /\ Ranks' = Ranks /\ Comms' = Comms
      /\ \A k \in 1 .. Len(prog) : prog'[k] = prog[k]
  BY Grows, TypedStep, Launching DEF Ranks, env, Comms
<1>2. \A r \in Ranks : MyX(r)' = MyX(r) /\ (Awaiting(r)' <=> Awaiting(r))
  BY MastersKeep
<1>3. \A r \in Ranks, s \in Ranks, c \in Comms :
        /\ Len(sends'[r][s][c]) = Len(sends[r][s][c])
        /\ \A k \in 1 .. Len(sends[r][s][c]) :
             /\ sends'[r][s][c][k].half = sends[r][s][c][k].half
             /\ Contents(r, sends[r][s][c][k])' = Contents(r, sends[r][s][c][k])
  <2> SUFFICES ASSUME NEW r \in Ranks, NEW s \in Ranks, NEW c \in Comms, NEW k \in 1 .. Len(sends[r][s][c])
               PROVE  Contents(r, sends[r][s][c][k])' = Contents(r, sends[r][s][c][k])
    OBVIOUS
  <2>1. PICK m : m = sends[r][s][c][k]
    OBVIOUS
  <2>2. Contents(r, m)' = Contents(r, m)
    BY <2>1, ContentsKept DEF NetInv
  <2>3. Contents(r, sends[r][s][c][k])' = Contents(r, m)'
    BY <2>1 DEF Contents
  <2> QED BY <2>1, <2>2, <2>3
<1> TAKE r \in Ranks
<1>4. Received(r)' /\ \A s \in Ranks : Near(r, s)' /\ \A c \in Comms : Channel(r, s, c)'
  <2>1. recvs' = recvs /\ recv_buf' = recv_buf /\ \A q \in Ranks : MyX(q)' = MyX(q)
    BY <1>2
  <2> QED BY <1>1, <1>3, <2>1, NetKept
<1>5. Held(r)'
  BY <1>2, HeldKept DEF NetInv
<1>6. Settled(r)'
  <2>1. Settled(r)
    BY DEF NetInv
  <2> QED BY <1>1, <1>2, <2>1, SettledKept
<1> QED BY <1>1, <1>4, <1>5, <1>6 DEF NetOf
\* Masters step one at a time.
LEMMA OneMaster ==
  ASSUME Typed, nparal_dir > 0, NEW q \in Ranks, Post(q, 0) \/ Wait(q, 0), NEW r \in Ranks, r # q
  PROVE  ~ Post(r, 0) /\ ~ Wait(r, 0)
<1>1. 0 \in Threads /\ Advance(q, 0) /\ ~ Call(q, 0)
  BY Sizes DEF Typed, Advance, Post, Wait, Call
<1>2. pc'[r][0] = pc[r][0]
  BY <1>1, Effects
<1>3. ASSUME Post(r, 0) \/ Wait(r, 0) PROVE FALSE
  <2>1. Advance(r, 0) /\ ~ Call(r, 0)
    BY <1>3 DEF Advance, Post, Wait, Call
  <2>2. pc[r][0] = "post" \/ pc[r][0] = "wait"
    BY <1>3 DEF Post, Wait
  <2>3. pc[r][0] = "post" => pc'[r][0] \in {"next", "finish"}
    BY <1>1, <2>1, Moves
  <2>4. pc[r][0] = "wait" => pc'[r][0] = "waited"
    BY <1>1, <2>1, Moves
  <2> QED BY <1>2, <2>2, <2>3, <2>4
<1> QED BY <1>3

\* A master has waited for all that was to come, and lets his messages go.
LEMMA WaitedNet ==
  ASSUME Typed, ProgInv, nparal_dir > 0, PhaseCheck, NetInv, [Next]_vars, NEW q \in Ranks, Wait(q, 0)
  PROVE  \A r \in Ranks : NetOf(r)'
<1>1. /\ UNCHANGED env /\ Typed' /\ Ranks' = Ranks /\ Comms' = Comms
      /\ \A k \in 1 .. Len(prog) : prog'[k] = prog[k]
  BY Grows, TypedStep, Launching DEF Ranks, env, Comms
<1>2. PICK c \in Comms : c = Comm(op(q, 0))
  BY DEF Comm, Comms
<1>3. /\ MyX(q) > 0 /\ c = Comm(prog[MyX(q)]) /\ comm_in_prog[q][c]
      /\ MyX(q)' = MyX(q) /\ Awaiting(q) /\ ~ Awaiting(q)'
  BY <1>2, WaitTurns DEF PhaseCheck
<1>4. \A r \in Ranks : r # q => MyX(r)' = MyX(r) /\ (Awaiting(r)' <=> Awaiting(r))
  BY OneMaster, MastersKeep
<1>5. 0 \in Threads /\ recvs' = recvs /\ recv_buf' = recv_buf
  BY Sizes DEF Wait, bufs, Typed
<1>6. /\ \A s \in Ranks : recvs[q][s][c] = <<>>
      /\ \A a, s \in Ranks, d \in Comms : a # q \/ d # c => sends'[a][s][d] = sends[a][s][d]
      /\ \A s \in Ranks :
           /\ Len(sends'[q][s][c]) = Len(sends[q][s][c])
           /\ \A k \in 1 .. Len(sends[q][s][c]) :
                sends'[q][s][c][k] = [half |-> sends[q][s][c][k].half,
                                      piece |-> Contents(q, sends[q][s][c][k]), taken |-> TRUE]
  BY <1>2, <1>3, <1>5, WaitNet
<1>7. \A r \in Ranks, s \in Ranks, d \in Comms :
        /\ Len(sends'[r][s][d]) = Len(sends[r][s][d])
        /\ \A k \in 1 .. Len(sends[r][s][d]) :
             /\ sends'[r][s][d][k].half = sends[r][s][d][k].half
             /\ Contents(r, sends[r][s][d][k])' = Contents(r, sends[r][s][d][k])
  <2> TAKE r \in Ranks, s \in Ranks, d \in Comms
  <2>1. CASE r = q /\ d = c
    <3>1. Len(sends'[q][s][c]) = Len(sends[q][s][c])
      BY <1>6
    <3>2. ASSUME NEW k \in 1 .. Len(sends[q][s][c])
          PROVE  /\ sends'[q][s][c][k].half = sends[q][s][c][k].half
                 /\ Contents(q, sends[q][s][c][k])' = Contents(q, sends[q][s][c][k])
      <4>1. PICK m : m = Contents(q, sends[q][s][c][k])
        OBVIOUS
      <4>2. sends'[q][s][c][k] = [half |-> sends[q][s][c][k].half, piece |-> m, taken |-> TRUE]
        BY <1>6, <4>1
      <4>3. Contents(q, sends[q][s][c][k])' = m
        BY <4>2 DEF Contents
      <4> QED BY <4>1, <4>2, <4>3
    <3> QED BY <2>1, <3>1, <3>2
  <2>2. CASE r # q \/ d # c
    <3>1. sends'[r][s][d] = sends[r][s][d]
      BY <1>6, <2>2
    <3>2. ASSUME NEW k \in 1 .. Len(sends[r][s][d])
          PROVE  Contents(r, sends[r][s][d][k])' = Contents(r, sends[r][s][d][k])
      <4>1. PICK m : m = sends[r][s][d][k]
        OBVIOUS
      <4>2. Contents(r, m)' = Contents(r, m)
        BY <4>1, ContentsKept DEF NetInv
      <4>3. Contents(r, sends[r][s][d][k])' = Contents(r, m)'
        BY <3>1, <4>1 DEF Contents
      <4> QED BY <4>1, <4>2, <4>3
    <3> QED BY <3>1, <3>2
  <2> QED BY <2>1, <2>2
<1> TAKE r \in Ranks
<1>8. Received(r)' /\ \A s \in Ranks : Near(r, s)' /\ \A d \in Comms : Channel(r, s, d)'
  <2>1. recvs' = recvs /\ recv_buf' = recv_buf /\ \A a \in Ranks : MyX(a)' = MyX(a)
    BY <1>3, <1>4, <1>5
  <2> QED BY <1>1, <1>7, <2>1, NetKept
<1>9. Held(r)'
  BY <1>3, <1>4, HeldKept DEF NetInv
<1>10. Settled(r)'
  <2>1. CASE r # q
    <3>1. MyX(r)' = MyX(r) /\ (Awaiting(r)' <=> Awaiting(r)) /\ Settled(r)
      BY <1>4, <2>1 DEF NetInv
    <3>2. \A s \in Ranks, d \in Comms : sends'[r][s][d] = sends[r][s][d] /\ recvs'[r][s][d] = recvs[r][s][d]
      BY <1>5, <1>6, <2>1
    <3> QED BY <1>1, <3>1, <3>2, SettledKept
  <2>2. CASE r = q
    <3>1. ASSUME NEW s \in Ranks, NEW d \in Comms, d # c PROVE recvs[q][s][d] = <<>>
      <4>1. Channel(s, q, d)
        BY DEF NetInv
      <4> QED BY <1>3, <3>1, <4>1 DEF Channel, Line
    <3>2. \A s \in Ranks, d \in Comms : recvs'[q][s][d] = <<>>
      BY <1>5, <1>6, <3>1
    <3>3. ASSUME NEW s \in Ranks, NEW d \in Comms
          PROVE  \A k \in 1 .. Len(sends'[q][s][d]) : sends'[q][s][d][k].taken
      <4>1. CASE d = c
        <5>1. Len(sends'[q][s][c]) = Len(sends[q][s][c])
          BY <1>6
        <5>2. ASSUME NEW k \in 1 .. Len(sends[q][s][c]) PROVE sends'[q][s][c][k].taken
          <6> PICK h, m : h = sends[q][s][c][k].half /\ m = Contents(q, sends[q][s][c][k])
            OBVIOUS
          <6>1. sends'[q][s][c][k] = [half |-> h, piece |-> m, taken |-> TRUE]
            BY <1>6, <5>2
          <6> QED BY <6>1
        <5> QED BY <4>1, <5>1, <5>2
      <4>2. CASE d # c
        <5>1. \A k \in 1 .. Len(sends[q][s][d]) : sends[q][s][d][k].taken
          BY <1>3, <4>2 DEF NetInv, Settled
        <5> QED BY <1>6, <4>2, <5>1
      <4> QED BY <4>1, <4>2
    <3> QED BY <1>1, <2>2, <3>2, <3>3 DEF Settled
  <2> QED BY <2>1, <2>2
<1> QED BY <1>1, <1>8, <1>9, <1>10 DEF NetOf

\* A step that touches neither the messages of two ranks, nor where their masters
\* are, keeps their channel.
LEMMA ChannelTold ==
  ASSUME Typed, UNCHANGED env, \A k \in 1 .. Len(prog) : prog'[k] = prog[k], send_buf' = send_buf,
         NEW r \in Ranks, NEW s \in Ranks, NEW c \in Comms, NEW q \in Seq(Parcels), NEW p \in Seq(Halves),
         NEW x \in Nat, NEW y \in Nat, x <= Len(prog), y <= Len(prog), Line(r, s, c, q, p, x, y),
         sends'[r][s][c] = q, recvs'[s][r][c] = p, MyX(r)' = x, MyX(s)' = y
  PROVE  Channel(r, s, c)'
<1>1. \A m : Contents(r, m)' = Contents(r, m)
  BY DEF Contents
<1>2. \A k \in 1 .. Len(q) : q[k].half = q[k].half /\ Contents(r, q[k])' = Contents(r, q[k])
  BY <1>1
<1>3. Line(r, s, c, q, p, x, y)'
  BY <1>2, LineTold
<1> QED BY <1>3 DEF Channel, Line, Carries
\* What the master does who starts an exchange, and MPI who delivers a message.
LEMMA PostZero ==
  ASSUME Typed, NEW a \in Ranks, Post(a, 0), NEW c, c = Comm(op(a, 0)),
         NEW q \in Ranks, NEW s \in Ranks, NEW d \in Comms
  PROVE  /\ recvs'[q][s][d] = IF q = a /\ d = c THEN recvs[q][s][d] \o From(a, s) ELSE recvs[q][s][d]
         /\ sends'[q][s][d] = IF q = a /\ d = c THEN sends[q][s][d] \o Messages(a, s) ELSE sends[q][s][d]
<1>1. sends \in [Ranks -> [Ranks -> [Comms -> Seq(Parcels)]]] /\ recvs \in [Ranks -> [Ranks -> [Comms -> Seq(Halves)]]]
  BY DEF Typed, Filled
<1>2. recvs' = [recvs EXCEPT ![a] = [y \in Ranks |-> [z \in Comms |->
                  IF z = c THEN @[y][z] \o From(a, y) ELSE @[y][z]]]]
  BY DEF Post
<1>3. sends' = [sends EXCEPT ![a] = [y \in Ranks |-> [z \in Comms |->
                  IF z = c THEN @[y][z] \o Messages(a, y) ELSE @[y][z]]]]
  BY DEF Post
<1>4. recvs'[q][s][d] = IF q = a /\ d = c THEN recvs[q][s][d] \o From(a, s) ELSE recvs[q][s][d]
  BY <1>1, <1>2
<1>5. sends'[q][s][d] = IF q = a /\ d = c THEN sends[q][s][d] \o Messages(a, s) ELSE sends[q][s][d]
  BY <1>1, <1>3
<1> QED BY <1>4, <1>5

\* A delivery fills the half of recv_buf the receive was posted for, and no other.
LEMMA Brought ==
  ASSUME Typed, NEW a \in Ranks, NEW b \in Ranks, NEW c \in Comms, Deliver(a, b, c)
  PROVE  /\ recv_buf'[b][recvs[b][a][c][1]] = Contents(a, sends[a][b][c][1])
         /\ \A h \in Halves : h # recvs[b][a][c][1] => recv_buf'[b][h] = recv_buf[b][h]
<1> PICK q, p : q = sends[a][b][c] /\ p = recvs[b][a][c]
  OBVIOUS
<1>1. q \in Seq(Parcels) /\ p \in Seq(Halves) /\ q # <<>> /\ p # <<>>
  BY DEF Deliver, Typed, Filled
<1>2. Head(p) = p[1] /\ Head(q) = q[1] /\ p[1] \in Halves
  BY <1>1
<1>3. recv_buf' = [recv_buf EXCEPT ![b][p[1]] = Contents(a, q[1])]
  BY <1>2 DEF Deliver
<1>4. recv_buf \in [Ranks -> [Halves -> Pieces]]
  BY DEF Typed, Filled
<1> QED BY <1>2, <1>3, <1>4

\* A master who starts an exchange has none to wait for, and no neighbour is
\* behind him.
LEMMA Posted ==
  ASSUME Typed, ProgInv, nparal_dir > 0, PhaseCheck, NetInv, [Next]_vars, NEW a \in Ranks, Post(a, 0),
         NEW i, i = ip[a][0]
  PROVE  /\ i \in 1 .. Len(prog) /\ Exchange(i) /\ MyX(a) = LastX(i - 1) /\ ~ Awaiting(a)
         /\ MyX(a)' = i /\ Awaiting(a)' /\ prog' = prog /\ send_buf' = send_buf /\ recv_buf' = recv_buf
         /\ \A h \in Halves : send_buf[a][h] = Good(a, h, i)
         /\ \A s \in Ranks \ {a} : MyX(s)' = MyX(s) /\ (Awaiting(s)' <=> Awaiting(s))
         /\ \A s \in Ranks, d \in Comms :
              /\ recvs[a][s][d] = <<>>
              /\ recvs'[a][s][d] = IF d = Comm(prog[i]) THEN From(a, s) ELSE <<>>
              /\ sends'[a][s][d] = IF d = Comm(prog[i]) THEN sends[a][s][d] \o Messages(a, s) ELSE sends[a][s][d]
         /\ \A r \in Ranks \ {a}, s \in Ranks, d \in Comms :
              sends'[r][s][d] = sends[r][s][d] /\ recvs'[r][s][d] = recvs[r][s][d]
         /\ \A s \in Ranks : From(s, a) # <<>> => MyX(s) >= MyX(a)
<1>1. /\ i \in 1 .. Len(prog) /\ op(a, 0) = prog[i] /\ Exchange(i) /\ MyX(a) = LastX(i - 1) /\ ~ Awaiting(a)
      /\ MyX(a)' = i /\ Awaiting(a)' /\ prog' = prog
  BY PostTurns DEF PhaseCheck
<1>2. 0 \in Threads /\ pc[a][0] = "post" /\ send_buf' = send_buf /\ recv_buf' = recv_buf
  BY Sizes DEF Typed, Post, bufs
<1>3. \A h \in Halves : send_buf[a][h] = Good(a, h, i)
  BY <1>2 DEF NetInv, Ready
<1>4. \A s \in Ranks \ {a} : MyX(s)' = MyX(s) /\ (Awaiting(s)' <=> Awaiting(s))
  BY OneMaster, MastersKeep
<1>5. \A s \in Ranks, d \in Comms : recvs[a][s][d] = <<>>
  BY <1>1 DEF NetInv, Settled
<1>6. PICK c : c = Comm(op(a, 0)) /\ c = Comm(prog[i])
  BY <1>1
<1>7. \A q, s \in Ranks, d \in Comms :
        /\ recvs'[q][s][d] = IF q = a /\ d = c THEN recvs[q][s][d] \o From(a, s) ELSE recvs[q][s][d]
        /\ sends'[q][s][d] = IF q = a /\ d = c THEN sends[q][s][d] \o Messages(a, s) ELSE sends[q][s][d]
  BY <1>6, PostZero
<1>8. \A s \in Ranks, d \in Comms : recvs'[a][s][d] = IF d = c THEN From(a, s) ELSE <<>>
  <2> TAKE s \in Ranks, d \in Comms
  <2>1. recvs'[a][s][d] = IF d = c THEN <<>> \o From(a, s) ELSE <<>>
    <3>1. recvs[a][s][d] = <<>>
      BY <1>5
    <3>2. recvs'[a][s][d] = IF d = c THEN recvs[a][s][d] \o From(a, s) ELSE recvs[a][s][d]
      BY <1>7
    <3> QED BY <3>1, <3>2
  <2>2. <<>> \o From(a, s) = From(a, s)
    <3>1. From(a, s) \in Seq(Halves)
      BY Messaging
    <3> QED BY <3>1
  <2> QED BY <2>1, <2>2
<1>9. ASSUME NEW s \in Ranks, From(s, a) # <<>> PROVE MyX(s) >= MyX(a)
  <2>1. PICK x, y : x = MyX(a) /\ y = MyX(s) /\ x \in Nat /\ y \in Nat
    BY MyXs
  <2>2. ASSUME y < x PROVE FALSE
    <3>1. x > 0 /\ Comm(prog[x]) \in Comms
      BY <2>1, <2>2 DEF Comm, Comms
    <3>2. Channel(s, a, Comm(prog[x]))
      BY <3>1 DEF NetInv
    <3>3. recvs[a][s][Comm(prog[x])] = From(a, s)
      BY <2>1, <2>2, <3>2 DEF Channel, Line
    <3>4. From(a, s) = <<>>
      BY <1>5, <3>1, <3>3
    <3>5. From(s, a) = <<>>
      BY <3>4, Facing, Sizes DEF Typed
    <3> QED BY <1>9, <3>5
  <2> QED BY <2>1, <2>2
<1>10. \A s \in Ranks, d \in Comms :
         sends'[a][s][d] = IF d = c THEN sends[a][s][d] \o Messages(a, s) ELSE sends[a][s][d]
  BY <1>7
<1>11. \A r \in Ranks \ {a}, s \in Ranks, d \in Comms :
         sends'[r][s][d] = sends[r][s][d] /\ recvs'[r][s][d] = recvs[r][s][d]
  BY <1>7
<1> QED BY <1>1, <1>2, <1>3, <1>4, <1>5, <1>6, <1>8, <1>9, <1>10, <1>11

\* What he sends and asks for comes last.
LEMMA PostedTo ==
  ASSUME Typed, ProgInv, nparal_dir > 0, PhaseCheck, NetInv, [Next]_vars, NEW a \in Ranks, Post(a, 0),
         NEW s \in Ranks
  PROVE  Near(a, s)' /\ \A d \in Comms : Channel(a, s, d)'
<1> PICK i, x, y : i = ip[a][0] /\ x = MyX(a) /\ y = MyX(s)
  OBVIOUS
<1>1. /\ i \in 1 .. Len(prog) /\ Exchange(i) /\ x = LastX(i - 1) /\ ~ Awaiting(a)
      /\ MyX(a)' = i /\ prog' = prog /\ send_buf' = send_buf
      /\ \A h \in Halves : send_buf[a][h] = Good(a, h, i)
      /\ s # a => MyX(s)' = y
  BY Posted
<1>2. \A d \in Comms :
        /\ recvs[a][s][d] = <<>>
        /\ sends'[a][s][d] = IF d = Comm(prog[i]) THEN sends[a][s][d] \o Messages(a, s) ELSE sends[a][s][d]
        /\ recvs'[a][s][d] = IF d = Comm(prog[i]) THEN From(a, s) ELSE <<>>
        /\ s # a => recvs'[s][a][d] = recvs[s][a][d]
  BY Posted
<1>3. From(s, a) # <<>> => y >= x /\ Adjacent(x, y)
  BY Posted DEF NetInv, Near
<1>4. /\ x \in Nat /\ y \in Nat /\ (y > 0 => y \in 1 .. Len(prog) /\ Exchange(y)) /\ y <= Len(prog)
      /\ i \in Nat /\ i <= Len(prog) /\ prog \in Seq(Ops) /\ \A k \in 1 .. Len(prog) : prog'[k] = prog[k]
  <2>1. prog \in Seq(Ops) /\ Len(prog) \in Nat
    BY DEF Typed, Placed
  <2>2. x \in Nat /\ y \in Nat /\ (y > 0 => y \in 1 .. Len(prog) /\ Exchange(y))
    BY MyXs
  <2> QED BY <1>1, <2>1, <2>2
<1>5. nranks \in Nat \ {0} /\ (s = a => From(s, a) = <<>>) /\ UNCHANGED env /\ To(a, s) = From(s, a)
  <2>1. nranks \in Nat \ {0} /\ nranks > 1
    BY Sizes DEF Typed, nparal_dir
  <2> QED BY <2>1, Facing, Launching
<1>6. From(s, a)' = From(s, a)
  BY <1>5 DEF env, rank_neigh, From, Halves, InOrder
<1>7. \A d \in Comms : Line(a, s, d, sends[a][s][d], recvs[s][a][d], x, y)
  BY DEF NetInv, Channel
<1>8. \A d \in Comms : sends[a][s][d] \in Seq(Parcels) /\ recvs[s][a][d] \in Seq(Halves)
  BY DEF Typed, Filled
<1>9. CASE From(s, a) = <<>>
  <2>1. ASSUME NEW d \in Comms PROVE sends[a][s][d] = <<>> /\ recvs[s][a][d] = <<>>
    BY <1>4, <1>5, <1>7, <1>8, <1>9, <2>1, LineSilent
  <2>2. Messages(a, s) = <<>>
    <3>1. Len(Messages(a, s)) = 0 /\ Messages(a, s) \in Seq(Parcels)
      <4>1. Len(To(a, s)) = Len(Messages(a, s)) /\ Messages(a, s) \in Seq(Parcels)
        BY Messaging
      <4> QED BY <1>5, <1>9, <4>1
    <3> QED BY <3>1
  <2>3. From(a, s) = <<>>
    BY <1>5, <1>9, Facing
  <2>4. \A d \in Comms : sends'[a][s][d] = <<>> /\ recvs'[s][a][d] = <<>>
    <3> TAKE d \in Comms
    <3>1. sends'[a][s][d] = <<>>
      BY <1>2, <2>1, <2>2
    <3>2. recvs'[s][a][d] = <<>>
      BY <1>2, <2>1, <2>3
    <3> QED BY <3>1, <3>2
  <2>5. PICK z \in Nat : z = MyX(s)' /\ z <= Len(prog)
    BY <1>1, <1>4
  <2>6. ASSUME NEW d \in Comms PROVE Channel(a, s, d)'
    <3>2. <<>> \in Seq(Parcels) /\ <<>> \in Seq(Halves)
      OBVIOUS
    <3>1. Line(a, s, d, <<>>, <<>>, i, z)
      BY <1>4, <1>5, <1>9, <2>5, <3>2, LineSilent
    <3> QED BY <1>1, <1>4, <1>5, <2>4, <2>5, <3>1, <3>2, ChannelTold
  <2> QED BY <1>6, <1>9, <2>6 DEF Near
<1>10. CASE From(s, a) # <<>>
  <2>1. s # a /\ MyX(s)' = y
    BY <1>1, <1>5, <1>10
  <2>2. ASSUME NEW d \in Comms
        PROVE  Line(a, s, d, sends'[a][s][d], recvs[s][a][d], i, y) /\ Adjacent(i, y)
    <3>1. sends'[a][s][d] = IF d = Comm(prog[i]) THEN sends[a][s][d] \o Messages(a, s) ELSE sends[a][s][d]
      BY <1>2
    <3>2. Line(a, s, d, sends[a][s][d], recvs[s][a][d], x, y)
      BY <1>7
    <3>3. Line(a, s, d, sends'[a][s][d], recvs[s][a][d], i, y) /\ Adjacent(i, y)
      <4>1. /\ i \in 1 .. Len(prog) /\ Exchange(i) /\ x = LastX(i - 1)
            /\ y > 0 => y \in 1 .. Len(prog) /\ Exchange(y)
            /\ Adjacent(x, y) /\ y >= x /\ x \in Nat /\ y \in Nat
            /\ \A h \in Halves : send_buf[a][h] = Good(a, h, i)
        BY <1>1, <1>3, <1>4, <1>10
      <4> QED BY <3>1, <3>2, <4>1, LineSent
    <3> QED BY <3>3
  <2>3. ASSUME NEW d \in Comms PROVE Channel(a, s, d)'
    <3> PICK p, q1 : p = recvs[s][a][d] /\ q1 = sends'[a][s][d]
      OBVIOUS
    <3>1. q1 \in Seq(Parcels)
      <4>1. Messages(a, s) \in Seq(Parcels)
        BY Messaging
      <4>2. sends[a][s][d] \o Messages(a, s) \in Seq(Parcels)
        BY <1>8, <4>1
      <4> QED BY <1>2, <1>8, <4>2
    <3>2. Line(a, s, d, q1, p, i, y) /\ p \in Seq(Halves) /\ recvs'[s][a][d] = p
      BY <1>2, <1>8, <2>1, <2>2
    <3> QED BY <1>1, <1>4, <1>5, <2>1, <3>1, <3>2, ChannelTold
  <2>4. Near(a, s)'
    <3>1. Adjacent(i, y)
      <4>1. "lx" \in Comms
        BY DEF Comms
      <4> QED BY <2>2, <4>1
    <3>2. Adjacent(i, y)'
      BY <1>4, <3>1, AdjacentTold
    <3>3. Adjacent(MyX(a), MyX(s))' <=> Adjacent(i, y)'
      BY <1>1, <2>1 DEF Adjacent
    <3> QED BY <3>2, <3>3 DEF Near
  <2> QED BY <2>3, <2>4
<1> QED BY <1>9, <1>10

\* What he asks for has been sent, or is sent by one as far as he is.
LEMMA PostedFrom ==
  ASSUME Typed, ProgInv, nparal_dir > 0, PhaseCheck, NetInv, [Next]_vars, NEW a \in Ranks, Post(a, 0),
         NEW r \in Ranks, r # a
  PROVE  Near(r, a)' /\ \A d \in Comms : Channel(r, a, d)'
<1> PICK i, x, y : i = ip[a][0] /\ x = MyX(r) /\ y = MyX(a)
  OBVIOUS
<1>1. /\ i \in 1 .. Len(prog) /\ Exchange(i) /\ y = LastX(i - 1) /\ ~ Awaiting(a)
      /\ MyX(a)' = i /\ prog' = prog /\ send_buf' = send_buf /\ MyX(r)' = x
  BY Posted
<1>2. \A d \in Comms :
        /\ recvs[a][r][d] = <<>> /\ sends'[r][a][d] = sends[r][a][d]
        /\ recvs'[a][r][d] = IF d = Comm(prog[i]) THEN From(a, r) ELSE <<>>
  BY Posted
<1>3. nranks \in Nat \ {0} /\ UNCHANGED env /\ (From(r, a) = <<>> <=> From(a, r) = <<>>)
  BY Sizes, Facing, Launching DEF Typed
<1>4. From(a, r) # <<>> => x >= y /\ Adjacent(x, y)
  BY <1>3, Posted DEF NetInv, Near
<1>5. /\ x \in Nat /\ y \in Nat /\ (x > 0 => x \in 1 .. Len(prog) /\ Exchange(x)) /\ x <= Len(prog)
      /\ i \in Nat /\ i <= Len(prog) /\ prog \in Seq(Ops) /\ \A k \in 1 .. Len(prog) : prog'[k] = prog[k]
  <2>1. prog \in Seq(Ops) /\ Len(prog) \in Nat
    BY DEF Typed, Placed
  <2>2. x \in Nat /\ y \in Nat /\ (x > 0 => x \in 1 .. Len(prog) /\ Exchange(x))
    BY MyXs
  <2> QED BY <1>1, <2>1, <2>2
<1>6. From(a, r)' = From(a, r)
  BY <1>3 DEF env, rank_neigh, From, Halves, InOrder
<1>7. \A d \in Comms : Line(r, a, d, sends[r][a][d], recvs[a][r][d], x, y)
  BY DEF NetInv, Channel
<1>8. \A d \in Comms : sends[r][a][d] \in Seq(Parcels) /\ recvs[a][r][d] \in Seq(Halves)
  BY DEF Typed, Filled
<1>9. CASE From(a, r) = <<>>
  <2>1. ASSUME NEW d \in Comms PROVE sends[r][a][d] = <<>>
    BY <1>3, <1>5, <1>7, <1>8, <1>9, <2>1, LineSilent
  <2>2. \A d \in Comms : sends'[r][a][d] = <<>> /\ recvs'[a][r][d] = <<>>
    <3> TAKE d \in Comms
    <3>1. sends'[r][a][d] = <<>>
      BY <1>2, <2>1
    <3>2. recvs'[a][r][d] = <<>>
      BY <1>2, <1>9
    <3> QED BY <3>1, <3>2
  <2>3. ASSUME NEW d \in Comms PROVE Channel(r, a, d)'
    <3>1. <<>> \in Seq(Parcels) /\ <<>> \in Seq(Halves)
      OBVIOUS
    <3>2. Line(r, a, d, <<>>, <<>>, x, i)
      BY <1>3, <1>5, <1>9, <3>1, LineSilent
    <3> QED BY <1>1, <1>3, <1>5, <2>2, <3>1, <3>2, ChannelTold
  <2> QED BY <1>6, <1>9, <2>3 DEF Near
<1>10. CASE From(a, r) # <<>>
  <2>1. ASSUME NEW d \in Comms
        PROVE  Line(r, a, d, sends[r][a][d], recvs'[a][r][d], x, i) /\ Adjacent(x, i)
    <3>1. recvs[a][r][d] = <<>> /\ recvs'[a][r][d] = IF d = Comm(prog[i]) THEN From(a, r) ELSE <<>>
      BY <1>2
    <3>2. Line(r, a, d, sends[r][a][d], recvs[a][r][d], x, y)
      BY <1>7
    <3>3. /\ i \in 1 .. Len(prog) /\ Exchange(i) /\ y = LastX(i - 1)
          /\ x > 0 => x \in 1 .. Len(prog) /\ Exchange(x)
          /\ Adjacent(x, y) /\ x >= y /\ x \in Nat /\ y \in Nat
      BY <1>1, <1>4, <1>5, <1>10
    <3> QED BY <3>1, <3>2, <3>3, LineAsked
  <2>2. ASSUME NEW d \in Comms PROVE Channel(r, a, d)'
    <3> PICK q, p1 : q = sends[r][a][d] /\ p1 = recvs'[a][r][d]
      OBVIOUS
    <3>1. p1 \in Seq(Halves)
      <4>1. From(a, r) \in Seq(Halves) /\ <<>> \in Seq(Halves)
        BY Messaging
      <4> QED BY <1>2, <4>1
    <3>2. Line(r, a, d, q, p1, x, i) /\ q \in Seq(Parcels) /\ sends'[r][a][d] = q
      BY <1>2, <1>8, <2>1
    <3> QED BY <1>1, <1>3, <1>5, <3>1, <3>2, ChannelTold
  <2>3. Near(r, a)'
    <3>1. Adjacent(x, i)
      <4>1. "lx" \in Comms
        BY DEF Comms
      <4> QED BY <2>1, <4>1
    <3>2. Adjacent(x, i)'
      BY <1>5, <3>1, AdjacentTold
    <3>3. Adjacent(MyX(r), MyX(a))' <=> Adjacent(x, i)'
      BY <1>1 DEF Adjacent
    <3> QED BY <3>2, <3>3 DEF Near
  <2> QED BY <2>2, <2>3
<1> QED BY <1>9, <1>10

\* He has what he sends in send_buf.
LEMMA PostedSelf ==
  ASSUME Typed, ProgInv, nparal_dir > 0, PhaseCheck, NetInv, [Next]_vars, NEW a \in Ranks, Post(a, 0)
  PROVE  Held(a)' /\ Settled(a)' /\ Received(a)'
<1> PICK i : i = ip[a][0]
  OBVIOUS
<1>1. /\ i \in 1 .. Len(prog) /\ ~ Awaiting(a) /\ MyX(a)' = i /\ Awaiting(a)'
      /\ prog' = prog /\ send_buf' = send_buf /\ \A h \in Halves : send_buf[a][h] = Good(a, h, i)
  BY Posted
<1>2. \A s \in Ranks, d \in Comms :
        /\ recvs'[a][s][d] = IF d = Comm(prog[i]) THEN From(a, s) ELSE <<>>
        /\ sends'[a][s][d] = IF d = Comm(prog[i]) THEN sends[a][s][d] \o Messages(a, s) ELSE sends[a][s][d]
  BY Posted
<1>3. /\ nranks \in Nat \ {0} /\ UNCHANGED env /\ prog \in Seq(Ops) /\ Ranks' = Ranks /\ Comms' = Comms
      /\ Halves' = Halves /\ \A k \in 1 .. Len(prog) : prog'[k] = prog[k]
  BY <1>1, Sizes, Launching DEF Typed, Placed, env, Ranks, Comms, Halves
<1>4. Held(a)'
  <2>1. ASSUME NEW h \in Halves PROVE send_buf'[a][h] = Good(a, h, MyX(a))'
    <3>1. Good(a, h, i)' = Good(a, h, i)
      BY <1>1, <1>3, GoodTold
    <3>2. Good(a, h, MyX(a))' = Good(a, h, i)'
      BY <1>1 DEF Good
    <3> QED BY <1>1, <2>1, <3>1, <3>2
  <2> QED BY <1>3, <2>1 DEF Held
<1>5. Settled(a)'
  <2>1. ASSUME NEW s \in Ranks, NEW d \in Comms, d # Comm(prog[MyX(a)])'
        PROVE  \A k \in 1 .. Len(sends'[a][s][d]) : sends'[a][s][d][k].taken
    <3>1. d # Comm(prog[i])
      BY <1>1, <2>1 DEF Comm
    <3>2. sends'[a][s][d] = sends[a][s][d]
      BY <1>2, <2>1, <3>1
    <3>3. \A k \in 1 .. Len(sends[a][s][d]) : sends[a][s][d][k].taken
      BY <1>1, <2>1 DEF NetInv, Settled
    <3> QED BY <3>2, <3>3
  <2> QED BY <1>1, <1>3, <2>1 DEF Settled
<1>6. Received(a)'
  <2> SUFFICES ASSUME NEW h \in Halves
               PROVE  \E k \in 1 .. Len(recvs'[a][rank_neigh(a, h)'][Comm(prog[MyX(a)])']) :
                        recvs'[a][rank_neigh(a, h)'][Comm(prog[MyX(a)])'][k] = h
    BY <1>3 DEF Received
  <2>1. PICK s \in Ranks, c \in Comms : s = rank_neigh(a, h) /\ c = Comm(prog[i])
    <3>1. rank_neigh(a, h) \in Ranks
      BY <1>3, Grid
    <3>2. Comm(prog[i]) \in Comms
      BY DEF Comm, Comms
    <3> QED BY <3>1, <3>2
  <2>2. rank_neigh(a, h)' = s /\ Comm(prog[MyX(a)])' = c
    <3>1. rank_neigh(a, h)' = s
      BY <1>3, <2>1 DEF rank_neigh, env
    <3> QED BY <1>1, <2>1, <3>1 DEF Comm
  <2>3. recvs'[a][s][c] = From(a, s)
    BY <1>2, <2>1
  <2>4. \E k \in 1 .. Len(From(a, s)) : From(a, s)[k] = h
    <3>1. nranks \in Nat \ {0} /\ s \in Ranks /\ rank_neigh(a, h) = s
      BY <1>3, <2>1
    <3> QED BY <3>1, Facing
  <2> QED BY <2>2, <2>3, <2>4
<1> QED BY <1>4, <1>5, <1>6

\* Posting the messages of an exchange keeps the invariant of the messages.
LEMMA PostedNet ==
  ASSUME Typed, ProgInv, nparal_dir > 0, PhaseCheck, NetInv, [Next]_vars, NEW a \in Ranks, Post(a, 0)
  PROVE  \A r \in Ranks : NetOf(r)'
<1>1. /\ UNCHANGED env /\ Ranks' = Ranks /\ Comms' = Comms /\ prog \in Seq(Ops) /\ Len(prog) \in Nat
      /\ \A k \in 1 .. Len(prog) : prog'[k] = prog[k]
  BY Grows, Launching DEF Ranks, env, Comms
<1>2. /\ send_buf' = send_buf /\ recv_buf' = recv_buf
      /\ \A s \in Ranks \ {a} : MyX(s)' = MyX(s) /\ (Awaiting(s)' <=> Awaiting(s))
      /\ \A r \in Ranks \ {a}, s \in Ranks, d \in Comms :
           sends'[r][s][d] = sends[r][s][d] /\ recvs'[r][s][d] = recvs[r][s][d]
  BY Posted
<1> SUFFICES ASSUME NEW r \in Ranks PROVE NetOf(r)'
  OBVIOUS
<1>3. CASE r = a
  <2>1. Held(a)' /\ Settled(a)' /\ Received(a)'
    BY PostedSelf
  <2>2. \A s \in Ranks : Near(a, s)' /\ \A d \in Comms : Channel(a, s, d)'
    BY PostedTo
  <2> QED BY <1>1, <1>3, <2>1, <2>2 DEF NetOf
<1>4. CASE r # a
  <2>1. MyX(r)' = MyX(r) /\ (Awaiting(r)' <=> Awaiting(r))
    BY <1>2, <1>4
  <2>2. \A s \in Ranks, d \in Comms : sends'[r][s][d] = sends[r][s][d] /\ recvs'[r][s][d] = recvs[r][s][d]
    BY <1>2, <1>4
  <2>3. Held(r)'
    BY <2>1, HeldKept DEF NetInv
  <2>4. Settled(r)'
    <3>1. Settled(r)
      BY DEF NetInv
    <3> QED BY <1>1, <2>1, <2>2, <3>1, SettledKept
  <2>5. Received(r)'
    <3>1. Received(r)
      BY DEF NetInv
    <3> QED BY <1>1, <1>2, <2>1, <2>2, <3>1, ReceivedKept
  <2>6. ASSUME NEW s \in Ranks PROVE Near(r, s)' /\ \A d \in Comms : Channel(r, s, d)'
    <3>1. CASE s = a
      BY <1>4, <3>1, PostedFrom
    <3>2. CASE s # a
      <4> PICK x, y : x = MyX(r) /\ y = MyX(s)
        OBVIOUS
      <4>1. /\ x \in Nat /\ x <= Len(prog) /\ y \in Nat /\ y <= Len(prog)
            /\ MyX(r)' = x /\ MyX(s)' = y
        <5>1. /\ x \in Nat /\ (x > 0 => x \in 1 .. Len(prog))
              /\ y \in Nat /\ (y > 0 => y \in 1 .. Len(prog))
          BY <2>6, MyXs
        <5> QED BY <1>1, <1>2, <2>1, <2>6, <3>2, <5>1
      <4>2. Near(r, s)'
        <5>1. From(s, r)' = From(s, r)
          BY <1>1 DEF env, rank_neigh, From, Halves, InOrder
        <5>2. From(s, r) # <<>> => Adjacent(x, y)
          BY <2>6 DEF NetInv, Near
        <5>3. From(s, r) # <<>> => Adjacent(x, y)'
          BY <1>1, <4>1, <5>2, AdjacentTold
        <5> QED BY <4>1, <5>1, <5>3 DEF Near, Adjacent
      <4>3. ASSUME NEW d \in Comms PROVE Channel(r, s, d)'
        <5>1. PICK q, p : q = sends[r][s][d] /\ p = recvs[s][r][d]
          OBVIOUS
        <5>2. q \in Seq(Parcels) /\ p \in Seq(Halves)
          BY <2>6, <4>3, <5>1 DEF Typed, Filled
        <5>3. Line(r, s, d, q, p, x, y)
          BY <2>6, <4>3, <5>1 DEF NetInv, Channel
        <5>4. sends'[r][s][d] = q /\ recvs'[s][r][d] = p
          BY <1>2, <1>4, <2>6, <3>2, <4>3, <5>1
        <5> QED BY <1>1, <1>2, <2>6, <4>1, <4>3, <5>2, <5>3, <5>4, ChannelTold
      <4> QED BY <4>2, <4>3
    <3> QED BY <3>1, <3>2
  <2> QED BY <1>1, <2>3, <2>4, <2>5, <2>6 DEF NetOf
<1> QED BY <1>3, <1>4

\* A message arrives.
LEMMA Delivered ==
  ASSUME Typed, NEW a \in Ranks, NEW b \in Ranks, NEW c \in Comms, Deliver(a, b, c), NetInv,
         NEW r \in Ranks, NEW s \in Ranks, NEW d \in Comms
  PROVE  /\ Line(r, s, d, sends'[r][s][d], recvs'[s][r][d], MyX(r), MyX(s))
         /\ sends'[r][s][d] \in Seq(Parcels) /\ recvs'[s][r][d] \in Seq(Halves)
         /\ recvs[s][r][d] = <<>> => recvs'[s][r][d] = <<>>
         /\ (\A k \in 1 .. Len(sends[r][s][d]) : sends[r][s][d][k].taken) =>
              \A k \in 1 .. Len(sends'[r][s][d]) : sends'[r][s][d][k].taken
<1>1. Line(r, s, d, sends[r][s][d], recvs[s][r][d], MyX(r), MyX(s))
  BY DEF NetInv, Channel
<1>2. sends[r][s][d] \in Seq(Parcels) /\ recvs[s][r][d] \in Seq(Halves)
  BY DEF Typed, Filled
<1>3. CASE r = a /\ s = b /\ d = c
  <2> PICK q, p, x, y : q = sends[a][b][c] /\ p = recvs[b][a][c] /\ x = MyX(a) /\ y = MyX(b)
    OBVIOUS
  <2>1. /\ Len(q) > 0 /\ Len(p) > 0 /\ sends'[a][b][c] = Tail(q) /\ recvs'[b][a][c] = Tail(p)
        /\ q \in Seq(Parcels) /\ p \in Seq(Halves)
    BY DeliverNet
  <2>2. x \in Nat /\ y \in Nat /\ From(b, a) \in Seq(Halves)
    BY MyXs, Messaging
  <2>3. Line(a, b, c, Tail(q), Tail(p), x, y)
    BY <1>1, <1>3, <2>1, <2>2, LineTail
  <2>4. /\ Tail(q) \in Seq(Parcels) /\ Tail(p) \in Seq(Halves) /\ p # <<>>
        /\ Len(Tail(q)) = Len(q) - 1 /\ \A k \in 1 .. Len(q) - 1 : Tail(q)[k] = q[k + 1]
    BY <2>1
  <2>5. ASSUME \A k \in 1 .. Len(q) : q[k].taken, NEW k \in 1 .. Len(Tail(q)) PROVE Tail(q)[k].taken
    <3>1. k + 1 \in 1 .. Len(q) /\ Tail(q)[k] = q[k + 1]
      BY <2>1, <2>4, <2>5
    <3> QED BY <2>5, <3>1
  <2> QED BY <1>3, <2>1, <2>3, <2>4, <2>5
<1>4. CASE ~ (r = a /\ s = b /\ d = c)
  <2>1. sends'[r][s][d] = sends[r][s][d]
    BY <1>4, DeliverNet
  <2>2. recvs'[s][r][d] = recvs[s][r][d]
    BY <1>4, DeliverNet
  <2> QED BY <1>1, <1>2, <2>1, <2>2
<1> QED BY <1>3, <1>4

\* It is unpacked to the half of the border it is for.
LEMMA DeliveredTo ==
  ASSUME Typed, NEW a \in Ranks, NEW b \in Ranks, NEW c \in Comms, Deliver(a, b, c), NetInv,
         UNCHANGED env, \A r \in Ranks : MyX(r)' = MyX(r), NEW r \in Ranks
  PROVE  Received(r)'
<1>1. Received(r) /\ prog' = prog /\ prog \in Seq(Ops) /\ \A k \in 1 .. Len(prog) : prog'[k] = prog[k]
  BY DEF NetInv, Deliver, where, Typed, Placed
<1>2. CASE r # b
  <2>1. recv_buf'[r] = recv_buf[r]
    <3>1. recv_buf' = [recv_buf EXCEPT ![b][Head(recvs[b][a][c])] = Contents(a, Head(sends[a][b][c]))]
      BY DEF Deliver
    <3> QED BY <1>2, <3>1 DEF Typed, Filled
  <2>2. \A s \in Ranks, d \in Comms : recvs'[r][s][d] = recvs[r][s][d]
    BY <1>2, DeliverNet
  <2> QED BY <1>1, <2>1, <2>2, ReceivedKept
<1>3. CASE r = b
  <2>0. recv_buf'[b][recvs[b][a][c][1]] = Contents(a, sends[a][b][c][1])
    BY Brought
  <2>8. /\ sends[a][b][c] \in Seq(Parcels) /\ recvs[b][a][c] \in Seq(Halves)
         /\ Len(sends[a][b][c]) > 0 /\ Len(recvs[b][a][c]) > 0
    BY DeliverNet
  <2>10. \A h \in Halves : h # recvs[b][a][c][1] => recv_buf'[b][h] = recv_buf[b][h]
    BY Brought
  <2>9. recvs'[b][a][c] = Tail(recvs[b][a][c]) /\ recvs[b][a][c][1] \in Halves
    BY DeliverNet
  <2> PICK q, p, y : q = sends[a][b][c] /\ p = recvs[b][a][c] /\ y = MyX(b)
    OBVIOUS
  <2>1. /\ q \in Seq(Parcels) /\ p \in Seq(Halves) /\ Len(q) > 0 /\ Len(p) > 0 /\ recvs'[b][a][c] = Tail(p)
        /\ p[1] \in Halves /\ recv_buf'[b][p[1]] = Contents(a, q[1])
        /\ \A h \in Halves : h # p[1] => recv_buf'[b][h] = recv_buf[b][h]
        /\ \A s \in Ranks, d \in Comms : s # a \/ d # c => recvs'[b][s][d] = recvs[b][s][d]
    <3>1. /\ q \in Seq(Parcels) /\ p \in Seq(Halves) /\ Len(q) > 0 /\ Len(p) > 0 /\ recvs'[b][a][c] = Tail(p)
          /\ p[1] \in Halves /\ recv_buf'[b][p[1]] = Contents(a, q[1])
      <4>1. q \in Seq(Parcels) /\ p \in Seq(Halves) /\ Len(q) > 0 /\ Len(p) > 0
        BY <2>8
      <4>2. recvs'[b][a][c] = Tail(p) /\ p[1] \in Halves
        BY <2>9
      <4>3. recv_buf'[b][p[1]] = Contents(a, q[1])
        BY <2>0
      <4> QED BY <4>1, <4>2, <4>3
    <3>2. \A h \in Halves : h # p[1] => recv_buf'[b][h] = recv_buf[b][h]
      BY <2>10
    <3>3. \A s \in Ranks, d \in Comms : s # a \/ d # c => recvs'[b][s][d] = recvs[b][s][d]
      BY DeliverNet
    <3> QED BY <3>1, <3>2, <3>3
  <2>2. Carries(a, q[1], p[1], y) /\ c = Comm(prog[y]) /\ y > 0 /\ rank_neigh(b, p[1]) = a
    <3>1. PICK x \in Nat : x = MyX(a)
      BY MyXs
    <3>2. Line(a, b, c, q, p, x, y)
      BY <3>1 DEF NetInv, Channel
    <3>3. From(b, a) \in Seq(Halves) /\ y \in Nat
      BY MyXs, Messaging
    <3>4. x \in Nat /\ q \in Seq(Parcels) /\ p \in Seq(Halves) /\ Len(q) > 0 /\ Len(p) > 0
      BY <2>1, <3>1
    <3>5. Carries(a, q[1], p[1], y)
      BY <3>2, <3>3, <3>4, LineTail
    <3>6. c = Comm(prog[y]) /\ y > 0
      <4>1. p # <<>>
        BY <3>4
      <4> QED BY <3>2, <4>1 DEF Line
    <3>7. rank_neigh(b, p[1]) = a
      BY <3>2, <3>3, <3>4, LineTail
    <3> QED BY <3>5, <3>6, <3>7
  <2>3. y \in 1 .. Len(prog) /\ MyX(b)' = y
    BY <2>2, MyXs
  <2> SUFFICES ASSUME NEW h \in Halves
               PROVE  \/ recv_buf'[b][h] = Good(rank_neigh(b, h), 1 - h, y)'
                      \/ \E k \in 1 .. Len(recvs'[b][rank_neigh(b, h)'][c]) :
                           recvs'[b][rank_neigh(b, h)'][c][k] = h
    <3>1. \A h \in Halves : Good(rank_neigh(b, h), 1 - h, MyX(b))' = Good(rank_neigh(b, h), 1 - h, y)'
      BY <2>3 DEF Good
    <3>2. Comm(prog[MyX(b)])' = c
      BY <1>1, <2>2, <2>3 DEF Comm
    <3>3. Halves' = Halves
      BY DEF Halves
    <3> QED BY <1>3, <2>3, <3>1, <3>2, <3>3 DEF Received
  <2>4. PICK s \in Ranks : s = rank_neigh(b, h) /\ rank_neigh(b, h)' = s
    <3>1. rank_neigh(b, h) \in Ranks
      BY Grid, Sizes DEF Typed
    <3>2. rank_neigh(b, h)' = rank_neigh(b, h)
      BY DEF rank_neigh, env
    <3> QED BY <3>1, <3>2
  <2>5. Good(rank_neigh(b, h), 1 - h, y)' = Good(s, 1 - h, y)
    <3>1. Good(s, 1 - h, y)' = Good(s, 1 - h, y)
      BY <1>1, <2>3, GoodTold
    <3>2. Good(rank_neigh(b, h), 1 - h, y)' = Good(s, 1 - h, y)'
      BY <2>4 DEF Good
    <3> QED BY <3>1, <3>2
  <2>6. CASE h = p[1]
    <3>1. s = a
      BY <2>2, <2>4, <2>6
    <3>2. recv_buf'[b][h] = Contents(a, q[1]) /\ Contents(a, q[1]) = Good(a, 1 - h, y)
      BY <2>1, <2>2, <2>6 DEF Carries
    <3> QED BY <2>5, <3>1, <3>2
  <2>7. CASE h # p[1]
    <3>1. recv_buf'[b][h] = recv_buf[b][h]
      BY <2>1, <2>7
    <3>2. recv_buf[b][h] = Good(s, 1 - h, y) \/ \E k \in 1 .. Len(recvs[b][s][c]) : recvs[b][s][c][k] = h
      BY <1>1, <1>3, <2>2, <2>4 DEF Received
    <3>3. ASSUME NEW k \in 1 .. Len(recvs[b][s][c]), recvs[b][s][c][k] = h
          PROVE  \E n \in 1 .. Len(recvs'[b][s][c]) : recvs'[b][s][c][n] = h
      <4>1. CASE s # a
        <5>1. recvs'[b][s][c] = recvs[b][s][c]
          BY <2>1, <4>1
        <5> QED BY <3>3, <5>1
      <4>2. CASE s = a
        <5>1. k \in 1 .. Len(p) /\ p[k] = h /\ k # 1
          BY <2>7, <3>3, <4>2
        <5>2. Len(Tail(p)) = Len(p) - 1 /\ \A n \in 1 .. Len(p) - 1 : Tail(p)[n] = p[n + 1]
          BY <2>1
        <5>3. PICK n : n = k - 1 /\ n \in 1 .. Len(p) - 1 /\ n + 1 = k
          BY <2>1, <5>1
        <5>4. n \in 1 .. Len(Tail(p)) /\ Tail(p)[n] = h
          BY <5>1, <5>2, <5>3
        <5> QED BY <2>1, <4>2, <5>4
      <4> QED BY <4>1, <4>2
    <3> QED BY <2>4, <2>5, <3>1, <3>2, <3>3
  <2> QED BY <2>6, <2>7
<1> QED BY <1>2, <1>3

\* So does the delivery of a message.
LEMMA DeliveredNet ==
  ASSUME Typed, ProgInv, nparal_dir > 0, PhaseCheck, NetInv, [Next]_vars,
         NEW a \in Ranks, NEW b \in Ranks, NEW c \in Comms, Deliver(a, b, c)
  PROVE  \A r \in Ranks : NetOf(r)'
<1>1. /\ UNCHANGED env /\ Ranks' = Ranks /\ Comms' = Comms /\ prog \in Seq(Ops) /\ Len(prog) \in Nat
      /\ \A k \in 1 .. Len(prog) : prog'[k] = prog[k]
  BY Grows, Launching DEF Ranks, env, Comms
<1>2. \A r \in Ranks : MyX(r)' = MyX(r) /\ (Awaiting(r)' <=> Awaiting(r))
  <2>1. pc' = pc /\ ip' = ip
    BY DEF Deliver, where
  <2>2. ASSUME NEW r \in Ranks PROVE ~ Post(r, 0) /\ ~ Wait(r, 0)
    <3>1. ASSUME Post(r, 0) \/ Wait(r, 0) PROVE FALSE
      <4>1. 0 \in Threads /\ Advance(r, 0) /\ ~ Call(r, 0) /\ (pc[r][0] = "post" \/ pc[r][0] = "wait")
        BY <3>1, Sizes DEF Typed, Advance, Post, Wait, Call
      <4>2. pc[r][0] = "post" => pc'[r][0] \in {"next", "finish"}
        BY <2>2, <4>1, Moves
      <4>3. pc[r][0] = "wait" => pc'[r][0] = "waited"
        BY <2>2, <4>1, Moves
      <4> QED BY <2>1, <4>1, <4>2, <4>3
    <3> QED BY <3>1
  <2> QED BY <2>2, MastersKeep
<1>3. send_buf' = send_buf
  BY DEF Deliver
<1> SUFFICES ASSUME NEW r \in Ranks PROVE NetOf(r)'
  OBVIOUS
<1>4. Held(r)'
  BY <1>2, HeldKept DEF NetInv
<1>5. Settled(r)'
  <2>1. Settled(r)
    BY DEF NetInv
  <2>2. \A s \in Ranks, d \in Comms :
          /\ recvs[r][s][d] = <<>> => recvs'[r][s][d] = <<>>
          /\ (\A k \in 1 .. Len(sends[r][s][d]) : sends[r][s][d][k].taken) =>
               \A k \in 1 .. Len(sends'[r][s][d]) : sends'[r][s][d][k].taken
    <3> TAKE s \in Ranks, d \in Comms
    <3>1. recvs[r][s][d] = <<>> => recvs'[r][s][d] = <<>>
      BY Delivered
    <3>2. (\A k \in 1 .. Len(sends[r][s][d]) : sends[r][s][d][k].taken) =>
            \A k \in 1 .. Len(sends'[r][s][d]) : sends'[r][s][d][k].taken
      BY Delivered
    <3> QED BY <3>1, <3>2
  <2> QED BY <1>1, <1>2, <2>1, <2>2, SettledKept
<1>6. Received(r)'
  BY <1>1, <1>2, DeliveredTo
<1>7. ASSUME NEW s \in Ranks PROVE Near(r, s)' /\ \A d \in Comms : Channel(r, s, d)'
  <2> PICK x, y : x = MyX(r) /\ y = MyX(s)
    OBVIOUS
  <2>1. /\ x \in Nat /\ x <= Len(prog) /\ y \in Nat /\ y <= Len(prog)
        /\ MyX(r)' = x /\ MyX(s)' = y
    <3>1. /\ x \in Nat /\ (x > 0 => x \in 1 .. Len(prog))
          /\ y \in Nat /\ (y > 0 => y \in 1 .. Len(prog))
      BY <1>7, MyXs
    <3> QED BY <1>1, <1>2, <1>7, <3>1
  <2>2. Near(r, s)'
    <3>1. From(s, r)' = From(s, r)
      BY <1>1 DEF env, rank_neigh, From, Halves, InOrder
    <3>2. From(s, r) # <<>> => Adjacent(x, y)
      BY <1>7 DEF NetInv, Near
    <3>3. From(s, r) # <<>> => Adjacent(x, y)'
      BY <1>1, <2>1, <3>2, AdjacentTold
    <3> QED BY <2>1, <3>1, <3>3 DEF Near, Adjacent
  <2>3. ASSUME NEW d \in Comms PROVE Channel(r, s, d)'
    <3> PICK q, p : q = sends'[r][s][d] /\ p = recvs'[s][r][d]
      OBVIOUS
    <3>1. Line(r, s, d, q, p, x, y) /\ q \in Seq(Parcels) /\ p \in Seq(Halves)
      BY <1>7, <2>3, Delivered
    <3> QED BY <1>1, <1>3, <1>7, <2>1, <2>3, <3>1, ChannelTold
  <2> QED BY <2>2, <2>3
<1> QED BY <1>1, <1>4, <1>5, <1>6, <1>7 DEF NetOf

\* The invariant of the messages is kept by every step.
LEMMA NetStep ==
  Typed /\ ProgInv /\ nparal_dir > 0 /\ PhaseCheck /\ SurfInv /\ NetInv /\ [Next]_vars => NetInv'
<1> SUFFICES ASSUME Typed, ProgInv, nparal_dir > 0, PhaseCheck, SurfInv, NetInv, [Next]_vars
             PROVE  NetInv'
  OBVIOUS
<1>1. \A r \in Ranks : Ready(r)'
  BY ReadyStep DEF NetInv
<1>2. Ranks' = Ranks
  BY Launching DEF env, Ranks
<1> SUFFICES \A r \in Ranks : NetOf(r)'
  BY <1>1, <1>2 DEF NetInv, NetOf
<1>3. ASSUME NEW a \in Ranks, Post(a, 0) PROVE \A r \in Ranks : NetOf(r)'
  BY <1>3, PostedNet
<1>4. ASSUME NEW a \in Ranks, Wait(a, 0) PROVE \A r \in Ranks : NetOf(r)'
  BY <1>4, WaitedNet
<1>5. ASSUME NEW a \in Ranks, NEW b \in Ranks, NEW c \in Comms, Deliver(a, b, c) PROVE \A r \in Ranks : NetOf(r)'
  BY <1>5, DeliveredNet
<1>6. ASSUME \A a \in Ranks : ~ Post(a, 0) /\ ~ Wait(a, 0), ~ Transport PROVE \A r \in Ranks : NetOf(r)'
  <2>1. ASSUME NEW a \in Ranks, NEW t \in Threads, Advance(a, t) PROVE UNCHANGED <<recvs, sends, recv_buf>>
    <3>1. CASE Post(a, t)
      <4>1. t # 0
        BY <1>6, <2>1, <3>1
      <4>2. sends' = sends /\ recvs' = recvs /\ recv_buf' = recv_buf
        BY <3>1, <4>1 DEF Post, bufs, net
      <4> QED BY <4>2
    <3>2. CASE Wait(a, t)
      <4>1. t # 0
        BY <1>6, <2>1, <3>2
      <4>2. sends' = sends /\ recvs' = recvs /\ recv_buf' = recv_buf
        BY <3>2, <4>1 DEF Wait, bufs
      <4> QED BY <4>2
    <3>3. CASE ~ Post(a, t) /\ ~ Wait(a, t)
      BY <2>1, <3>3, Touches
    <3> QED BY <3>1, <3>2, <3>3
  <2>2. ASSUME NEW a \in Ranks, Barrier(a) PROVE UNCHANGED <<recvs, sends, recv_buf>>
    BY <2>2 DEF Barrier, bufs, net
  <2>3. UNCHANGED vars => UNCHANGED <<recvs, sends, recv_buf>>
    BY DEF vars, bufs, net
  <2>4. UNCHANGED <<recvs, sends, recv_buf>>
    BY <1>6, <2>1, <2>2, <2>3 DEF Next, Progress, Terminated
  <2> QED BY <1>6, <2>4, QuietNet
<1> QED BY <1>3, <1>4, <1>5, <1>6 DEF Transport
-----------------------------------------------------------------------------
\* All of this holds at the beginning, ...
LEMMA InitTyped == Init => Typed /\ ProgInv
<1> SUFFICES ASSUME Init PROVE Typed /\ ProgInv
  OBVIOUS
<1>1. Launched /\ nranks \in Nat \ {0} /\ nthreads \in Nat \ {0} /\ nops \in Nat
  <2>1. PICK l \in Layouts : nranks = l.nranks /\ nthreads = l.nthreads /\ buffering = l.buffering /\ nops = l.nops
    BY DEF Init
  <2>2. l \in [nranks : Nat \ {0}, nthreads : Nat \ {0}, buffering : BOOLEAN, nops : Nat]
    BY BordersAssumption
  <2>3. l = [nranks |-> nranks, nthreads |-> nthreads, buffering |-> buffering, nops |-> nops]
    BY <2>1, <2>2
  <2> QED BY <2>1, <2>2, <2>3 DEF Launched
<1>2. prog = <<>> /\ prog \in Seq(Ops) /\ Len(prog) = 0
  BY DEF Init
<1>3. Placed
  <2>1. /\ ip = [r \in Ranks |-> [t \in Threads |-> 0]] /\ pc = [r \in Ranks |-> [t \in Threads |-> "next"]]
        /\ at = [r \in Ranks |-> [t \in Threads |-> 1]]
    BY DEF Init
  <2>2. "next" \in PCs /\ "next" \in Ended /\ 0 \in 0 .. nops
    BY <1>1 DEF PCs, Ended
  <2> QED BY <1>1, <1>2, <2>1, <2>2 DEF Placed
<1>4. NoPiece \in Pieces
  <2>1. [v \in {} |-> 0] \in UNION {[S -> Nat] : S \in SUBSET Vects}
    <3>1. {} \in SUBSET Vects /\ [v \in {} |-> 0] \in [{} -> Nat]
      OBVIOUS
    <3> QED BY <3>1
  <2> QED BY <2>1 DEF NoPiece, Pieces, Halves
<1>5. Filled
  <2>1. /\ surf = [r \in Ranks |-> [v \in Vects |-> [h \in Halves |-> 0]]]
        /\ halo = [r \in Ranks |-> [v \in Vects |-> [h \in Halves |-> NoPiece]]]
        /\ valid = [r \in Ranks |-> [v \in Vects |-> FALSE]]
        /\ send_buf = [r \in Ranks |-> [h \in Halves |-> NoPiece]]
        /\ recv_buf = [r \in Ranks |-> [h \in Halves |-> NoPiece]]
        /\ comm_in_prog = [r \in Ranks |-> [c \in Comms |-> FALSE]]
        /\ sends = [r \in Ranks |-> [s \in Ranks |-> [c \in Comms |-> <<>>]]]
        /\ recvs = [r \in Ranks |-> [s \in Ranks |-> [c \in Comms |-> <<>>]]]
    BY DEF Init
  <2>2. <<>> \in Seq(Parcels) /\ <<>> \in Seq(Halves)
    OBVIOUS
  <2> QED BY <1>4, <2>1, <2>2 DEF Filled
<1>6. ProgInv
  BY <1>2 DEF ProgInv
<1> QED BY <1>1, <1>3, <1>5, <1>6 DEF Typed

\* At the start nothing is valid, talked about or exchanged.
LEMMA InitNothing ==
  ASSUME Init, NEW r \in Ranks
  PROVE  /\ \A v : ~ ValidAt(v, 1) /\ Version(v, 1) = 0
         /\ Talking(1) = {} /\ LastX(0) = 0 /\ 0 \in Threads
         /\ \A t \in Threads : ip[r][t] = 0 /\ pc[r][t] = "next"
         /\ MyX(r) = 0 /\ ~ Awaiting(r)
<1>1. \A i : i \notin 1 .. 1 - 1 /\ i \notin 1 .. 0
  OBVIOUS
<1>2. \A v : ~ ValidAt(v, 1) /\ Version(v, 1) = 0
  BY <1>1 DEF ValidAt, Version
<1>3. Talking(1) = {} /\ LastX(0) = 0
  BY <1>1 DEF Talking, LastX
<1>4. \A t \in Threads : ip[r][t] = 0 /\ pc[r][t] = "next"
  BY DEF Init
<1>5. 0 \in Threads
  BY InitTyped, Sizes DEF Typed
<1>6. MyX(r) = 0
  BY <1>3, <1>4, <1>5 DEF MyX, XAt, Ahead
<1>7. ~ Awaiting(r)
  <2>1. Talking(0 + 1) = {}
    BY <1>3
  <2> QED BY <1>4, <1>5, <2>1 DEF Awaiting, AwaitAt, Ended
<1> QED BY <1>2, <1>3, <1>4, <1>5, <1>6, <1>7

\* All threads start between two operations, on surfaces nobody has computed.
LEMMA InitPhases == Init => PhaseCheck /\ SurfInv
<1> SUFFICES ASSUME Init, NEW r \in Ranks
             PROVE  PhaseOf(r) /\ \A v \in Vects, h \in Halves : surf[r][v][h] = Version(v, Done(r, h % nthreads))
  BY DEF PhaseCheck, SurfInv
<1>1. /\ Typed /\ \A v : ~ ValidAt(v, 1) /\ Version(v, 1) = 0
      /\ Talking(1) = {} /\ \A t \in Threads : ip[r][t] = 0 /\ pc[r][t] = "next"
  BY InitTyped, InitNothing
<1>2. /\ \A v \in Vects : ~ valid[r][v] /\ \A h \in Halves : surf[r][v][h] = 0
      /\ \A c \in Comms : ~ comm_in_prog[r][c]
  BY DEF Init
<1>3. \A t \in Threads : Cur(r, t) = 1 /\ Done(r, t) = 1
  BY <1>1 DEF Cur, Done, Ended
<1>4. \A t \in Threads : Passing(r, t, 0)
  <2> TAKE t \in Threads
  <2>1. ip[r][t] = 0 /\ pc[r][t] = "next" /\ pc[r][t] \in Ended
    BY <1>1 DEF Ended
  <2>2. FlagsAt(r, Cur(r, t), {})
    BY <1>1, <1>2, <1>3 DEF FlagsAt
  <2>3. Talking(Cur(r, t)) = Talking(0 + 1) /\ CommsOf(0 + 1) = {}
    BY <1>1, <1>3 DEF CommsOf
  <2>4. FlagOf(r, t, ip[r][t], 1)
    BY <2>1 DEF FlagOf
  <2> QED BY <2>1, <2>2, <2>3, <2>4 DEF Passing
<1>5. Between(r, 0)
  BY <1>2, <1>4 DEF Between, Marked
<1>6. PhaseOf(r)
  <2>1. Len(prog) \in Nat
    BY <1>1 DEF Typed, Placed
  <2>2. 0 \in 0 .. Len(prog)
    BY <2>1
  <2> QED BY <1>5, <2>2 DEF PhaseOf
<1>7. ASSUME NEW v \in Vects, NEW h \in Halves PROVE surf[r][v][h] = Version(v, Done(r, h % nthreads))
  <2>1. h % nthreads \in Threads
    BY <1>1, Sizes DEF Typed
  <2> QED BY <1>1, <1>2, <1>3, <2>1
<1> QED BY <1>6, <1>7

\* At the start there is no message, and no border is trusted.
LEMMA InitNet == Init => NetInv /\ HaloCheck
<1> SUFFICES ASSUME Init, NEW r \in Ranks
             PROVE  /\ Held(r) /\ Ready(r) /\ Settled(r) /\ Received(r) /\ HaloInv(r)
                    /\ \A s \in Ranks : Near(r, s) /\ \A c \in Comms : Channel(r, s, c)
  BY DEF NetInv, HaloCheck
<1>1. /\ \A q \in Ranks : MyX(q) = 0 /\ ~ Awaiting(q)
      /\ \A t \in Threads : ip[r][t] = 0 /\ pc[r][t] = "next"
  BY InitNothing
<1>2. \A q, s \in Ranks, c \in Comms : sends[q][s][c] = <<>> /\ recvs[q][s][c] = <<>>
  BY DEF Init
<1>3. Held(r) /\ Ready(r) /\ Received(r)
  BY <1>1 DEF Held, Ready, Received
<1>4. Settled(r)
  BY <1>2 DEF Settled
<1>5. HaloInv(r)
  <2>1. \A v \in Vects : ~ valid[r][v]
    BY DEF Init
  <2> QED BY <1>1, <2>1 DEF HaloInv, HaloOf, Trusted, Flagging
<1>6. \A s \in Ranks : Near(r, s)
  BY <1>1 DEF Near, Adjacent
<1>7. ASSUME NEW s \in Ranks, NEW c \in Comms PROVE Channel(r, s, c)
  <2>1. Line(r, s, c, <<>>, <<>>, 0, 0)
    <3>1. Len(<<>>) = 0 /\ \A k \in 1 .. 0 : FALSE
      OBVIOUS
    <3> QED BY <3>1 DEF Line
  <2> QED BY <1>1, <1>2, <1>7, <2>1 DEF Channel
<1> QED BY <1>3, <1>4, <1>5, <1>6, <1>7
\* ... and a rank that is alone never communicates.
Talks1 == {"fill", "filled", "post", "wait", "waited", "unpack"}
Alone ==
  /\ \A r \in Ranks, t \in Threads : pc[r][t] \notin Talks1
  /\ \A r, s \in Ranks, c \in Comms : sends[r][s][c] = <<>>

\* On one rank no thread goes where there is something to communicate, ...
LEMMA AloneGoes ==
  ASSUME Typed, nparal_dir = 0, Alone, NEW r \in Ranks, NEW t \in Threads, Advance(r, t), UNCHANGED env
  PROVE  \A q \in Ranks, u \in Threads : pc'[q][u] \notin Talks1
<1>1. pc[r][t] \notin Talks1
  BY DEF Alone
<1>2. ~ Fill(r, t) /\ ~ Post(r, t) /\ ~ Wait(r, t) /\ ~ Unpack(r, t)
  BY <1>1 DEF Fill, Post, Wait, Unpack, Talks1
<1>3. \E l \in PCs \ Talks1 : Goto(r, t, l)
  <2>1. CASE Call(r, t)
    <3>1. \A o \in Ops : Entry(o) \in {"write", "start", "finish"}
      <4> TAKE o \in Ops
      <4>1. o.kind \in {"read", "start", "finish", "update"}
        BY Operations
      <4> QED BY <4>1 DEF Entry
    <3>2. prog'[ip[r][t] + 1] \in Ops
      BY <2>1, CallEffects
    <3>3. Goto(r, t, Entry(prog'[ip[r][t] + 1]))
      BY <2>1 DEF Call
    <3>4. {"write", "start", "finish"} \subseteq PCs \ Talks1
      BY DEF PCs, Talks1
    <3> QED BY <3>1, <3>2, <3>3, <3>4
  <2>2. CASE Start(r, t)
    <3>1. Goto(r, t, "next") \/ Goto(r, t, "finish")
      BY <2>2 DEF Start
    <3> QED BY <3>1 DEF PCs, Talks1
  <2>3. CASE Finish(r, t)
    <3>1. Goto(r, t, "next") \/ Goto(r, t, "loop")
      BY <2>3 DEF Finish
    <3> QED BY <3>1 DEF PCs, Talks1
  <2>4. CASE Flag(r, t)
    <3>1. Goto(r, t, "flag1") \/ Goto(r, t, "flag2")
      BY <2>4 DEF Flag
    <3> QED BY <3>1 DEF PCs, Talks1, Waiting
  <2>5. CASE Exit(r, t) \/ Write(r, t) \/ SetFlag(r, t) \/ Loop(r, t)
    <3>1. Goto(r, t, "exit") \/ Goto(r, t, "flag") \/ Goto(r, t, "flag2") \/ Goto(r, t, "looped")
      BY <2>5 DEF Exit, Write, SetFlag, Loop
    <3> QED BY <3>1 DEF PCs, Talks1, Waiting
  <2> QED BY <1>2, <2>1, <2>2, <2>3, <2>4, <2>5 DEF Advance
<1>4. PICK l \in PCs \ Talks1 : Goto(r, t, l)
  BY <1>3
<1>5. pc'[r][t] = l /\ \A q \in Ranks, u \in Threads : q # r \/ u # t => pc'[q][u] = pc[q][u]
  BY <1>4, Going DEF Typed
<1> QED BY <1>4, <1>5 DEF Alone

\* ... so there is never a message.
LEMMA AloneStep == Typed /\ nparal_dir = 0 /\ Alone /\ [Next]_vars => Alone'
<1> SUFFICES ASSUME Typed, nparal_dir = 0, Alone, [Next]_vars PROVE Alone'
  OBVIOUS
<1>1. UNCHANGED env /\ Ranks' = Ranks /\ Threads' = Threads /\ Comms' = Comms
  BY Launching DEF env, Ranks, Threads, Comms
<1> SUFFICES /\ \A r \in Ranks, t \in Threads : pc'[r][t] \notin Talks1
             /\ \A r, s \in Ranks, c \in Comms : sends'[r][s][c] = <<>>
  BY <1>1 DEF Alone, Talks1
<1>2. ASSUME NEW r \in Ranks, NEW t \in Threads, Advance(r, t)
      PROVE  sends' = sends /\ \A q \in Ranks, u \in Threads : pc'[q][u] \notin Talks1
  <2>1. pc[r][t] \notin Talks1
    BY DEF Alone
  <2>2. ~ Post(r, t) /\ ~ Wait(r, t)
    BY <2>1 DEF Post, Wait, Talks1
  <2>3. sends' = sends
    BY <1>2, <2>2, Touches
  <2> QED BY <1>1, <1>2, <2>3, AloneGoes
<1>3. ASSUME NEW r \in Ranks, Barrier(r)
      PROVE  sends' = sends /\ \A q \in Ranks, u \in Threads : pc'[q][u] \notin Talks1
  <2>1. sends' = sends
    BY <1>3 DEF Barrier, net
  <2>2. ASSUME NEW u \in Threads PROVE pc'[r][u] \notin Talks1
    <3>1. pc[r][u] \in Waiting /\ pc[r][u] \notin Talks1
      BY <1>3 DEF Barrier, Alone
    <3>2. pc[r][u] \in {"flag1", "looped", "flag2"}
      BY <3>1 DEF Waiting, Talks1
    <3>3. pc[r][u] = "flag1" => pc'[r][u] = "setflag"
      BY <1>3, BarrierEffects
    <3>4. pc[r][u] = "looped" => pc'[r][u] = "next"
      BY <1>3, BarrierEffects
    <3>5. pc[r][u] = "flag2" => pc'[r][u] \in {"flag", "loop", "next"}
      BY <1>3, BarrierEffects
    <3> QED BY <3>2, <3>3, <3>4, <3>5 DEF Talks1
  <2>3. \A q \in Ranks \ {r} : pc'[q] = pc[q]
    BY <1>3, BarrierEffects
  <2> QED BY <2>1, <2>2, <2>3 DEF Alone
<1>4. ~ Transport
  BY DEF Transport, Deliver, Alone
<1>5. UNCHANGED vars => sends' = sends /\ pc' = pc
  BY DEF vars, net
<1>6. CASE UNCHANGED vars
  BY <1>5, <1>6 DEF Alone
<1>7. CASE Progress
  <2>1. PICK r \in Ranks : Barrier(r) \/ \E t \in Threads : Advance(r, t)
    BY <1>4, <1>7 DEF Progress
  <2>2. sends' = sends /\ \A q \in Ranks, u \in Threads : pc'[q][u] \notin Talks1
    BY <1>2, <1>3, <2>1
  <2> QED BY <2>2 DEF Alone
<1> QED BY <1>6, <1>7 DEF Next, Terminated
-----------------------------------------------------------------------------
\* What is true of the buffers and of the messages.
ExchangesInv ==
  /\ Typed /\ ProgInv
  /\ nparal_dir > 0 => PhaseCheck /\ SurfInv /\ NetInv
  /\ nparal_dir = 0 => Alone

\* The invariant of the exchanges holds at the start, ...
LEMMA InitExchanges == Init => ExchangesInv
<1> SUFFICES ASSUME Init PROVE ExchangesInv
  OBVIOUS
<1>1. Typed /\ ProgInv /\ PhaseCheck /\ SurfInv /\ NetInv
  BY InitTyped, InitPhases, InitNet
<1>2. Alone
  <2>1. pc = [r \in Ranks |-> [t \in Threads |-> "next"]]
    BY DEF Init
  <2>2. sends = [r \in Ranks |-> [s \in Ranks |-> [c \in Comms |-> <<>>]]]
    BY DEF Init
  <2> QED BY <2>1, <2>2 DEF Alone, Talks1
<1> QED BY <1>1, <1>2 DEF ExchangesInv

\* ... and every step keeps it.
LEMMA ExchangesStep == ExchangesInv /\ [Next]_vars => ExchangesInv'
<1> SUFFICES ASSUME ExchangesInv, [Next]_vars PROVE ExchangesInv'
  OBVIOUS
<1>1. Typed /\ ProgInv /\ Typed' /\ ProgInv'
  BY TypedStep, ProgStep DEF ExchangesInv
<1>2. nparal_dir' = nparal_dir
  BY Launching DEF env, nparal_dir
<1>3. CASE nparal_dir > 0
  <2>1. PhaseCheck /\ SurfInv /\ NetInv
    BY <1>3 DEF ExchangesInv
  <2>2. PhaseCheck' /\ SurfInv' /\ NetInv'
    BY <1>1, <1>3, <2>1, PhaseStep, SurfStep, NetStep
  <2>3. nparal_dir # 0
    BY <1>3
  <2> QED BY <1>1, <1>2, <2>2, <2>3 DEF ExchangesInv
<1>4. CASE nparal_dir = 0
  <2>1. Alone'
    BY <1>1, <1>4, AloneStep DEF ExchangesInv
  <2>2. ~ nparal_dir > 0
    BY <1>4
  <2> QED BY <1>1, <1>2, <2>1, <2>2 DEF ExchangesInv
<1> QED BY <1>3, <1>4 DEF nparal_dir

\* It has the types, and recv_buf complete whenever it is unpacked.
LEMMA Unpacked == ExchangesInv => TypeOK /\ UnpackComplete
<1> SUFFICES ASSUME ExchangesInv PROVE TypeOK /\ UnpackComplete
  OBVIOUS
<1>1. Typed /\ ProgInv /\ 0 \in Threads
  BY Sizes DEF ExchangesInv, Typed
<1>2. TypeOK
  <2>1. /\ [nranks |-> nranks, nthreads |-> nthreads, buffering |-> buffering, nops |-> nops] \in Layouts
        /\ prog \in Seq(Ops) /\ Len(prog) <= nops
        /\ ip \in [Ranks -> [Threads -> 0 .. nops]] /\ pc \in [Ranks -> [Threads -> PCs]]
    BY <1>1 DEF Typed, Launched, Placed
  <2>2. \A r \in Ranks, t \in Threads :
          pc[r][t] \notin {"next", "exit"} => at[r][t] \in DOMAIN op(r, t).vs
    BY <1>1 DEF Typed, Placed, Ended
  <2> QED BY <2>1, <2>2 DEF TypeOK
<1>3. ASSUME NEW r \in Ranks, NEW t \in Threads, pc[r][t] = "unpack", NEW s \in Ranks, NEW c \in Comms
      PROVE  recvs[r][s][c] = <<>>
  <2>1. nparal_dir > 0
    <3>1. nparal_dir # 0
      BY <1>3 DEF ExchangesInv, Alone, Talks1
    <3> QED BY <3>1 DEF nparal_dir
  <2>2. PhaseOf(r) /\ NetInv
    BY <2>1 DEF ExchangesInv, PhaseCheck
  <2>3. PICK n \in 0 .. Len(prog) : Unpacking(r, n)
    <3>1. PICK n \in 0 .. Len(prog) :
            \/ Between(r, n) \/ Posting(r, n) \/ Unpacking(r, n) \/ (\E a \in {1, 2} : Setting(r, n, a))
            \/ Second(r, n) \/ Using(r, n)
      BY <2>2 DEF PhaseOf
    <3>2. ~ Between(r, n)
      <4>1. pc[r][t] \notin Ended
        BY <1>3 DEF Ended
      <4> QED BY <1>1, <1>3, <4>1, PassingAt DEF Between
    <3>3. ~ Posting(r, n) /\ ~ Second(r, n) /\ ~ Using(r, n) /\ ~ \E a \in {1, 2} : Setting(r, n, a)
      BY <1>3 DEF Posting, Second, Using, Setting
    <3> QED BY <3>1, <3>2, <3>3
  <2>4. /\ n \in 1 .. Len(prog) /\ prog[n].kind # "update" /\ ip[r][0] = n
        /\ pc[r][0] \in {"unpack", "flag", "flag1", "flag2"} /\ prog \in Seq(Ops)
    BY <1>1, <2>3 DEF Unpacking, Fetching, Typed, Placed
  <2>5. pc[r][0] \notin Ended \cup {"finish", "wait"}
    BY <2>4 DEF Ended
  <2>6. ~ Awaiting(r)
    <3> PICK l : l = pc[r][0]
      OBVIOUS
    <3>1. ~ AwaitAt(l, n)
      BY <1>1, <2>4, <2>5, AwaitIs
    <3> QED BY <2>4, <3>1 DEF Awaiting
  <2> QED BY <1>3, <2>2, <2>6 DEF NetInv, Settled
<1> QED BY <1>2, <1>3 DEF UnpackComplete

\* The type invariant holds in every reachable state, whatever the grid, the
\* number of threads, and the program.
THEOREM TypeCorrect == Spec => []TypeOK
<1>1. ExchangesInv => TypeOK
  BY Unpacked
<1> QED BY <1>1, InitExchanges, ExchangesStep, PTL DEF Spec

\* borders.cpp: a border is unpacked only when all of it has arrived, and
\* send_buf keeps its contents until MPI has taken them, though vectors and
\* communicators share both buffers and nothing but the order of the calls, the
\* flags and the barriers keeps one communication from the next.
THEOREM BuffersHeldHolds == Spec => BuffersHeld
<1>1. ExchangesInv => TypeOK /\ UnpackComplete
  BY Unpacked
<1>2. ExchangesInv /\ [Next]_vars =>
        [\A r, s \in Ranks, c \in Comms : \A i \in DOMAIN sends[r][s][c] :
           ~ sends[r][s][c][i].taken =>
              send_buf'[r][sends[r][s][c][i].half] =
                send_buf[r][sends[r][s][c][i].half]]_vars
  <2> SUFFICES ASSUME ExchangesInv, [Next]_vars, NEW r \in Ranks, NEW s \in Ranks, NEW c \in Comms,
                      NEW i \in DOMAIN sends[r][s][c], ~ sends[r][s][c][i].taken
               PROVE  send_buf'[r][sends[r][s][c][i].half] = send_buf[r][sends[r][s][c][i].half]
    OBVIOUS
  <2>1. Typed /\ ProgInv /\ sends[r][s][c] \in Seq(Parcels)
    BY DEF ExchangesInv, Typed, Filled
  <2>2. i \in 1 .. Len(sends[r][s][c]) /\ sends[r][s][c][i] \in Parcels /\ sends[r][s][c] # <<>>
    BY <2>1
  <2>3. nparal_dir > 0
    <3>1. nparal_dir # 0
      BY <2>2 DEF ExchangesInv, Alone
    <3> QED BY <3>1 DEF nparal_dir
  <2>4. Awaiting(r)
    BY <2>2, <2>3 DEF ExchangesInv, NetInv, Settled
  <2>5. \A h \in Halves : send_buf'[r][h] = send_buf[r][h]
    BY <2>1, <2>3, <2>4, SendBufKept DEF ExchangesInv
  <2> QED BY <2>2, <2>5 DEF Parcels
<1> QED BY <1>1, <1>2, InitExchanges, ExchangesStep, PTL DEF Spec, BuffersHeld, SendBufHeld
-----------------------------------------------------------------------------
\* What an operation computes is there until the next one that computes it.
LEMMA SameVersion ==
  ASSUME NEW a \in Nat, NEW b \in Nat, a <= b, NEW v, \A k \in a .. b - 1 : prog[k] # UpdateOf(v)
  PROVE  Version(v, a) = Version(v, b)
<1>1. {j \in 1 .. a - 1 : prog[j] = UpdateOf(v)} = {j \in 1 .. b - 1 : prog[j] = UpdateOf(v)}
  <2>1. \A j \in 1 .. a - 1 : j \in 1 .. b - 1
    OBVIOUS
  <2>2. \A j \in 1 .. b - 1 : j \in 1 .. a - 1 \/ j \in a .. b - 1
    OBVIOUS
  <2> QED BY <2>1, <2>2
<1> QED BY <1>1 DEF Version, UpdateOf

\* The operation a thread is at, or the next if it is between two.
LEMMA CurIs ==
  ASSUME Typed, NEW r \in Ranks, NEW t \in Threads
  PROVE  /\ Cur(r, t) \in Nat /\ Cur(r, t) <= Len(prog) + 1 /\ Cur(r, t) > 0
         /\ pc[r][t] \notin Ended => Cur(r, t) = ip[r][t] /\ ip[r][t] \in 1 .. Len(prog) /\ prog[ip[r][t]] \in Ops
<1>1. ip[r][t] \in Nat /\ ip[r][t] <= Len(prog) /\ Len(prog) \in Nat
  BY AtOp DEF Typed
<1>2. pc[r][t] \notin Ended => ip[r][t] \in 1 .. Len(prog) /\ prog[ip[r][t]] \in Ops
  BY AtOp DEF Typed
<1> QED BY <1>1, <1>2 DEF Cur

\* A border stays right while neither it nor the vector changes.
LEMMA HaloGoes ==
  ASSUME Typed, UNCHANGED env, \A k \in 1 .. Len(prog) : prog'[k] = prog[k],
         Typed', NEW r \in Ranks, NEW t \in Threads, HaloOf(r, t), halo'[r] = halo[r],
         \A v \in Vects, i, j \in Nat : Trusted(r, t, v)' /\ i = Cur(r, t) /\ j = Cur(r, t)' =>
           HaloFine(r, v, i) /\ Version(v, j)' = Version(v, i),
         pc'[r][t] \in Flagging /\ prog'[ip'[r][t]].kind # "update" =>
           pc[r][t] \in Flagging /\ ip'[r][t] = ip[r][t]
  PROVE  HaloOf(r, t)'
<1> PICK i \in Nat, j \in Nat : i = Cur(r, t) /\ j = Cur(r, t)'
  <2>1. Cur(r, t) \in Nat /\ Threads' = Threads /\ Ranks' = Ranks /\ nops' = nops /\ nops \in Nat
    BY CurIs, Sizes DEF env, Ranks, Threads, Typed
  <2>2. ip'[r][t] \in Nat
    BY <2>1 DEF Typed, Placed
  <2>3. Cur(r, t)' \in Nat
    BY <2>2 DEF Cur
  <2> QED BY <2>1, <2>3
<1>1. \A h : rank_neigh(r, h)' = rank_neigh(r, h)
  BY DEF env, rank_neigh
<1>2. Vects' = Vects /\ Halves' = Halves /\ Flagging' = Flagging
  BY DEF Vects, Halves, Flagging
<1>3. ASSUME NEW v \in Vects, Trusted(r, t, v)' PROVE HaloFine(r, v, Cur(r, t))'
  <2>1. HaloFine(r, v, i) /\ Version(v, j)' = Version(v, i)
    BY <1>3
  <2>2. \A h \in Halves : HaloGood(r, v, h, j)'
    BY <1>1, <2>1 DEF HaloFine, HaloGood
  <2>3. \A h \in Halves : HaloGood(r, v, h, Cur(r, t))' <=> HaloGood(r, v, h, j)'
    BY DEF HaloGood
  <2> QED BY <1>2, <2>2, <2>3 DEF HaloFine
<1>4. ASSUME pc'[r][t] \in Flagging, prog'[ip'[r][t]].kind # "update"
      PROVE  \A v \in ToSet(prog[ip[r][t]].vs)', h \in Mine(r, t)' : HaloGood(r, v, h, ip[r][t])'
  <2>1. PICK k : k = ip[r][t] /\ ip'[r][t] = k /\ k \in 1 .. Len(prog)
    <3>1. pc[r][t] \notin Ended
      BY <1>4 DEF Flagging, Ended
    <3> QED BY <1>4, <3>1, CurIs
  <2>2. prog'[k] = prog[k] /\ prog[k].kind # "update" /\ pc[r][t] \in Flagging
    BY <1>4, <2>1
  <2>3. ToSet(prog[ip[r][t]].vs)' = ToSet(prog[k].vs) /\ Mine(r, t)' = Mine(r, t)
    BY <2>1, <2>2 DEF ToSet, Mine, Chunk, env, Halves
  <2>4. \A v \in ToSet(prog[k].vs), h \in Mine(r, t) : HaloGood(r, v, h, k)
    BY <2>1, <2>2 DEF HaloOf
  <2>5. \A v : Version(v, k)' = Version(v, k)
    <3>1. prog \in Seq(Ops) /\ k \in Nat /\ k <= Len(prog) + 1
      BY <2>1 DEF Typed, Placed
    <3> HIDE DEF HaloOf, Trusted
    <3> QED BY <3>1, Told
  <2>6. \A v \in ToSet(prog[k].vs), h \in Mine(r, t) : HaloGood(r, v, h, k)'
    BY <1>1, <2>4, <2>5 DEF HaloGood
  <2>7. \A v, h : HaloGood(r, v, h, ip[r][t])' <=> HaloGood(r, v, h, k)'
    BY <2>1 DEF HaloGood
  <2> QED BY <2>3, <2>6, <2>7
<1> QED BY <1>2, <1>3, <1>4 DEF HaloOf

\* A thread whose place, borders and flags stay trusts the same borders.
LEMMA HaloKept ==
  ASSUME Typed, UNCHANGED env, \A k \in 1 .. Len(prog) : prog'[k] = prog[k],
         Typed', NEW r \in Ranks, NEW t \in Threads, HaloOf(r, t), halo'[r] = halo[r], valid'[r] = valid[r],
         pc'[r][t] = pc[r][t], ip'[r][t] = ip[r][t]
  PROVE  HaloOf(r, t)'
<1> PICK i : i = Cur(r, t)
  OBVIOUS
<1>1. i = Cur(r, t)' /\ i \in Nat /\ i <= Len(prog) + 1
  BY CurIs DEF Cur, Ended
<1>2. \A v : Version(v, i)' = Version(v, i)
  BY <1>1, Told DEF Typed, Placed
<1>3. ASSUME NEW v \in Vects, Trusted(r, t, v)' PROVE Trusted(r, t, v)
  <2>1. valid[r][v]
    BY <1>3 DEF Trusted
  <2>2. CASE pc[r][t] \in {"setflag", "flag2"}
    <3>1. prog'[ip[r][t]] = prog[ip[r][t]]
      <4>1. pc[r][t] \notin Ended
        BY <2>2 DEF Ended
      <4> QED BY <4>1, CurIs
    <3>2. UpdateOf(v)' = UpdateOf(v)
      BY DEF UpdateOf
    <3> QED BY <1>3, <2>1, <3>1, <3>2 DEF Trusted
  <2> QED BY <2>1, <2>2 DEF Trusted
<1>4. \A v \in Vects, a, b \in Nat : Trusted(r, t, v)' /\ a = Cur(r, t) /\ b = Cur(r, t)' =>
        HaloFine(r, v, a) /\ Version(v, b)' = Version(v, a)
  BY <1>1, <1>2, <1>3 DEF HaloOf
<1>5. pc'[r][t] \in Flagging /\ prog'[ip'[r][t]].kind # "update" =>
        pc[r][t] \in Flagging /\ ip'[r][t] = ip[r][t]
  OBVIOUS
<1> HIDE DEF HaloOf, Trusted
<1> QED BY <1>1, <1>4, <1>5, HaloGoes

\* A vector stays what it is while the operation a thread is at is none that
\* computes it.
LEMMA VersionGoes ==
  ASSUME Typed, prog' = prog, ip' = ip, NEW r \in Ranks, NEW t \in Threads,
         NEW v, pc[r][t] \in Ended => pc'[r][t] \in Ended,
         pc[r][t] \notin Ended /\ pc'[r][t] \in Ended => prog[ip[r][t]] # UpdateOf(v),
         NEW a \in Nat, NEW b \in Nat, a = Cur(r, t), b = Cur(r, t)'
  PROVE  Version(v, b)' = Version(v, a)
<1> PICK k : k = ip[r][t]
  OBVIOUS
<1>1. k \in Nat /\ k <= Len(prog) /\ prog \in Seq(Ops) /\ Len(prog) \in Nat
  BY AtOp DEF Typed, Placed
<1>2. \A i \in Nat : i <= Len(prog) + 1 => Version(v, i)' = Version(v, i)
  BY <1>1, Told
<1>3. CASE pc[r][t] \in Ended <=> pc'[r][t] \in Ended
  <2>1. a = b /\ a <= Len(prog) + 1
    BY <1>1, <1>3 DEF Cur, Ended
  <2> QED BY <1>2, <2>1
<1>4. CASE pc[r][t] \notin Ended /\ pc'[r][t] \in Ended
  <2>1. a = k /\ b = k + 1 /\ k \in 1 .. Len(prog)
    BY <1>1, <1>4, CurIs DEF Cur, Ended
  <2>2. Version(v, k + 1) = Version(v, k)
    BY <1>1, <1>4, <2>1, VersionNext DEF UpdateOf
  <2> QED BY <1>1, <1>2, <2>1, <2>2
<1> QED BY <1>3, <1>4

\* A thread goes on without touching flags and borders, ...
LEMMA HaloAdvance ==
  ASSUME Typed, Typed', ProgInv, nparal_dir > 0, NEW r \in Ranks, PhaseOf(r), NEW t \in Threads,
         Advance(r, t), ~ Call(r, t), UNCHANGED env, pc[r][t] \notin {"unpack", "setflag"}, HaloInv(r)
  PROVE  \A u \in Threads : HaloOf(r, u)'
<1>1. /\ prog' = prog /\ ip' = ip /\ prog \in Seq(Ops) /\ valid' = valid
      /\ \A u \in Threads : u # t => pc'[r][u] = pc[r][u]
  BY Effects DEF Typed, Placed
<1>2. halo' = halo
  BY Touches DEF Unpack
<1>3. \A u \in Threads : HaloOf(r, u)
  BY DEF HaloInv
<1>4. ASSUME NEW u \in Threads, u # t PROVE HaloOf(r, u)'
  <2>1. HaloOf(r, u) /\ pc'[r][u] = pc[r][u] /\ ip'[r][u] = ip[r][u]
        /\ halo'[r] = halo[r] /\ valid'[r] = valid[r] /\ \A k \in 1 .. Len(prog) : prog'[k] = prog[k]
    BY <1>1, <1>2, <1>3, <1>4
  <2> QED BY <2>1, HaloKept
<1>5. HaloOf(r, t)'
  <2> PICK l, m : l = pc[r][t] /\ m = pc'[r][t]
    OBVIOUS
  <2>1. /\ l \notin Waiting /\ l \notin {"setflag", "unpack"} /\ l \in PCs
        /\ l \in Ended => m \in Ended
        /\ l = "start" => m \in {"fill", "next", "finish"}
        /\ l = "fill" => m = "filled"
        /\ l = "post" => m \in {"next", "finish"}
        /\ l = "finish" => m \in {"wait", "loop", "next"}
        /\ l = "wait" => m = "waited"
        /\ l = "flag" => m \in {"flag1", "flag2"}
        /\ l = "loop" => m = "looped"
        /\ l = "write" => m = "flag"
    BY Moves, AtOp DEF Typed
  <2>2. m \in Flagging => l \in {"write", "flag"}
    BY <2>1 DEF Flagging, PCs, Waiting, Ended
  <2>3. l \notin Ended /\ m \in Ended => l \in {"start", "post", "finish"}
    BY <2>1 DEF PCs, Waiting, Ended
  <2>4. l \notin Ended => prog[ip[r][t]] = op(r, t)
    BY Where
  <2>5. \A v : l \notin Ended /\ m \in Ended => prog[ip[r][t]] # UpdateOf(v)
    <3>1. l \in {"start", "post", "finish"} => op(r, t).kind # "update"
      BY Where DEF Ended
    <3> QED BY <2>3, <2>4, <3>1 DEF UpdateOf
  <2>6. ASSUME NEW v \in Vects, NEW a \in Nat, NEW b \in Nat, Trusted(r, t, v)', a = Cur(r, t), b = Cur(r, t)'
        PROVE  HaloFine(r, v, a) /\ Version(v, b)' = Version(v, a)
    <3>1. Version(v, b)' = Version(v, a)
      BY <1>1, <2>1, <2>5, <2>6, VersionGoes
    <3>2. Trusted(r, t, v)
      BY <1>1, <2>1, <2>6 DEF Trusted, Waiting
    <3> QED BY <1>3, <2>6, <3>1, <3>2 DEF HaloOf
  <2>7. m \in Flagging /\ prog'[ip'[r][t]].kind # "update" => l \in Flagging /\ ip'[r][t] = ip[r][t]
    <3>1. l = "write" => op(r, t).kind = "update"
      BY Where DEF Ended
    <3> QED BY <1>1, <2>2, <2>4, <3>1 DEF Flagging, Ended
  <2>8. HaloOf(r, t) /\ halo'[r] = halo[r] /\ \A k \in 1 .. Len(prog) : prog'[k] = prog[k]
    BY <1>1, <1>2, <1>3
  <2> HIDE DEF HaloOf, Trusted, HaloFine
  <2> QED BY <2>6, <2>7, <2>8, HaloGoes
<1> QED BY <1>4, <1>5

\* ... or calls the next operation.
LEMMA HaloCall ==
  ASSUME Typed, Typed', [Next]_vars, NEW r \in Ranks, NEW t \in Threads, Call(r, t), HaloInv(r)
  PROVE  \A u \in Threads : HaloOf(r, u)'
<1>1. /\ pc[r][t] = "next" /\ halo' = halo /\ valid' = valid /\ UNCHANGED env
      /\ \A u \in Threads : u # t => pc'[r][u] = pc[r][u] /\ ip'[r][u] = ip[r][u]
      /\ ip'[r][t] = ip[r][t] + 1 /\ pc'[r][t] = Entry(prog'[ip[r][t] + 1]) /\ prog'[ip[r][t] + 1] \in Ops
  BY CallEffects, Launching DEF data
<1>2. \A k \in 1 .. Len(prog) : prog'[k] = prog[k]
  BY Grows
<1>3. \A u \in Threads : HaloOf(r, u)
  BY DEF HaloInv
<1>4. ASSUME NEW u \in Threads, u # t PROVE HaloOf(r, u)'
  <2>1. HaloOf(r, u) /\ pc'[r][u] = pc[r][u] /\ ip'[r][u] = ip[r][u]
        /\ halo'[r] = halo[r] /\ valid'[r] = valid[r]
    BY <1>1, <1>3, <1>4
  <2> QED BY <1>1, <1>2, <2>1, HaloKept
<1>5. HaloOf(r, t)'
  <2>1. pc'[r][t] \in {"write", "start", "finish"}
    BY <1>1, Operations DEF Entry
  <2>2. Cur(r, t) = ip[r][t] + 1 /\ Cur(r, t)' = Cur(r, t) /\ Cur(r, t) \in Nat /\ Cur(r, t) <= Len(prog) + 1
    BY <1>1, <2>1, CurIs DEF Cur, Ended
  <2>3. ASSUME NEW v \in Vects, NEW a \in Nat, NEW b \in Nat, Trusted(r, t, v)', a = Cur(r, t), b = Cur(r, t)'
        PROVE  HaloFine(r, v, a) /\ Version(v, b)' = Version(v, a)
    <3>1. Version(v, a)' = Version(v, a)
      BY <1>2, <2>2, <2>3, Told DEF Typed, Placed
    <3>2. a = b
      BY <2>2, <2>3
    <3>3. Trusted(r, t, v)
      BY <1>1, <2>3 DEF Trusted
    <3> QED BY <1>3, <2>3, <3>1, <3>2, <3>3 DEF HaloOf
  <2>4. pc'[r][t] \notin Flagging /\ HaloOf(r, t) /\ halo'[r] = halo[r]
    BY <1>1, <1>3, <2>1 DEF Flagging
  <2> HIDE DEF HaloOf, Trusted, HaloFine, Flagging
  <2> QED BY <1>1, <1>2, <2>3, <2>4, HaloGoes
<1> QED BY <1>4, <1>5

\* The flag of a vector is as it has to be when a thread goes to the barrier.
LEMMA FlagIs ==
  ASSUME Typed, NEW r \in Ranks, PhaseOf(r), NEW t \in Threads, pc[r][t] \in {"flag1", "flag2"}
  PROVE  FlagOf(r, t, ip[r][t], at[r][t])
<1>1. PICK n \in 0 .. Len(prog) :
        \/ Between(r, n) \/ Posting(r, n) \/ Unpacking(r, n) \/ (\E a \in {1, 2} : Setting(r, n, a))
        \/ Second(r, n) \/ Using(r, n)
  BY DEF PhaseOf
<1>2. CASE Between(r, n)
  <2>1. Passing(r, t, n)
    BY <1>2 DEF Between
  <2>2. FlagOf(r, t, ip[r][t], 1) /\ at[r][t] = 1
    BY <2>1 DEF Passing, Ended
  <2> QED BY <2>2
<1>3. CASE Posting(r, n) \/ Using(r, n)
  BY <1>3 DEF Posting, Using
<1>4. CASE Unpacking(r, n)
  <2>1. ip[r][t] = n /\ at[r][t] = 1 /\ FlagOf(r, t, n, 1)
    BY <1>4 DEF Unpacking
  <2> QED BY <2>1
<1>5. CASE \E a \in {1, 2} : Setting(r, n, a)
  <2>1. PICK a \in {1, 2} : Setting(r, n, a)
    BY <1>5
  <2>2. ip[r][t] = n /\ at[r][t] = a /\ FlagOf(r, t, n, a)
    BY <2>1 DEF Setting
  <2> QED BY <2>2
<1>6. CASE Second(r, n)
  <2>1. ip[r][t] = n /\ at[r][t] = 2 /\ FlagOf(r, t, n, 2)
    BY <1>6 DEF Second
  <2> QED BY <2>1
<1> QED BY <1>1, <1>2, <1>3, <1>4, <1>5, <1>6

\* All threads go on.
LEMMA HaloBarrier ==
  ASSUME Typed, Typed', ProgInv, UNCHANGED env, NEW r \in Ranks, PhaseOf(r), Barrier(r), HaloInv(r),
         NEW t \in Threads
  PROVE  HaloOf(r, t)'
<1> PICK l, m : l = pc[r][t] /\ m = pc'[r][t]
  OBVIOUS
<1> PICK o : o = op(r, t)
  OBVIOUS
<1>1. prog' = prog /\ ip' = ip /\ halo' = halo /\ valid' = valid /\ l \in Waiting
  BY BarrierEffects DEF data
<1>2. /\ l = "filled" => m = "post"
      /\ l = "waited" => m = "unpack"
      /\ l = "flag1" => m = "setflag"
      /\ l = "looped" => m = "next"
      /\ l = "flag2" => IF at[r][t] < Len(o.vs) THEN m = "flag"
                        ELSE m = IF o.kind = "read" THEN "loop" ELSE "next"
  BY BarrierEffects
<1>3. /\ l \notin Ended /\ HaloOf(r, t) /\ o \in Ops /\ o = prog[ip[r][t]]
      /\ l = "looped" => o.kind = "read"
      /\ at[r][t] \in DOMAIN o.vs
  <2>1. l \notin Ended
    BY <1>1 DEF Waiting, Ended
  <2> QED BY <2>1, Where, AtOp DEF HaloInv, Typed
<1>4. l = "flag2" /\ o.kind = "update" => ~ valid[r][o.vs[1]] /\ Len(o.vs) = 1 /\ at[r][t] = 1
  <2>1. ASSUME l = "flag2" PROVE valid[r][o.vs[at[r][t]]] <=> o.kind # "update"
    <3>1. FlagOf(r, t, ip[r][t], at[r][t])
      BY <2>1, FlagIs
    <3>2. valid[r][prog[ip[r][t]].vs[at[r][t]]] <=> prog[ip[r][t]].kind # "update"
      BY <2>1, <3>1 DEF FlagOf
    <3> QED BY <1>3, <3>2
  <2>2. o.kind = "update" => Len(o.vs) = 1 /\ DOMAIN o.vs = 1 .. Len(o.vs)
    BY <1>3, Operations
  <2> QED BY <1>3, <2>1, <2>2
<1>5. ASSUME NEW v \in Vects, NEW a \in Nat, NEW b \in Nat, Trusted(r, t, v)', a = Cur(r, t), b = Cur(r, t)'
      PROVE  HaloFine(r, v, a) /\ Version(v, b)' = Version(v, a)
  <2>1. valid[r][v]
    BY <1>1, <1>5 DEF Trusted
  <2>2. o = UpdateOf(v) => l # "flag2"
    BY <1>4, <2>1 DEF UpdateOf
  <2>3. l \notin Ended /\ m \in Ended => o # UpdateOf(v)
    BY <1>1, <1>2, <1>3, <2>2 DEF Ended, Waiting, UpdateOf
  <2>4. Version(v, b)' = Version(v, a)
    BY <1>1, <1>3, <1>5, <2>3, VersionGoes
  <2>5. Trusted(r, t, v)
    BY <1>1, <1>3, <2>1, <2>2 DEF Trusted, Waiting
  <2> QED BY <1>3, <1>5, <2>4, <2>5 DEF HaloOf
<1>6. m \in Flagging /\ prog'[ip'[r][t]].kind # "update" => l \in Flagging /\ ip'[r][t] = ip[r][t]
  BY <1>1, <1>2 DEF Flagging, Waiting
<1>7. halo'[r] = halo[r] /\ \A k \in 1 .. Len(prog) : prog'[k] = prog[k]
  BY <1>1
<1> HIDE DEF HaloOf, Trusted, HaloFine, Flagging
<1> QED BY <1>3, <1>5, <1>6, <1>7, HaloGoes

\* The borders are valid once all of them are there.
LEMMA HaloSetFlag ==
  ASSUME Typed, Typed', ProgInv, nparal_dir > 0, UNCHANGED env, NEW r \in Ranks, PhaseOf(r),
         NEW t \in Threads, Advance(r, t), ~ Call(r, t), pc[r][t] = "setflag", HaloInv(r), NEW u \in Threads
  PROVE  HaloOf(r, u)'
<1>0. \A v \in Vects : valid'[r][v] <=>
        IF v = op(r, t).vs[at[r][t]] THEN op(r, t).kind # "update" ELSE valid[r][v]
  <2>1. NewFlags(r, t)
    BY Effects
  <2> QED BY <2>1 DEF NewFlags
<1>1. /\ prog' = prog /\ ip' = ip /\ prog \in Seq(Ops) /\ pc'[r][t] = "flag2"
      /\ \A q \in Threads : q # t => pc'[r][q] = pc[r][q]
      /\ op(r, t) = prog[ip[r][t]]
  <2>1. prog \in Seq(Ops) /\ pc[r][t] \notin Ended
    BY DEF Typed, Placed, Ended
  <2>2. op(r, t) = prog[ip[r][t]]
    BY DEF op
  <2> QED BY <2>1, <2>2, Effects
<1>2. halo' = halo
  BY Touches DEF Unpack
<1>3. PICK n \in 0 .. Len(prog), a \in {1, 2} : Setting(r, n, a)
  <2>1. PICK n \in 0 .. Len(prog) :
          \/ Between(r, n) \/ Posting(r, n) \/ Unpacking(r, n) \/ (\E a \in {1, 2} : Setting(r, n, a))
          \/ Second(r, n) \/ Using(r, n)
    BY DEF PhaseOf
  <2>2. ~ Between(r, n)
    <3>1. pc[r][t] \notin Ended
      BY DEF Ended
    <3> QED BY <3>1, PassingAt DEF Between
  <2>3. ~ Posting(r, n) /\ ~ Second(r, n) /\ ~ Using(r, n) /\ ~ Unpacking(r, n)
    BY DEF Posting, Second, Using, Unpacking
  <2> QED BY <2>1, <2>2, <2>3
<1>4. /\ n \in 1 .. Len(prog) /\ prog[n] \in Ops
      /\ \A q \in Threads : ip[r][q] = n /\ at[r][q] = a /\ pc[r][q] \in {"setflag", "flag2"}
  BY <1>1, <1>3 DEF Setting
<1> PICK o, w : o = prog[n] /\ w = o.vs[a]
  OBVIOUS
<1>5. /\ \A v \in Vects : valid'[r][v] <=> IF v = w THEN o.kind # "update" ELSE valid[r][v]
      /\ w \in ToSet(o.vs) /\ ToSet(o.vs) \subseteq Vects
      /\ o.kind = "update" => o = UpdateOf(w)
  <2>1. a \in DOMAIN o.vs
    BY <1>3 DEF Setting
  <2>2. o.kind = "update" => a = 1
    BY <1>4, <2>1, Operations
  <2>3. \A v \in Vects : valid'[r][v] <=> IF v = w THEN o.kind # "update" ELSE valid[r][v]
    <3>1. op(r, t) = o /\ at[r][t] = a
      BY <1>1, <1>4
    <3> QED BY <1>0, <3>1
  <2> QED BY <1>4, <2>1, <2>2, <2>3, Operations
<1>6. \A q \in Threads : pc'[r][q] \in {"setflag", "flag2"} /\ Cur(r, q) = n /\ Cur(r, q)' = n /\ HaloOf(r, q)
  <2>1. \A q \in Threads : pc'[r][q] \in {"setflag", "flag2"}
    BY <1>1, <1>4
  <2> QED BY <1>1, <1>4, <2>1 DEF Cur, Ended, HaloInv
<1>7. o.kind # "update" => HaloFine(r, w, n)
  <2> SUFFICES ASSUME o.kind # "update", NEW h \in Halves PROVE HaloGood(r, w, h, n)
    BY DEF HaloFine
  <2>1. PICK q \in Threads : h \in Mine(r, q)
    <3>1. 0 \in Threads /\ h % nthreads \in Threads /\ h \in Chunk(h % nthreads)
      BY Sizes DEF Typed
    <3>2. CASE Len(o.vs) = 2
      BY <1>4, <3>1, <3>2 DEF Mine
    <3>3. CASE Len(o.vs) # 2
      BY <1>4, <3>1, <3>3 DEF Mine
    <3> QED BY <3>2, <3>3
  <2>2. HaloOf(r, q) /\ pc[r][q] \in Flagging /\ ip[r][q] = n
    BY <1>4, <1>6 DEF Flagging
  <2> QED BY <1>5, <2>1, <2>2 DEF HaloOf
<1>8. ASSUME NEW v \in Vects, NEW i \in Nat, NEW j \in Nat, Trusted(r, u, v)', i = Cur(r, u), j = Cur(r, u)'
      PROVE  HaloFine(r, v, i) /\ Version(v, j)' = Version(v, i)
  <2>1. i = n /\ j = n /\ Version(v, j)' = Version(v, i)
    <3>1. i = n /\ j = n
      BY <1>6, <1>8
    <3> QED BY <1>1, <1>4, <3>1, Told
  <2>2. valid'[r][v] /\ o # UpdateOf(v)
    BY <1>1, <1>4, <1>6, <1>8 DEF Trusted, UpdateOf
  <2>3. CASE v = w
    BY <1>5, <1>7, <2>1, <2>2, <2>3
  <2>4. CASE v # w
    <3>1. Trusted(r, u, v)
      BY <1>4, <1>5, <2>2, <2>4 DEF Trusted
    <3>2. HaloFine(r, v, Cur(r, u))
      BY <1>6, <3>1 DEF HaloOf
    <3> QED BY <1>8, <2>1, <3>2
  <2> QED BY <2>3, <2>4
<1>9. /\ pc'[r][u] \in Flagging /\ prog'[ip'[r][u]].kind # "update" => pc[r][u] \in Flagging /\ ip'[r][u] = ip[r][u]
      /\ HaloOf(r, u) /\ halo'[r] = halo[r] /\ \A k \in 1 .. Len(prog) : prog'[k] = prog[k]
  BY <1>1, <1>2, <1>4, <1>6 DEF Flagging
<1> HIDE DEF HaloOf, Trusted, HaloFine, Flagging
<1> QED BY <1>8, <1>9, HaloGoes

\* When a thread unpacks, all of them are at the exchange it is for, ...
LEMMA AtUnpack ==
  ASSUME Typed, NEW r \in Ranks, PhaseOf(r), NEW t \in Threads, pc[r][t] = "unpack"
  PROVE  \E n \in 1 .. Len(prog) : Unpacking(r, n)
<1>1. PICK n \in 0 .. Len(prog) :
        \/ Between(r, n) \/ Posting(r, n) \/ Unpacking(r, n) \/ (\E a \in {1, 2} : Setting(r, n, a))
        \/ Second(r, n) \/ Using(r, n)
  BY DEF PhaseOf
<1>2. ~ Between(r, n)
  <2>1. pc[r][t] \notin Ended
    BY DEF Ended
  <2> QED BY <2>1, PassingAt DEF Between
<1>3. ~ Posting(r, n) /\ ~ Second(r, n) /\ ~ Using(r, n) /\ ~ \E a \in {1, 2} : Setting(r, n, a)
  BY DEF Posting, Second, Using, Setting
<1>4. Unpacking(r, n)
  BY <1>1, <1>2, <1>3
<1>5. n \in 1 .. Len(prog)
  BY <1>4 DEF Unpacking, Fetching, Typed, Placed
<1> QED BY <1>4, <1>5

\* ... of the vectors as they still are.
LEMMA Fetched ==
  ASSUME Typed, ProgInv, NEW n \in 1 .. Len(prog), Fetching(n)
  PROVE  /\ LastX(n) \in 1 .. n /\ prog[LastX(n)].vs = prog[n].vs
         /\ \A v \in ToSet(prog[n].vs) : Version(v, LastX(n)) = Version(v, n)
<1>1. prog \in Seq(Ops) /\ n \in Nat /\ n <= Len(prog) /\ Len(prog) \in Nat
  BY DEF Typed, Placed
<1>2. CASE prog[n].kind = "read"
  <2>1. LastX(n) = n
    BY <1>1, <1>2, Exchanges DEF Exchange, Fetching
  <2> QED BY <1>1, <2>1
<1>3. CASE prog[n].kind = "finish"
  <2>1. Talking(n) # {}
    BY <1>1, <1>3, TalkingNext DEF Fetching
  <2>2. PICK j : j \in Talking(n)
    BY <2>1
  <2>3. LastX(n) = j /\ j \in 1 .. n - 1 /\ prog[j].kind = "start" /\ prog[n].vs = prog[j].vs
    BY <1>1, <1>3, <2>2, TalkingNext
  <2>4. Open(j, n)
    BY <2>2 DEF Talking
  <2>5. \A k \in j + 1 .. n - 1 : prog[k].kind = "update" /\ ToSet(prog[k].vs) \cap ToSet(prog[j].vs) = {}
    <3>1. n \in 1 .. Len(prog) + 1
      BY <1>1
    <3>2. prog \in Seq(Ops) /\ ProgInv /\ j \in 1 .. n - 1 /\ Open(j, n)
      BY <1>1, <2>3, <2>4
    <3>3. \A k \in j + 1 .. n - 1 : prog[k].kind = "update"
      BY <3>1, <3>2, InFlightOnly
    <3>4. \A k \in j + 1 .. n - 1 : ToSet(prog[k].vs) \cap ToSet(prog[j].vs) = {}
      BY <3>1, <3>2, InFlightOnly
    <3> QED BY <3>3, <3>4
  <2>6. ASSUME NEW v \in ToSet(prog[n].vs) PROVE Version(v, j) = Version(v, n)
    <3>1. ASSUME NEW k \in j .. n - 1 PROVE prog[k] # UpdateOf(v)
      <4>1. CASE k = j
        BY <2>3, <4>1 DEF UpdateOf
      <4>2. CASE k # j
        <5>1. v \notin ToSet(prog[k].vs)
          BY <1>1, <2>3, <2>5, <2>6, <4>2
        <5>2. v \in ToSet(UpdateOf(v).vs)
          BY DEF UpdateOf, ToSet
        <5> QED BY <5>1, <5>2
      <4> QED BY <4>1, <4>2
    <3>2. j \in Nat /\ j <= n
      BY <1>1, <2>3
    <3> QED BY <1>1, <3>1, <3>2, SameVersion
  <2>7. j \in 1 .. n
    BY <1>1, <2>3
  <2> QED BY <2>3, <2>6, <2>7
<1> QED BY <1>2, <1>3 DEF Fetching

\* What is unpacked is what the neighbours have.
LEMMA GoodUnpacked ==
  ASSUME Typed, ProgInv, NEW r \in Ranks, Settled(r), Received(r), NEW n \in 1 .. Len(prog), Unpacking(r, n),
         NEW h \in Halves
  PROVE  LET p == recv_buf[r][h]
         IN /\ p.from = rank_neigh(r, h) /\ p.half = 1 - h
            /\ \A v \in ToSet(prog[n].vs) : v \in DOMAIN p.ver /\ p.ver[v] = Version(v, n)
<1>1. 0 \in Threads /\ prog \in Seq(Ops) /\ Fetching(n) /\ nranks \in Nat \ {0}
  BY Sizes DEF Typed, Placed, Unpacking
<1>2. ip[r][0] = n /\ pc[r][0] \in {"unpack", "flag", "flag1", "flag2"}
  BY <1>1 DEF Unpacking
<1>3. MyX(r) = LastX(n)
  BY <1>2 DEF MyX, XAt, Ahead
<1>4. ~ Awaiting(r)
  <2> PICK l : l = pc[r][0]
    OBVIOUS
  <2>1. l \notin Ended \cup {"finish", "wait"} /\ prog[n].kind # "update"
    BY <1>1, <1>2 DEF Ended, Fetching
  <2>2. ~ AwaitAt(l, n)
    BY <1>1, <2>1, AwaitIs
  <2> QED BY <1>2, <2>2 DEF Awaiting
<1> PICK x, s : x = LastX(n) /\ s = rank_neigh(r, h)
  OBVIOUS
<1>5. /\ x \in 1 .. n /\ prog[x].vs = prog[n].vs /\ x > 0 /\ s \in Ranks
      /\ \A v \in ToSet(prog[n].vs) : Version(v, x) = Version(v, n)
  BY <1>1, Fetched, Grid
<1>6. recv_buf[r][h] = Good(s, 1 - h, x)
  <2>1. Comm(prog[x]) \in Comms
    BY DEF Comm, Comms
  <2>2. recvs[r][s][Comm(prog[x])] = <<>>
    BY <1>4, <1>5, <2>1 DEF Settled
  <2> QED BY <1>3, <1>5, <2>2 DEF Received
<1> QED BY <1>5, <1>6 DEF Good

\* What is unpacked from recv_buf is what the neighbours had at this exchange.
LEMMA HaloUnpack ==
  ASSUME Typed, Typed', ProgInv, nparal_dir > 0, UNCHANGED env, NEW r \in Ranks, PhaseOf(r),
         Settled(r), Received(r), NEW t \in Threads, Unpack(r, t), HaloInv(r), NEW u \in Threads
  PROVE  HaloOf(r, u)'
<1>1. /\ pc[r][t] = "unpack" /\ prog' = prog /\ ip' = ip /\ valid' = valid /\ prog \in Seq(Ops)
      /\ pc'[r][t] = "flag" /\ \A q \in Threads : q # t => pc'[r][q] = pc[r][q]
  <2>1. pc[r][t] = "unpack" /\ Goto(r, t, "flag") /\ UNCHANGED <<where, valid>>
    BY DEF Unpack
  <2>2. Placed /\ prog \in Seq(Ops) /\ "flag" \in PCs
    BY DEF Typed, Placed, PCs
  <2>3. pc'[r][t] = "flag" /\ \A q \in Threads : q # t => pc'[r][q] = pc[r][q]
    BY <2>1, <2>2, Going
  <2> QED BY <2>1, <2>2, <2>3 DEF where
<1>2. PICK n \in 1 .. Len(prog) : Unpacking(r, n)
  BY <1>1, AtUnpack
<1> PICK o : o = prog[n]
  OBVIOUS
<1>3. /\ Fetching(n) /\ o.kind # "update" /\ o \in Ops /\ ToSet(o.vs) \subseteq Vects
      /\ \A q \in Threads : ip[r][q] = n /\ pc[r][q] \in {"unpack", "flag", "flag1", "flag2"}
      /\ \A q \in Threads : Cur(r, q) = n /\ Cur(r, q)' = n
  <2>1. Fetching(n) /\ o.kind # "update" /\ o \in Ops
    BY <1>1, <1>2 DEF Unpacking, Fetching
  <2>2. \A q \in Threads : ip[r][q] = n /\ pc[r][q] \in {"unpack", "flag", "flag1", "flag2"}
    BY <1>2 DEF Unpacking
  <2>3. \A q \in Threads : pc[r][q] \notin Ended /\ pc'[r][q] \notin Ended
    BY <1>1, <2>2 DEF Ended
  <2>4. \A q \in Threads : Cur(r, q) = n /\ Cur(r, q)' = n
    BY <1>1, <2>2, <2>3 DEF Cur, Ended
  <2> QED BY <2>1, <2>2, <2>4, Operations
\* What changes becomes right, ...
<1>4. /\ \A v \in Vects, h \in Halves :
           \/ halo'[r][v][h] = halo[r][v][h]
           \/ v \in ToSet(o.vs) /\ halo'[r][v][h] = recv_buf[r][h]
      /\ \A v \in ToSet(o.vs), h \in Mine(r, t) : halo'[r][v][h] = recv_buf[r][h] /\ h \in Halves
  <2>1. op(r, t) = o /\ halo \in [Ranks -> [Vects -> [Halves -> Pieces]]] /\ Mine(r, t) \subseteq Halves
    BY <1>3 DEF op, Typed, Filled, Mine, Chunk
  <2>2. halo' = [halo EXCEPT ![r] = [v \in Vects |-> [h \in Halves |->
                   IF v \in ToSet(o.vs) /\ h \in Mine(r, t) THEN recv_buf[r][h] ELSE @[v][h]]]]
    BY <1>3, <2>1 DEF Unpack, Mine, op
  <2>3. \A v \in Vects, h \in Halves : halo'[r][v][h] =
          IF v \in ToSet(o.vs) /\ h \in Mine(r, t) THEN recv_buf[r][h] ELSE halo[r][v][h]
    BY <2>1, <2>2
  <2> QED BY <1>3, <2>1, <2>3
<1>5. \A h \in Halves :
        /\ recv_buf[r][h].from = rank_neigh(r, h) /\ recv_buf[r][h].half = 1 - h
        /\ \A v \in ToSet(o.vs) : v \in DOMAIN recv_buf[r][h].ver /\ recv_buf[r][h].ver[v] = Version(v, n)
  BY <1>2, GoodUnpacked
<1>6. (\A h : rank_neigh(r, h)' = rank_neigh(r, h)) /\ (\A v : Version(v, n)' = Version(v, n))
  <2>1. \A h : rank_neigh(r, h)' = rank_neigh(r, h)
    BY DEF env, rank_neigh
  <2>2. \A v : Version(v, n)' = Version(v, n)
    BY <1>1, Told
  <2> QED BY <2>1, <2>2
<1>7. ASSUME NEW v \in ToSet(o.vs), NEW h \in Halves, halo'[r][v][h] = recv_buf[r][h]
      PROVE  HaloGood(r, v, h, n)'
  BY <1>5, <1>6, <1>7 DEF HaloGood
\* ... and the rest stays so.
<1>8. ASSUME NEW v \in Vects, NEW h \in Halves, HaloGood(r, v, h, n)
      PROVE  HaloGood(r, v, h, n)'
  <2>1. CASE halo'[r][v][h] = halo[r][v][h]
    BY <1>6, <1>8, <2>1 DEF HaloGood
  <2>2. CASE v \in ToSet(o.vs) /\ halo'[r][v][h] = recv_buf[r][h]
    BY <1>7, <2>2
  <2> QED BY <1>4, <2>1, <2>2
<1>9. HaloOf(r, u) /\ Vects' = Vects /\ Halves' = Halves /\ Flagging' = Flagging
  BY DEF HaloInv, Vects, Halves, Flagging
<1>10. \A v, h : HaloGood(r, v, h, Cur(r, u))' <=> HaloGood(r, v, h, n)'
  BY <1>3 DEF HaloGood
<1>11. ASSUME NEW v \in Vects, Trusted(r, u, v)' PROVE HaloFine(r, v, Cur(r, u))'
  <2>1. Trusted(r, u, v)
    <3>1. valid[r][v]
      BY <1>1, <1>11 DEF Trusted
    <3>2. prog[ip[r][u]] # UpdateOf(v)
      BY <1>3 DEF UpdateOf
    <3> QED BY <3>1, <3>2 DEF Trusted
  <2>2. HaloFine(r, v, n)
    BY <1>3, <1>9, <2>1 DEF HaloOf
  <2>3. \A h \in Halves : HaloGood(r, v, h, n)'
    BY <1>8, <2>2 DEF HaloFine
  <2> QED BY <1>9, <1>10, <2>3 DEF HaloFine
<1>12. ASSUME pc'[r][u] \in Flagging, prog'[ip'[r][u]].kind # "update"
       PROVE  \A v \in ToSet(prog[ip[r][u]].vs)', h \in Mine(r, u)' : HaloGood(r, v, h, ip[r][u])'
  <2>1. ToSet(prog[ip[r][u]].vs)' = ToSet(o.vs) /\ Mine(r, u)' = Mine(r, u) /\ Mine(r, u) \subseteq Halves
    BY <1>1, <1>3 DEF ToSet, Mine, Chunk, env, Halves
  <2>2. \A v, h : HaloGood(r, v, h, ip[r][u])' <=> HaloGood(r, v, h, n)'
    BY <1>1, <1>3 DEF HaloGood
  <2>3. CASE u = t
    <3>1. \A v \in ToSet(o.vs), h \in Mine(r, u) : HaloGood(r, v, h, n)'
      BY <1>4, <1>7, <2>3
    <3> QED BY <2>1, <2>2, <3>1
  <2>4. CASE u # t
    <3>1. pc[r][u] \in Flagging /\ prog[ip[r][u]].kind # "update" /\ ip[r][u] = n
      BY <1>1, <1>3, <1>12, <2>4
    <3>2. \A v \in ToSet(o.vs), h \in Mine(r, u) : HaloGood(r, v, h, n)
      BY <1>9, <3>1 DEF HaloOf
    <3>3. \A v \in ToSet(o.vs), h \in Mine(r, u) : HaloGood(r, v, h, n)'
      BY <1>3, <1>8, <2>1, <3>2
    <3> QED BY <2>1, <2>2, <3>3
  <2> QED BY <2>3, <2>4
<1> QED BY <1>9, <1>11, <1>12 DEF HaloOf

\* A border that can be trusted stays right whatever is done.
LEMMA HaloStep ==
  Typed /\ ProgInv /\ nparal_dir > 0 /\ PhaseCheck /\ NetInv /\ HaloCheck /\ [Next]_vars => HaloCheck'
<1> SUFFICES ASSUME Typed, ProgInv, nparal_dir > 0, PhaseCheck, NetInv, HaloCheck, [Next]_vars PROVE HaloCheck'
  OBVIOUS
<1>1. Typed' /\ UNCHANGED env /\ \A k \in 1 .. Len(prog) : prog'[k] = prog[k]
  BY TypedStep, Launching, Grows
<1>2. Ranks' = Ranks /\ Threads' = Threads
  BY <1>1 DEF env, Ranks, Threads
<1> SUFFICES ASSUME NEW r \in Ranks, NEW u \in Threads PROVE HaloOf(r, u)'
  BY <1>2 DEF HaloCheck, HaloInv
<1>3. PhaseOf(r) /\ Settled(r) /\ Received(r) /\ HaloInv(r) /\ HaloOf(r, u)
  BY DEF PhaseCheck, NetInv, HaloCheck, HaloInv
<1>4. ASSUME halo'[r] = halo[r], valid'[r] = valid[r], pc'[r] = pc[r], ip'[r] = ip[r]
      PROVE  HaloOf(r, u)'
  <2>1. pc'[r][u] = pc[r][u] /\ ip'[r][u] = ip[r][u]
    BY <1>4
  <2> QED BY <1>1, <1>3, <1>4, <2>1, HaloKept
<1>5. CASE UNCHANGED vars \/ Transport
  <2>1. UNCHANGED <<data, valid, pc, ip>>
    BY <1>5 DEF vars, where, Transport, Deliver
  <2> QED BY <1>4, <2>1 DEF data
<1>6. ASSUME NEW q \in Ranks, Barrier(q) PROVE HaloOf(r, u)'
  <2>1. CASE q = r
    BY <1>1, <1>3, <1>6, <2>1, HaloBarrier
  <2>2. CASE q # r
    <3>1. UNCHANGED <<data, valid, ip>> /\ pc'[r] = pc[r]
      BY <1>6, <2>2, BarrierEffects
    <3> QED BY <1>4, <3>1 DEF data
  <2> QED BY <2>1, <2>2
<1>7. ASSUME NEW q \in Ranks, NEW t \in Threads, Call(q, t) PROVE HaloOf(r, u)'
  <2>1. CASE q = r
    BY <1>1, <1>3, <1>7, <2>1, HaloCall
  <2>2. CASE q # r
    <3>1. UNCHANGED <<data, valid>> /\ pc'[r][u] = pc[r][u] /\ ip'[r][u] = ip[r][u]
      BY <1>7, <2>2, CallEffects
    <3>2. halo'[r] = halo[r] /\ valid'[r] = valid[r]
      BY <3>1 DEF data
    <3> QED BY <1>1, <1>3, <3>1, <3>2, HaloKept
  <2> QED BY <2>1, <2>2
<1>8. ASSUME NEW q \in Ranks, NEW t \in Threads, Advance(q, t), ~ Call(q, t) PROVE HaloOf(r, u)'
  <2>1. CASE q # r
    <3>1. ip' = ip /\ valid'[r] = valid[r] /\ pc'[r][u] = pc[r][u]
      BY <1>8, <2>1, Effects
    <3>2. halo'[r] = halo[r]
      <4>1. CASE Unpack(q, t)
        BY <2>1, <4>1 DEF Unpack, Typed, Filled
      <4> QED BY <1>8, <4>1, Touches
    <3>3. ip'[r][u] = ip[r][u]
      BY <3>1
    <3> QED BY <1>1, <1>3, <3>1, <3>2, <3>3, HaloKept
  <2>2. CASE q = r /\ pc[r][t] \notin {"unpack", "setflag"}
    BY <1>1, <1>3, <1>8, <2>2, HaloAdvance
  <2>3. CASE q = r /\ pc[r][t] = "setflag"
    BY <1>1, <1>3, <1>8, <2>3, HaloSetFlag
  <2>4. CASE q = r /\ pc[r][t] = "unpack"
    <3>1. Unpack(r, t)
      BY <1>8, <2>4 DEF Advance, Call, Exit, Write, Start, Fill, Post, Finish, Wait, Flag, SetFlag, Loop
    <3> QED BY <1>1, <1>3, <3>1, HaloUnpack
  <2> QED BY <2>1, <2>2, <2>3, <2>4
<1>9. ASSUME Progress PROVE HaloOf(r, u)'
  BY <1>5, <1>6, <1>7, <1>8, <1>9 DEF Progress
<1> QED BY <1>5, <1>9 DEF Next, Terminated
-----------------------------------------------------------------------------
\* What a loop that uses borders finds.
LEMMA LoopRight ==
  ASSUME Typed, ProgInv, PhaseCheck, SurfInv, HaloCheck
  PROVE  LoopSeesFreshBorders
<1> SUFFICES ASSUME NEW r \in Ranks, NEW t \in Threads, pc[r][t] = "loop",
                    NEW k \in DOMAIN op(r, t).vs, NEW h \in Halves
             PROVE  LET v == op(r, t).vs[k]
                        p == halo[r][v][h]
                    IN /\ surf[r][v][h] = Version(v, ip[r][t])
                       /\ p.from = rank_neigh(r, h) /\ p.half = 1 - h
                       /\ v \in DOMAIN p.ver /\ p.ver[v] = Version(v, ip[r][t])
  BY DEF LoopSeesFreshBorders
<1> PICK i, o, v, u : i = ip[r][t] /\ o = op(r, t) /\ v = o.vs[k] /\ u = h % nthreads
  OBVIOUS
<1>1. /\ pc[r][t] \notin Ended /\ i \in 1 .. Len(prog) /\ o = prog[i] /\ o \in Ops /\ o.kind = "read"
      /\ v \in ToSet(o.vs) /\ v \in Vects /\ u \in Threads /\ prog \in Seq(Ops) /\ Len(prog) \in Nat
  <2>1. pc[r][t] \notin Ended
    BY DEF Ended
  <2>2. i \in 1 .. Len(prog) /\ o = prog[i] /\ o \in Ops /\ o.kind = "read"
    BY <2>1, Where DEF PhaseCheck
  <2>3. v \in ToSet(o.vs) /\ v \in Vects
    BY <2>2, Operations
  <2> QED BY <2>1, <2>2, <2>3, Sizes DEF Typed, Placed
<1>2. PICK n \in 0 .. Len(prog) :
        \/ Between(r, n) \/ Posting(r, n) \/ Unpacking(r, n) \/ (\E a \in {1, 2} : Setting(r, n, a))
        \/ Second(r, n) \/ Using(r, n)
  BY DEF PhaseCheck, PhaseOf
<1>3. Between(r, n) \/ Using(r, n)
  BY <1>2 DEF Posting, Unpacking, Setting, Second
\* The border is flagged as valid, ...
<1>4. valid[r][v]
  <2>1. CASE Using(r, n)
    <3>1. n = i /\ FlagsAt(r, i + 1, {})
      BY <2>1 DEF Using
    <3>2. ValidAt(v, i + 1)
      <4>1. prog[i] # UpdateOf(v)
        BY <1>1 DEF UpdateOf
      <4>2. ValidAt(v, i + 1) <=>
              ValidAt(v, i) \/ (prog[i].kind \in {"read", "finish"} /\ v \in ToSet(prog[i].vs))
        BY <1>1, <4>1, ValidNext
      <4> QED BY <1>1, <4>2
    <3> QED BY <1>1, <3>1, <3>2 DEF FlagsAt
  <2>2. CASE Between(r, n)
    <3>1. Passing(r, t, n)
      BY <2>2 DEF Between
    <3>2. FlagsAt(r, i, {}) /\ ~ Talks(i)
      <4>1. ~ Talks(i)
        BY <1>1, <3>1, PassingAt
      <4>2. Cur(r, t) = i
        BY <1>1 DEF Cur
      <4> QED BY <3>1, <4>1, <4>2 DEF Passing
    <3> QED BY <1>1, <3>2 DEF FlagsAt, Talks
  <2> QED BY <1>3, <2>1, <2>2
\* ... and the surface is computed as far as the loop needs it.
<1>5. Version(v, Done(r, u)) = Version(v, i)
  <2>1. CASE Using(r, n)
    <3>1. ip[r][u] = i /\ pc[r][u] \in {"loop", "looped"}
      BY <1>1, <2>1 DEF Using
    <3>2. Done(r, u) = i
      BY <1>1, <3>1 DEF Done, Ended
    <3> QED BY <3>2
  <2>2. CASE Between(r, n)
    <3>1. Passing(r, t, n) /\ Passing(r, u, n)
      BY <1>1, <2>2 DEF Between
    <3>0. ASSUME NEW e \in Nat, e <= i, \A q \in e .. i - 1 : prog[q] # UpdateOf(v)
          PROVE  Version(v, e) = Version(v, i)
      <4>1. i \in Nat
        BY <1>1
      <4> HIDE DEF LoopSeesFreshBorders
      <4> QED BY <3>0, <4>1, SameVersion
    <3> PICK j, d : j = ip[r][u] /\ d = Done(r, u)
      OBVIOUS
    <3> SUFFICES Version(v, d) = Version(v, i)
      OBVIOUS
    <3>2. i > n /\ i \in Nat /\ j \in Nat /\ j <= Len(prog) /\ n \in Nat /\ j >= n
      <4>1. i > n /\ i \in Nat
        BY <1>1, <3>1, PassingAt
      <4>2. j \in Nat /\ j <= Len(prog) /\ n \in Nat /\ j >= n
        BY <1>1, <3>1, PassingAt
      <4> QED BY <4>1, <4>2
    <3>3. (\A q \in n + 1 .. i - 1 : Free(q)) /\ ~ Free(i)
      BY <1>1, <3>1, <3>2 DEF Passing, Free
    <3>4. \A q \in n + 1 .. i - 1 : prog[q].kind # "update"
      BY <3>3 DEF Free
    <3>5. d \in {j, j + 1}
      BY DEF Done
    <3>6. CASE j = n /\ pc[r][u] \in Ended
      <4>1. d = n + 1
        BY <3>6 DEF Done
      <4>2. d \in Nat /\ d <= i /\ \A q \in d .. i - 1 : prog[q] # UpdateOf(v)
        BY <3>2, <3>4, <4>1 DEF UpdateOf
      <4> QED BY <3>0, <4>2
    <3>7. CASE j = n /\ n > 0 /\ prog[n].kind = "start"
      <4>1. \A q \in n .. i - 1 : prog[q].kind # "update"
        BY <3>2, <3>4, <3>7
      <4>2. d \in Nat /\ d <= i /\ \A q \in d .. i - 1 : prog[q] # UpdateOf(v)
        BY <3>2, <3>5, <3>7, <4>1 DEF UpdateOf
      <4> QED BY <3>0, <4>2
    <3>8. CASE j > n /\ pc[r][u] \in First(j) /\ \A q \in n + 1 .. j - 1 : Free(q)
      <4>1. j <= i
        <5>1. j > i => i \in n + 1 .. j - 1
          BY <3>2
        <5> QED BY <3>2, <3>3, <3>8, <5>1
      <4>2. CASE j = i
        <5>1. pc[r][u] \notin Ended
          BY <1>1, <3>8, <4>2 DEF First, Ended
        <5>2. d = i
          BY <1>1, <4>2, <5>1 DEF Done
        <5> QED BY <5>2
      <4>3. CASE j < i
        <5>1. d \in Nat /\ d <= i /\ \A q \in d .. i - 1 : q \in n + 1 .. i - 1
          BY <3>2, <3>5, <3>8, <4>3
        <5>2. \A q \in d .. i - 1 : prog[q] # UpdateOf(v)
          BY <3>4, <5>1 DEF UpdateOf
        <5> QED BY <3>0, <5>1, <5>2
      <4> QED BY <3>2, <4>1, <4>2, <4>3
    <3>9. j = n \/ (j > n /\ pc[r][u] \in First(j) /\ \A q \in n + 1 .. j - 1 : Free(q))
      BY <3>1 DEF Passing
    <3>10. j = n => pc[r][u] \in Ended \/ (n > 0 /\ prog[n].kind = "start")
      BY <3>1, <3>2 DEF Passing
    <3> QED BY <3>6, <3>7, <3>8, <3>9, <3>10
  <2> QED BY <1>3, <2>1, <2>2
<1>6. surf[r][v][h] = Version(v, i)
  BY <1>1, <1>5 DEF SurfInv
<1>7. HaloGood(r, v, h, i)
  <2>1. Trusted(r, t, v) /\ HaloOf(r, t) /\ Cur(r, t) = i
    BY <1>1, <1>4 DEF Trusted, HaloCheck, HaloInv, Cur
  <2> QED BY <1>1, <2>1 DEF HaloOf, HaloFine
<1> QED BY <1>6, <1>7 DEF HaloGood

\* The whole invariant: what is in the borders too.
BordersInv == ExchangesInv /\ (nparal_dir > 0 => HaloCheck)

\* borders.cpp and vectors.cpp: whatever is computed, communicated in one go or
\* in two parts, and skipped because the flags say that it is not needed, a loop
\* that reads the border of a vector finds there what the neighbours have computed
\* last, for any number of ranks, threads and operations.
THEOREM LoopSeesFreshBordersHolds == Spec => []LoopSeesFreshBorders
<1>1. Init => BordersInv
  BY InitExchanges, InitNet DEF BordersInv
<1>2. BordersInv /\ [Next]_vars => BordersInv'
  <2> SUFFICES ASSUME BordersInv, [Next]_vars PROVE BordersInv'
    OBVIOUS
  <2>1. ExchangesInv'
    BY ExchangesStep DEF BordersInv
  <2>2. nparal_dir' = nparal_dir
    BY Launching DEF env, nparal_dir
  <2>3. nparal_dir > 0 => HaloCheck'
    BY HaloStep DEF BordersInv, ExchangesInv
  <2> QED BY <2>1, <2>2, <2>3 DEF BordersInv
<1>3. BordersInv => LoopSeesFreshBorders
  <2> SUFFICES ASSUME BordersInv PROVE LoopSeesFreshBorders
    OBVIOUS
  <2>1. CASE nparal_dir > 0
    BY <2>1, LoopRight DEF BordersInv, ExchangesInv
  <2>2. CASE ~ nparal_dir > 0
    BY <2>2 DEF LoopSeesFreshBorders
  <2> QED BY <2>1, <2>2
<1> QED BY <1>1, <1>2, <1>3, PTL DEF Spec

\* What the run checks is an instance of all this: a behaviour of the run is one
\* of Borders, which stands still while the edges are exchanged.
THEOREM RunIsBorders == MCFairSpec => Spec
<1>1. MCInit => Init
  BY DEF MCInit
<1>2. [MCNext]_MCVars => [Next]_vars
  BY DEF MCNext, MCVars
<1> QED BY <1>1, <1>2, PTL DEF MCFairSpec, Spec
=============================================================================
