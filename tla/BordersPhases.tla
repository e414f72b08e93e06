--------------------------- MODULE BordersPhases ----------------------------
(***************************************************************************)
(* Where the threads of a rank are when they exchange borders, for any number *)
(* of ranks, threads and operations, and that they decide alike.           *)
(*                                                                         *)
(* Every thread decides by itself, from the flags of the vectors and from  *)
(* comm_in_prog, whether there is something to communicate; a barrier that *)
(* only some of them come to would be the end.  What makes them agree:     *)
(*                                                                         *)
(*   - the flags are a function of the program: the border of a vector is  *)
(*     valid when operation i begins if one of the operations before it has *)
(*     fetched it and none after that has computed the vector (ValidAt);   *)
(*   - comm_in_prog is set, from what Post marks to what Unpack clears, as *)
(*     long as the program has an exchange in flight (Talking);            *)
(*   - a rank is always in one of six phases, from a barrier to the next   *)
(*     (PhaseOf).  Operations with nothing to communicate have no barrier, so *)
(*     threads between two of them may be several operations apart (Passing). *)
(*                                                                         *)
(* PhaseStep is the theorem of this module: each step, of a thread, of a rank *)
(* or of MPI, leads from a phase to a phase.                               *)
(***************************************************************************)
EXTENDS MCBorders, SequenceTheorems, FiniteSetTheorems, TLAPS

-----------------------------------------------------------------------------
\* What the program says of operation i, whatever the ranks have done so far.
UpdateOf(v) == [kind |-> "update", vs |-> <<v>>]

\* The border of v is valid when i begins.
ValidAt(v, i) ==
  \E j \in 1 .. i - 1 :
    /\ prog[j].kind \in {"read", "finish"} /\ v \in ToSet(prog[j].vs)
    /\ \A k \in j .. i - 1 : prog[k] # UpdateOf(v)

\* Operation i has something to communicate.
Talks(i) == \E v \in ToSet(prog[i].vs) : ~ ValidAt(v, i)

\* Operation i comes between start j and its finish, or is that finish.
Open(j, i) ==
  /\ j \in 1 .. i - 1 /\ prog[j].kind = "start"
  /\ \A k \in j + 1 .. i - 1 : prog[k].kind # "finish"
Talking(i) == {j \in 1 .. i - 1 : Open(j, i) /\ Talks(j)}
CommsOf(i) == {Comm(prog[j]) : j \in Talking(i)}

\* The last exchange of the first n operations.
Exchange(i) == prog[i].kind \in {"start", "read"} /\ Talks(i)
LastX(n) == LET X == {i \in 1 .. n : Exchange(i)} IN IF X = {} THEN 0 ELSE Max(X)

\* Who may call what.
LegalAt(i) ==
  /\ prog[i].kind = "finish" => \E j \in 1 .. i - 1 : Open(j, i) /\ prog[j].vs = prog[i].vs
  /\ \A j \in 1 .. i - 1 : Open(j, i) =>
       \/ prog[i].kind = "finish" /\ prog[i].vs = prog[j].vs
       \/ prog[i].kind = "update" /\ ToSet(prog[i].vs) \cap ToSet(prog[j].vs) = {}
ProgInv == \A i \in 1 .. Len(prog) : LegalAt(i)

-----------------------------------------------------------------------------
\* The threads of a rank, from one barrier to the next.  Operations that do
\* nothing have no barrier, so a thread may be some of them ahead.
Free(i) == prog[i].kind \in {"start", "finish"} /\ ~ Talks(i)

Ended == {"next", "exit"}
Cur(r, t) == IF pc[r][t] \in Ended THEN ip[r][t] + 1 ELSE ip[r][t]

\* The places of operation i before its first barrier.
First(i) ==
  CASE prog[i].kind = "update" -> {"write", "flag", "flag1", "flag2"}
    [] prog[i].kind = "read"   -> IF Talks(i) THEN {"start", "fill", "filled"}
                                  ELSE {"start", "finish", "loop", "looped"}
    [] prog[i].kind = "start"  -> {"start"} \cup (IF Talks(i) THEN {"fill", "filled"} ELSE Ended)
    [] prog[i].kind = "finish" -> {"finish"} \cup (IF Talks(i) THEN {"wait", "waited"} ELSE Ended)

\* The flags of a rank are those the program says, except of vectors W.
FlagsAt(r, i, W) == \A v \in Vects \ W : valid[r][v] <=> ValidAt(v, i)
Marked(r, S) == \A c \in Comms : comm_in_prog[r][c] => c \in S
FlagOf(r, t, n, a) ==  \* from the look at the flag of a vector to the barrier
  /\ pc[r][t] = "flag1" => (valid[r][prog[n].vs[a]] <=> prog[n].kind = "update")
  /\ pc[r][t] = "flag2" => (valid[r][prog[n].vs[a]] <=> prog[n].kind # "update")

\* Thread t is past the barriers of operation n, and of no later one.
Passing(r, t, n) ==
  /\ \/ ip[r][t] = n /\ pc[r][t] \in Ended
     \/ ip[r][t] = n /\ pc[r][t] = "post" /\ n > 0 /\ prog[n].kind = "start" /\ Talks(n)
     \/ /\ ip[r][t] > n /\ pc[r][t] \in First(ip[r][t])
        /\ \A k \in n + 1 .. ip[r][t] - 1 : Free(k)
  /\ FlagsAt(r, Cur(r, t), {})
  /\ pc[r][t] # "post" =>
       /\ Talking(Cur(r, t)) = Talking(n + 1)
       /\ \A c \in CommsOf(n + 1) : comm_in_prog[r][c]
  /\ FlagOf(r, t, ip[r][t], 1)
  /\ pc[r][t] \notin Ended => at[r][t] = 1

Between(r, n) == Marked(r, CommsOf(n + 1)) /\ \A t \in Threads : Passing(r, t, n)

Posting(r, n) ==  \* a read that communicates
  /\ n > 0 /\ prog[n].kind = "read" /\ Talks(n)
  /\ \A t \in Threads :
       /\ ip[r][t] = n /\ at[r][t] = 1 /\ pc[r][t] \in {"post", "finish", "wait", "waited"}
       /\ pc[r][t] # "post" => comm_in_prog[r][Comm(prog[n])]
  /\ FlagsAt(r, n, {}) /\ Marked(r, {Comm(prog[n])})

Fetching(n) == n > 0 /\ prog[n].kind \in {"read", "finish"} /\ Talks(n)

Unpacking(r, n) ==
  /\ Fetching(n)
  /\ \A t \in Threads :
       /\ ip[r][t] = n /\ at[r][t] = 1 /\ pc[r][t] \in {"unpack", "flag", "flag1", "flag2"}
       /\ FlagOf(r, t, n, 1)
       /\ pc[r][t] # "unpack" => Marked(r, {})
  /\ FlagsAt(r, n, {}) /\ Marked(r, {Comm(prog[n])})

Setting(r, n, a) ==
  /\ n > 0 /\ a \in DOMAIN prog[n].vs
  /\ prog[n].kind = "update" \/ Fetching(n)
  /\ \A t \in Threads :
       /\ ip[r][t] = n /\ at[r][t] = a /\ pc[r][t] \in {"setflag", "flag2"}
       /\ FlagOf(r, t, n, a)
  /\ FlagsAt(r, n, {prog[n].vs[b] : b \in 1 .. a})
  /\ \A b \in 1 .. a - 1 : valid[r][prog[n].vs[b]]
  /\ Fetching(n) => Marked(r, {})
  /\ prog[n].kind = "update" =>
       /\ Marked(r, CommsOf(n)) /\ \A c \in CommsOf(n) : comm_in_prog[r][c]

Second(r, n) ==
  /\ Fetching(n) /\ Len(prog[n].vs) = 2
  /\ \A t \in Threads :
       /\ ip[r][t] = n /\ at[r][t] = 2 /\ pc[r][t] \in {"flag", "flag1", "flag2"}
       /\ FlagOf(r, t, n, 2)
  /\ FlagsAt(r, n, {prog[n].vs[1]}) /\ valid[r][prog[n].vs[1]]
  /\ Marked(r, {})

Using(r, n) ==
  /\ Fetching(n) /\ prog[n].kind = "read"
  /\ \A t \in Threads : ip[r][t] = n /\ pc[r][t] \in {"loop", "looped"}
  /\ FlagsAt(r, n + 1, {}) /\ Marked(r, {})

PhaseOf(r) ==
  \E n \in 0 .. Len(prog) :
    \/ Between(r, n) \/ Posting(r, n) \/ Unpacking(r, n) \/ (\E a \in {1, 2} : Setting(r, n, a))
    \/ Second(r, n) \/ Using(r, n)

PhaseCheck == \A r \in Ranks : PhaseOf(r)

-----------------------------------------------------------------------------
\* The grid of ranks, and the operations.
LEMMA Grid ==
  ASSUME nranks \in Nat \ {0}, NEW r \in Ranks, NEW h \in Halves
  PROVE  /\ rank_neigh(r, h) \in Ranks
         /\ \A s \in Ranks : rank_neigh(s, 1 - h) = r <=> rank_neigh(r, h) = s
<1>1. ASSUME NEW s \in Ranks
      PROVE  /\ rank_neigh(s, 1) = (IF s = nranks - 1 THEN 0 ELSE s + 1)
             /\ rank_neigh(s, 0) = (IF s = 0 THEN nranks - 1 ELSE s - 1)
  <2>1. s \in Int /\ 0 <= s /\ s < nranks /\ nranks \in Int /\ nranks > 0
    BY DEF Ranks
  <2>2. s < nranks - 1 => (s + 1) % nranks = s + 1
    BY <2>1
  <2>3. s = nranks - 1 => (s + 1) % nranks = 0
    BY <2>1
  <2>4. s = 0 => (s + nranks - 1) % nranks = nranks - 1
    BY <2>1
  <2>5. s > 0 => (s + nranks - 1) % nranks = s - 1
    BY <2>1
  <2> QED BY <2>1, <2>2, <2>3, <2>4, <2>5 DEF rank_neigh
<1> QED BY <1>1 DEF Ranks, Halves

\* What an operation is made of.
LEMMA Operations ==
  ASSUME NEW o \in Ops
  PROVE  /\ o.kind \in {"read", "start", "finish", "update"}
         /\ o.vs \in {<<EVN>>, <<ODD>>, <<EVN, ODD>>} /\ ToSet(o.vs) \subseteq Vects
         /\ DOMAIN o.vs = 1 .. Len(o.vs) /\ Len(o.vs) \in {1, 2}
         /\ \A a \in DOMAIN o.vs : o.vs[a] \in ToSet(o.vs)
         /\ ToSet(o.vs) = {o.vs[a] : a \in 1 .. Len(o.vs)}
         /\ Len(o.vs) = 1 => ToSet(o.vs) = {o.vs[1]}
         /\ Len(o.vs) = 2 => ToSet(o.vs) = Vects /\ o.vs[1] # o.vs[2] /\ Vects = {o.vs[1], o.vs[2]}
         /\ o.kind = "update" => Len(o.vs) = 1 /\ o = UpdateOf(o.vs[1])
<1>1. /\ o.kind \in {"read", "start", "finish", "update"}
      /\ o.vs \in {<<EVN>>, <<ODD>>, <<EVN, ODD>>}
      /\ o.kind = "update" => o.vs \in {<<EVN>>, <<ODD>>} /\ o = [kind |-> "update", vs |-> o.vs]
  BY BordersAssumption DEF Ops
<1>2. /\ o.vs[1] \in Vects /\ (Len(o.vs) = 2 => o.vs = <<EVN, ODD>>) /\ Len(o.vs) \in {1, 2}
      /\ Len(o.vs) = 1 => o.vs = <<o.vs[1]>>
      /\ DOMAIN o.vs = 1 .. Len(o.vs) /\ \A a \in DOMAIN o.vs : o.vs[a] \in Vects
  BY <1>1 DEF Vects
<1>3. ToSet(o.vs) = {o.vs[a] : a \in 1 .. Len(o.vs)}
  BY <1>2 DEF ToSet
<1>4. Len(o.vs) = 2 => ToSet(o.vs) = Vects /\ o.vs[1] # o.vs[2] /\ Vects = {o.vs[1], o.vs[2]}
  BY <1>2, BordersAssumption DEF ToSet, Vects
<1>5. Len(o.vs) = 1 => ToSet(o.vs) = {o.vs[1]}
  BY <1>2, <1>3
<1>6. o.kind = "update" => Len(o.vs) = 1 /\ o = UpdateOf(o.vs[1])
  BY <1>1 DEF UpdateOf
<1>7. \A a \in DOMAIN o.vs : o.vs[a] \in ToSet(o.vs)
  BY <1>2, <1>3
<1> QED BY <1>1, <1>2, <1>3, <1>4, <1>5, <1>6, <1>7

\* A set of numbers below some bound has a greatest one.
LEMMA Greatest ==
  ASSUME NEW n \in Nat, NEW X, X \subseteq 1 .. n, X # {}
  PROVE  Max(X) \in X /\ \A x \in X : x <= Max(X)
<1> DEFINE R == StrictSubsetOrdering(1 .. n)
           T == {x + 1 .. n : x \in X}
<1>1. T \subseteq FiniteSubsetsOf(1 .. n) /\ T # {} /\ IsWellFoundedOn(R, FiniteSubsetsOf(1 .. n))
  <2>1. IsFiniteSet(1 .. n)
    BY FS_Interval
  <2>2. FiniteSubsetsOf(1 .. n) = SUBSET (1 .. n)
    BY <2>1, FS_FiniteSubsetsOfFinite
  <2>3. T \subseteq SUBSET (1 .. n) /\ T # {}
    <3>1. \A x \in X : x \in Nat /\ x + 1 .. n \subseteq 1 .. n
      OBVIOUS
    <3> QED BY <3>1
  <2>4. IsWellFoundedOn(R, FiniteSubsetsOf(1 .. n))
    BY FS_StrictSubsetOrderingWellFounded
  <2> HIDE DEF T, R
  <2> QED BY <2>2, <2>3, <2>4
<1>2. PICK y \in T : \A z \in T : <<z, y>> \notin R
  <2> HIDE DEF T, R
  <2> QED BY <1>1, WFMin
<1>3. PICK x \in X : y = x + 1 .. n
  OBVIOUS
<1>4. ASSUME NEW z \in X, z > x PROVE FALSE
  <2>1. z + 1 .. n \subseteq y /\ z \in y /\ z \notin z + 1 .. n /\ y \subseteq 1 .. n
    BY <1>3, <1>4
  <2>2. <<z + 1 .. n, y>> \in R
    BY <2>1 DEF StrictSubsetOrdering
  <2> QED BY <1>2, <2>2
<1>5. \A z \in X : x >= z
  BY <1>4
<1> QED BY <1>5 DEF Max

-----------------------------------------------------------------------------
\* The program: what is said of an operation depends on those before it only, ...
LEMMA Told ==
  ASSUME prog \in Seq(Ops), \A k \in 1 .. Len(prog) : prog'[k] = prog[k],
         NEW i \in Nat, i <= Len(prog) + 1
  PROVE  /\ \A v : ValidAt(v, i)' <=> ValidAt(v, i)
         /\ \A v : Version(v, i)' = Version(v, i)
         /\ \A j : Open(j, i)' <=> Open(j, i)
         /\ i <= Len(prog) /\ i > 0 =>
              /\ Talks(i)' <=> Talks(i)
              /\ Exchange(i)' <=> Exchange(i)
              /\ LegalAt(i)' <=> LegalAt(i)
<1>1. Len(prog) \in Nat /\ \A k \in 1 .. i - 1 : prog'[k] = prog[k]
  OBVIOUS
<1>2. ASSUME NEW v PROVE ValidAt(v, i)' <=> ValidAt(v, i)
  <2>1. UpdateOf(v)' = UpdateOf(v)
    BY DEF UpdateOf
  <2>2. \A j \in 1 .. i - 1 : \A k \in j .. i - 1 : prog'[k] = prog[k]
    BY <1>1
  <2>3. \A j \in 1 .. i - 1 : ToSet(prog'[j].vs) = ToSet(prog[j].vs)
    BY <1>1
  <2> QED BY <1>1, <2>1, <2>2, <2>3 DEF ValidAt
<1>3. ASSUME NEW v PROVE Version(v, i)' = Version(v, i)
  BY <1>1 DEF Version
<1>4. ASSUME NEW j PROVE Open(j, i)' <=> Open(j, i)
  <2>1. \A k \in j + 1 .. i - 1 : j \in 1 .. i - 1 => prog'[k] = prog[k]
    BY <1>1
  <2> QED BY <1>1, <2>1 DEF Open
<1>5. CASE i <= Len(prog) /\ i > 0
  <2>1. prog'[i] = prog[i]
    BY <1>5
  <2>2. Talks(i)' <=> Talks(i)
    BY <1>2, <2>1 DEF Talks, ToSet
  <2>3. Exchange(i)' <=> Exchange(i)
    BY <2>1, <2>2 DEF Exchange
  <2>4. LegalAt(i)' <=> LegalAt(i)
    <3>1. \A j \in 1 .. i - 1 : prog'[j] = prog[j] /\ (Open(j, i)' <=> Open(j, i))
      BY <1>1, <1>4
    <3> QED BY <2>1, <3>1 DEF LegalAt
  <2> QED BY <1>2, <1>3, <1>4, <2>2, <2>3, <2>4
<1> QED BY <1>2, <1>3, <1>4, <1>5

\* ... and changes with the next one like this.
LEMMA ValidNext ==
  ASSUME prog \in Seq(Ops), NEW i \in 1 .. Len(prog), NEW v
  PROVE  /\ prog[i] = UpdateOf(v) => ~ ValidAt(v, i + 1)
         /\ prog[i] # UpdateOf(v) =>
              (ValidAt(v, i + 1) <=>
                 \/ ValidAt(v, i)
                 \/ prog[i].kind \in {"read", "finish"} /\ v \in ToSet(prog[i].vs))
<1>1. i \in Nat /\ i + 1 - 1 = i /\ i \in 1 .. i
  OBVIOUS
<1>2. CASE prog[i] = UpdateOf(v)
  <2>1. \A j \in 1 .. i : i \in j .. i
    OBVIOUS
  <2> QED BY <1>1, <1>2, <2>1 DEF ValidAt
<1>3. CASE prog[i] # UpdateOf(v)
  <2>1. ASSUME ValidAt(v, i) PROVE ValidAt(v, i + 1)
    <3>1. PICK j \in 1 .. i - 1 : /\ prog[j].kind \in {"read", "finish"} /\ v \in ToSet(prog[j].vs)
                                  /\ \A k \in j .. i - 1 : prog[k] # UpdateOf(v)
      BY <2>1 DEF ValidAt
    <3>2. \A k \in j .. i : prog[k] # UpdateOf(v)
      BY <1>3, <3>1
    <3> QED BY <1>1, <3>1, <3>2 DEF ValidAt
  <2>2. ASSUME prog[i].kind \in {"read", "finish"} /\ v \in ToSet(prog[i].vs)
        PROVE  ValidAt(v, i + 1)
    <3>1. \A k \in i .. i : prog[k] # UpdateOf(v)
      BY <1>3
    <3> QED BY <1>1, <2>2, <3>1 DEF ValidAt
  <2>3. ASSUME ValidAt(v, i + 1), ~ (prog[i].kind \in {"read", "finish"} /\ v \in ToSet(prog[i].vs))
        PROVE  ValidAt(v, i)
    <3>1. PICK j \in 1 .. i : /\ prog[j].kind \in {"read", "finish"} /\ v \in ToSet(prog[j].vs)
                              /\ \A k \in j .. i : prog[k] # UpdateOf(v)
      BY <1>1, <2>3 DEF ValidAt
    <3>2. j \in 1 .. i - 1 /\ \A k \in j .. i - 1 : prog[k] # UpdateOf(v)
      BY <2>3, <3>1
    <3> QED BY <3>1, <3>2 DEF ValidAt
  <2> QED BY <1>3, <2>1, <2>2, <2>3
<1> QED BY <1>2, <1>3

\* What an operation computes, the next one finds.
LEMMA VersionNext ==
  ASSUME prog \in Seq(Ops), NEW i \in 1 .. Len(prog), NEW v
  PROVE  Version(v, i + 1) = IF prog[i] = UpdateOf(v) THEN i ELSE Version(v, i)
<1> DEFINE W(n) == {j \in 1 .. n - 1 : prog[j] = UpdateOf(v)}
<1>1. \A n : Version(v, n) = IF W(n) = {} THEN 0 ELSE Max(W(n))
  BY DEF Version, UpdateOf
<1>2. CASE prog[i] = UpdateOf(v)
  <2>1. i \in W(i + 1) /\ \A x \in W(i + 1) : x <= i /\ x \in Int
    BY <1>2
  <2> HIDE DEF W
  <2>2. Max(W(i + 1)) = i
    BY <2>1 DEF Max
  <2> QED BY <1>1, <1>2, <2>1, <2>2
<1>3. CASE prog[i] # UpdateOf(v)
  <2>1. W(i + 1) = W(i)
    BY <1>3
  <2> HIDE DEF W
  <2> QED BY <1>1, <1>3, <2>1
<1> QED BY <1>2, <1>3

\* The exchanges.
LEMMA Exchanges ==
  ASSUME prog \in Seq(Ops), NEW n \in Nat, n <= Len(prog)
  PROVE  /\ LastX(n) \in 0 .. n /\ LastX(n) \in Nat
         /\ LastX(n) > 0 => Exchange(LastX(n))
         /\ \A k \in 1 .. n : Exchange(k) => k <= LastX(n)
         /\ n > 0 => LastX(n) = IF Exchange(n) THEN n ELSE LastX(n - 1)
<1> DEFINE X(m) == {i \in 1 .. m : Exchange(i)}
<1>1. \A m : LastX(m) = IF X(m) = {} THEN 0 ELSE Max(X(m))
  BY DEF LastX
<1>2. ASSUME X(n) # {} PROVE Max(X(n)) \in X(n) /\ \A x \in X(n) : x <= Max(X(n))
  <2>1. X(n) \subseteq 1 .. n
    OBVIOUS
  <2> HIDE DEF X
  <2> QED BY <1>2, <2>1, Greatest
<1>3. n > 0 => LastX(n) = IF Exchange(n) THEN n ELSE LastX(n - 1)
  <2> SUFFICES ASSUME n > 0 PROVE LastX(n) = IF Exchange(n) THEN n ELSE LastX(n - 1)
    OBVIOUS
  <2>1. CASE Exchange(n)
    <3>1. n \in X(n) /\ \A x \in X(n) : x <= n /\ x \in Int
      BY <2>1
    <3> HIDE DEF X
    <3>2. Max(X(n)) = n
      BY <1>2, <3>1
    <3> QED BY <1>1, <2>1, <3>1, <3>2
  <2>2. CASE ~ Exchange(n)
    <3>1. X(n) = X(n - 1)
      BY <2>2
    <3> HIDE DEF X
    <3> QED BY <1>1, <2>2, <3>1
  <2> QED BY <2>1, <2>2
<1>4. /\ LastX(n) \in 0 .. n
      /\ LastX(n) > 0 => Exchange(LastX(n))
      /\ \A k \in 1 .. n : Exchange(k) => k <= LastX(n)
  <2>1. CASE X(n) = {}
    <3>1. LastX(n) = 0 /\ \A k \in 1 .. n : ~ Exchange(k)
      BY <1>1, <2>1
    <3> QED BY <3>1
  <2>2. CASE X(n) # {}
    BY <1>1, <1>2, <2>2
  <2> QED BY <2>1, <2>2
<1> QED BY <1>3, <1>4

\* While a communication is in flight the vectors it is for are left alone.
LEMMA InFlightOnly ==
  ASSUME prog \in Seq(Ops), ProgInv, NEW i \in 1 .. Len(prog) + 1, NEW j \in 1 .. i - 1, Open(j, i)
  PROVE  /\ \A k \in j + 1 .. i - 1 :
              prog[k].kind = "update" /\ ToSet(prog[k].vs) \cap ToSet(prog[j].vs) = {}
         /\ \A k \in 1 .. i - 1 : Open(k, i) => k = j
         /\ \A v \in ToSet(prog[j].vs) : ValidAt(v, i) <=> ValidAt(v, j)
         /\ Talks(j) => LastX(i - 1) = j
<1>1. /\ Len(prog) \in Nat /\ i \in Nat /\ j \in Nat /\ prog[j].kind = "start"
      /\ \A k \in j + 1 .. i - 1 : prog[k].kind # "finish"
  BY DEF Open
<1>2. ASSUME NEW k \in j + 1 .. i - 1
      PROVE  prog[k].kind = "update" /\ ToSet(prog[k].vs) \cap ToSet(prog[j].vs) = {}
  <2>1. Open(j, k) /\ j \in 1 .. k - 1 /\ k \in 1 .. Len(prog)
    BY <1>1 DEF Open
  <2>2. LegalAt(k) /\ prog[k].kind # "finish"
    BY <1>1, <2>1 DEF ProgInv
  <2> QED BY <2>1, <2>2 DEF LegalAt
<1>3. ASSUME NEW k \in 1 .. i - 1, Open(k, i) PROVE k = j
  <2>1. prog[k].kind = "start"
    BY <1>3 DEF Open
  <2>2. k \notin j + 1 .. i - 1
    BY <1>2, <2>1
  <2>3. CASE k < j
    <3>1. Open(k, j) /\ k \in 1 .. j - 1 /\ j \in 1 .. Len(prog)
      BY <1>1, <1>3, <2>3 DEF Open
    <3>2. LegalAt(j)
      BY <3>1 DEF ProgInv
    <3> QED BY <1>1, <3>1, <3>2 DEF LegalAt
  <2> QED BY <1>1, <2>2, <2>3
<1>4. ASSUME NEW v \in ToSet(prog[j].vs) PROVE ValidAt(v, i) <=> ValidAt(v, j)
  <2>1. \A k \in j .. i - 1 : prog[k] # UpdateOf(v) /\ prog[k].kind \notin {"read", "finish"}
    <3>1. ASSUME NEW k \in j + 1 .. i - 1 PROVE prog[k] # UpdateOf(v)
      <4>1. v \in ToSet(UpdateOf(v).vs)
        BY DEF UpdateOf, ToSet
      <4> QED BY <1>2, <4>1
    <3>2. prog[j].kind # UpdateOf(v).kind
      BY <1>1 DEF UpdateOf
    <3>3. \A k \in j .. i - 1 : k = j \/ k \in j + 1 .. i - 1
      BY <1>1
    <3> QED BY <1>1, <1>2, <3>1, <3>2, <3>3
  <2>2. ASSUME ValidAt(v, j) PROVE ValidAt(v, i)
    <3>1. PICK m \in 1 .. j - 1 : /\ prog[m].kind \in {"read", "finish"} /\ v \in ToSet(prog[m].vs)
                                  /\ \A k \in m .. j - 1 : prog[k] # UpdateOf(v)
      BY <2>2 DEF ValidAt
    <3>2. \A k \in m .. i - 1 : k \in m .. j - 1 \/ k \in j .. i - 1
      BY <1>1
    <3>3. m \in 1 .. i - 1 /\ \A k \in m .. i - 1 : prog[k] # UpdateOf(v)
      BY <1>1, <2>1, <3>1, <3>2
    <3> QED BY <3>1, <3>3 DEF ValidAt
  <2>3. ASSUME ValidAt(v, i) PROVE ValidAt(v, j)
    <3>1. PICK m \in 1 .. i - 1 : /\ prog[m].kind \in {"read", "finish"} /\ v \in ToSet(prog[m].vs)
                                  /\ \A k \in m .. i - 1 : prog[k] # UpdateOf(v)
      BY <2>3 DEF ValidAt
    <3>2. m \in 1 .. j - 1 /\ \A k \in m .. j - 1 : k \in m .. i - 1
      BY <1>1, <2>1, <3>1
    <3> QED BY <3>1, <3>2 DEF ValidAt
  <2> QED BY <2>2, <2>3
<1>5. ASSUME Talks(j) PROVE LastX(i - 1) = j
  <2>1. i - 1 \in Nat /\ i - 1 <= Len(prog) /\ j \in 1 .. i - 1 /\ Exchange(j)
    BY <1>1, <1>5 DEF Exchange
  <2>2. LastX(i - 1) >= j /\ LastX(i - 1) \in 0 .. i - 1 /\ Exchange(LastX(i - 1))
    BY <2>1, Exchanges
  <2>3. LastX(i - 1) \notin j + 1 .. i - 1
    BY <1>2, <2>2 DEF Exchange
  <2> QED BY <1>1, <2>2, <2>3
<1> QED BY <1>2, <1>3, <1>4, <1>5

\* What is in flight before and after operation i.
LEMMA TalkingNext ==
  ASSUME prog \in Seq(Ops), ProgInv, NEW i \in 1 .. Len(prog)
  PROVE  /\ prog[i].kind = "start" => Talking(i) = {} /\ Talking(i + 1) = IF Talks(i) THEN {i} ELSE {}
         /\ prog[i].kind = "read" => Talking(i) = {} /\ Talking(i + 1) = {}
         /\ prog[i].kind = "finish" => Talking(i + 1) = {} /\ (Talks(i) <=> Talking(i) # {})
         /\ prog[i].kind = "update" => Talking(i + 1) = Talking(i)
         /\ \A j \in Talking(i) :
              /\ Talking(i) = {j} /\ LastX(i - 1) = j /\ LastX(i) = j
              /\ j \in 1 .. i - 1 /\ prog[j].kind = "start" /\ Talks(j)
              /\ prog[i].kind = "finish" => prog[i].vs = prog[j].vs
              /\ prog[i].kind = "update" => ToSet(prog[i].vs) \cap ToSet(prog[j].vs) = {}
<1>1. Len(prog) \in Nat /\ i \in Nat /\ i \in 1 .. Len(prog) + 1 /\ i + 1 \in 1 .. Len(prog) + 1
      /\ i + 1 - 1 = i /\ LegalAt(i)
  BY DEF ProgInv
<1>2. ASSUME NEW j \in Talking(i)
      PROVE  /\ Talking(i) = {j} /\ LastX(i - 1) = j /\ Open(j, i) /\ j \in 1 .. i - 1
             /\ prog[j].kind = "start" /\ Talks(j)
             /\ \/ prog[i].kind = "finish" /\ prog[i].vs = prog[j].vs
                \/ prog[i].kind = "update" /\ ToSet(prog[i].vs) \cap ToSet(prog[j].vs) = {}
  <2>1. j \in 1 .. i - 1 /\ Open(j, i) /\ Talks(j)
    BY DEF Talking
  <2>2. LastX(i - 1) = j /\ \A k \in 1 .. i - 1 : Open(k, i) => k = j
    BY <1>1, <2>1, InFlightOnly
  <2>3. Talking(i) = {j}
    BY <2>1, <2>2 DEF Talking
  <2> QED BY <1>1, <2>1, <2>2, <2>3 DEF LegalAt, Open
<1>3. \A j \in Talking(i) : LastX(i) = j
  <2>1. \A j \in Talking(i) : ~ Exchange(i)
    BY <1>2 DEF Exchange
  <2>2. LastX(i) = IF Exchange(i) THEN i ELSE LastX(i - 1)
    BY <1>1, Exchanges
  <2> QED BY <1>2, <2>1, <2>2
<1>4. prog[i].kind \in {"start", "read"} => Talking(i) = {}
  BY <1>2
<1>5. \A j \in 1 .. i - 1 : Open(j, i + 1) <=> Open(j, i) /\ prog[i].kind # "finish"
  <2> SUFFICES ASSUME NEW j \in 1 .. i - 1
               PROVE  Open(j, i + 1) <=> Open(j, i) /\ prog[i].kind # "finish"
    OBVIOUS
  <2>1. \A k \in j + 1 .. i : k = i \/ k \in j + 1 .. i - 1
    BY <1>1
  <2>2. i \in j + 1 .. i /\ j \in 1 .. i /\ \A k \in j + 1 .. i - 1 : k \in j + 1 .. i
    BY <1>1
  <2> QED BY <1>1, <2>1, <2>2 DEF Open
<1>6. Open(i, i + 1) <=> prog[i].kind = "start"
  <2>1. \A k : k \notin i + 1 .. i + 1 - 1
    BY <1>1
  <2> QED BY <1>1, <2>1 DEF Open
<1>7. \A j : j \in Talking(i + 1) <=> \/ j \in Talking(i) /\ prog[i].kind # "finish"
                                      \/ j = i /\ prog[i].kind = "start" /\ Talks(i)
  <2>1. \A j : j \in 1 .. i <=> j \in 1 .. i - 1 \/ j = i
    BY <1>1
  <2> QED BY <1>1, <1>5, <1>6, <2>1 DEF Talking
<1>8. prog[i].kind = "finish" => (Talks(i) <=> Talking(i) # {})
  <2> SUFFICES ASSUME prog[i].kind = "finish" PROVE Talks(i) <=> Talking(i) # {}
    OBVIOUS
  <2>1. PICK j \in 1 .. i - 1 : Open(j, i) /\ prog[j].vs = prog[i].vs
    BY <1>1 DEF LegalAt
  <2>2. \A v \in ToSet(prog[j].vs) : ValidAt(v, i) <=> ValidAt(v, j)
    BY <1>1, <2>1, InFlightOnly
  <2>3. Talks(i) <=> Talks(j)
    BY <2>1, <2>2 DEF Talks
  <2>4. \A k \in 1 .. i - 1 : Open(k, i) => k = j
    BY <1>1, <2>1, InFlightOnly
  <2>5. Talking(i) # {} <=> Talks(j)
    BY <2>1, <2>4 DEF Talking
  <2> QED BY <2>3, <2>5
<1>9. prog[i].kind \in {"read", "start", "finish", "update"}
  BY Operations
<1>10. prog[i].kind = "start" => Talking(i) = {} /\ Talking(i + 1) = IF Talks(i) THEN {i} ELSE {}
  <2>1. CASE prog[i].kind = "start" /\ Talks(i)
    <3>1. Talking(i) = {}
      BY <1>4, <2>1
    <3>2. \A j : j \in Talking(i + 1) <=> j = i
      BY <1>7, <2>1, <3>1
    <3> QED BY <2>1, <3>1, <3>2
  <2>2. CASE prog[i].kind = "start" /\ ~ Talks(i)
    BY <1>4, <1>7, <2>2
  <2> QED BY <2>1, <2>2
<1>11. prog[i].kind = "read" => Talking(i) = {} /\ Talking(i + 1) = {}
  BY <1>4, <1>7
<1>12. prog[i].kind = "finish" => Talking(i + 1) = {}
  BY <1>7
<1>13. prog[i].kind = "update" => Talking(i + 1) = Talking(i)
  BY <1>7
<1>14. \A j \in Talking(i) :
         /\ prog[i].kind = "finish" => prog[i].vs = prog[j].vs
         /\ prog[i].kind = "update" => ToSet(prog[i].vs) \cap ToSet(prog[j].vs) = {}
  BY <1>2
<1> QED BY <1>2, <1>3, <1>8, <1>10, <1>11, <1>12, <1>13, <1>14

-----------------------------------------------------------------------------
\* Types: those of TypeOK, and of all that is data there.
Pieces == [from : Nat, half : Halves, ver : UNION {[S -> Nat] : S \in SUBSET Vects}]
Parcels == [half : Halves, piece : Pieces, taken : BOOLEAN]

Placed ==
  /\ ip \in [Ranks -> [Threads -> 0 .. nops]] /\ pc \in [Ranks -> [Threads -> PCs]]
  /\ at \in [Ranks -> [Threads -> {1, 2}]]
  /\ prog \in Seq(Ops) /\ Len(prog) <= nops
  /\ \A r \in Ranks, t \in Threads :
       /\ ip[r][t] <= Len(prog)
       /\ pc[r][t] \notin Ended => ip[r][t] > 0 /\ at[r][t] \in DOMAIN op(r, t).vs
Filled ==
  /\ surf \in [Ranks -> [Vects -> [Halves -> Nat]]]
  /\ halo \in [Ranks -> [Vects -> [Halves -> Pieces]]]
  /\ valid \in [Ranks -> [Vects -> BOOLEAN]]
  /\ send_buf \in [Ranks -> [Halves -> Pieces]] /\ recv_buf \in [Ranks -> [Halves -> Pieces]]
  /\ comm_in_prog \in [Ranks -> [Comms -> BOOLEAN]]
  /\ sends \in [Ranks -> [Ranks -> [Comms -> Seq(Parcels)]]]
  /\ recvs \in [Ranks -> [Ranks -> [Comms -> Seq(Halves)]]]
Launched ==
  [nranks |-> nranks, nthreads |-> nthreads, buffering |-> buffering, nops |-> nops] \in Layouts
Typed == Launched /\ Placed /\ Filled

\* How the program is launched.
LEMMA Sizes ==
  ASSUME Launched
  PROVE  /\ nranks \in Nat \ {0} /\ nthreads \in Nat \ {0} /\ buffering \in BOOLEAN /\ nops \in Nat
         /\ Ranks \subseteq Nat /\ Threads \subseteq Nat /\ 0 \in Ranks /\ 0 \in Threads
         /\ \A h \in Halves : h % nthreads \in Threads /\ h \in Chunk(h % nthreads)
<1>1. nranks \in Nat \ {0} /\ nthreads \in Nat \ {0} /\ buffering \in BOOLEAN /\ nops \in Nat
  BY BordersAssumption DEF Launched
<1>2. \A h \in Halves : h % nthreads \in Threads
  BY <1>1 DEF Halves, Threads
<1> QED BY <1>1, <1>2 DEF Ranks, Threads, Chunk

\* The step of one thread.
LEMMA Going ==
  ASSUME Placed, NEW r \in Ranks, NEW t \in Threads, NEW l \in PCs, Goto(r, t, l), UNCHANGED env
  PROVE  /\ Ranks' = Ranks /\ Threads' = Threads
         /\ pc' \in [Ranks -> [Threads -> PCs]] /\ pc'[r][t] = l
         /\ \A q \in Ranks, u \in Threads : q # r \/ u # t => pc'[q][u] = pc[q][u]
BY DEF Placed, Goto, env, Ranks, Threads

\* Where a thread is.
LEMMA AtOp ==
  ASSUME Placed, NEW r \in Ranks, NEW t \in Threads
  PROVE  /\ ip[r][t] \in Nat /\ ip[r][t] <= Len(prog) /\ Len(prog) \in Nat /\ at[r][t] \in {1, 2}
         /\ pc[r][t] \in PCs
         /\ pc[r][t] \notin Ended =>
              /\ ip[r][t] \in 1 .. Len(prog) /\ op(r, t) = prog[ip[r][t]] /\ op(r, t) \in Ops
              /\ at[r][t] \in DOMAIN op(r, t).vs
<1>1. /\ ip[r][t] \in Nat /\ ip[r][t] <= Len(prog) /\ Len(prog) \in Nat /\ at[r][t] \in {1, 2}
      /\ pc[r][t] \in PCs
  BY DEF Placed
<1>2. pc[r][t] \notin Ended => ip[r][t] \in 1 .. Len(prog) /\ at[r][t] \in DOMAIN op(r, t).vs
  BY <1>1 DEF Placed
<1>3. \A i \in 1 .. Len(prog) : prog[i] \in Ops
  BY DEF Placed
<1> QED BY <1>1, <1>2, <1>3 DEF op

\* Steps at which a thread stays in its operation.
LEMMA StaysPlaced ==
  ASSUME Placed, NEW r \in Ranks, NEW t \in Threads, NEW l \in PCs, Goto(r, t, l), UNCHANGED env,
         UNCHANGED where, pc[r][t] \in Ended => l \in Ended
  PROVE  Placed'
<1> USE DEF where, env
<1>1. /\ Ranks' = Ranks /\ Threads' = Threads
      /\ pc' \in [Ranks -> [Threads -> PCs]] /\ pc'[r][t] = l
      /\ \A q \in Ranks, u \in Threads : q # r \/ u # t => pc'[q][u] = pc[q][u]
  BY Going
<1>2. \A q \in Ranks, u \in Threads : pc'[q][u] \notin Ended => pc[q][u] \notin Ended
  BY <1>1
<1>3. \A q, u : op(q, u)' = op(q, u)
  BY DEF op
<1> QED BY <1>1, <1>2, <1>3 DEF Placed

\* The neighbours a rank talks to, and what comm_start says to one of them.
LEMMA Messaging ==
  ASSUME NEW r, NEW s
  PROVE  /\ From(r, s) \in Seq(Halves) /\ To(r, s) \in Seq(Halves)
         /\ Len(To(r, s)) = Len(Messages(r, s)) /\ Messages(r, s) \in Seq(Parcels)
         /\ \A i \in 1 .. Len(Messages(r, s)) :
              Messages(r, s)[i] = [half |-> 1 - To(r, s)[i], piece |-> NoPiece, taken |-> FALSE]
<1>1. \A S : InOrder(S) \in Seq(Halves)
  <2>1. <<>> \in Seq(Halves) /\ <<0>> \in Seq(Halves) /\ <<1>> \in Seq(Halves)
    BY DEF Halves
  <2>2. \A p, q \in Seq(Halves) : p \o q \in Seq(Halves)
    BY ConcatProperties
  <2> QED BY <2>1, <2>2 DEF InOrder
<1>2. From(r, s) \in Seq(Halves) /\ To(r, s) \in Seq(Halves)
  BY <1>1 DEF From, To
<1>3. NoPiece \in Pieces
  <2>1. [v \in {} |-> 0] \in [{} -> Nat] /\ {} \in SUBSET Vects
    OBVIOUS
  <2> QED BY <2>1 DEF NoPiece, Pieces, Halves
<1>4. /\ DOMAIN To(r, s) = 1 .. Len(To(r, s)) /\ Len(To(r, s)) \in Nat
      /\ \A i \in DOMAIN To(r, s) : To(r, s)[i] \in Halves /\ 1 - To(r, s)[i] \in Halves
  BY <1>2 DEF Halves
<1>5. \A i \in DOMAIN To(r, s) :
        [half |-> 1 - To(r, s)[i], piece |-> NoPiece, taken |-> FALSE] \in Parcels
  BY <1>3, <1>4 DEF Parcels
<1>6. Messages(r, s) \in Seq(Parcels) /\ Len(To(r, s)) = Len(Messages(r, s))
  BY <1>4, <1>5 DEF Messages
<1> QED BY <1>2, <1>4, <1>6 DEF Messages

\* What is sent is a piece of a surface.
LEMMA PieceType ==
  ASSUME Filled, NEW r \in Ranks, Ranks \subseteq Nat, NEW h \in Halves, NEW o \in Ops
  PROVE  Piece(r, h, o.vs) \in Pieces
<1>1. ToSet(o.vs) \subseteq Vects
  BY Operations
<1>2. [v \in ToSet(o.vs) |-> surf[r][v][h]] \in [ToSet(o.vs) -> Nat]
  BY <1>1 DEF Filled
<1> QED BY <1>1, <1>2 DEF Piece, Pieces

\* Threads are always at some operation of the program, ...
LEMMA PlacedStep == Typed /\ [Next]_vars => Placed'
<1> SUFFICES ASSUME Typed, [Next]_vars PROVE Placed'
  OBVIOUS
<1>0. /\ nranks \in Nat \ {0} /\ nthreads \in Nat \ {0} /\ nops \in Nat /\ Len(prog) \in Nat
      /\ Placed /\ Ended \subseteq PCs /\ Waiting \subseteq PCs \ Ended
  BY Sizes DEF Typed, Placed, Ended, PCs, Waiting
<1>1. CASE UNCHANGED vars
  BY <1>1 DEF vars, env, where, Typed, Placed, Ranks, Threads, op
<1>2. ASSUME NEW r \in Ranks, NEW t \in Threads, Advance(r, t) PROVE Placed'
  <2>1. CASE Call(r, t)
    <3>1. PICK i \in 0 .. Len(prog) : i = ip[r][t] /\ i < nops
      BY <1>0, <2>1 DEF Call, Placed
    <3>2. /\ prog' \in Seq(Ops) /\ Len(prog') \in Nat /\ Len(prog) <= Len(prog') /\ i + 1 <= Len(prog')
          /\ Len(prog') <= nops /\ \A k \in 1 .. Len(prog) : prog'[k] = prog[k]
      <4>1. CASE i < Len(prog)
        BY <1>0, <2>1, <3>1, <4>1 DEF Call, Placed
      <4>2. CASE i = Len(prog)
        <5>1. PICK o \in Ops : prog' = Append(prog, o)
          BY <2>1, <3>1, <4>2 DEF Call
        <5> QED BY <1>0, <3>1, <4>2, <5>1 DEF Placed
      <4> QED BY <3>1, <4>1, <4>2
    <3>3. PICK o \in Ops : o = prog'[i + 1]
      BY <3>1, <3>2
    <3>4. o.kind \in {"read", "start", "finish", "update"} /\ 1 \in DOMAIN o.vs
      BY Operations
    <3>5. Entry(o) \in PCs
      BY <3>4 DEF Entry, PCs
    <3>6. Goto(r, t, Entry(o)) /\ UNCHANGED env
      BY <2>1, <3>1, <3>3 DEF Call
    <3>7. /\ Ranks' = Ranks /\ Threads' = Threads
          /\ pc' \in [Ranks -> [Threads -> PCs]]
          /\ \A q \in Ranks, u \in Threads : q # r \/ u # t => pc'[q][u] = pc[q][u]
      BY <1>0, <3>5, <3>6, Going
    <3>8. ip' = [ip EXCEPT ![r][t] = i + 1] /\ at' = [at EXCEPT ![r][t] = 1] /\ nops' = nops
      BY <2>1, <3>1 DEF Call, env
    <3>9. /\ ip' \in [Ranks -> [Threads -> 0 .. nops]] /\ ip'[r][t] = i + 1
          /\ \A q \in Ranks, u \in Threads : q # r \/ u # t => ip'[q][u] = ip[q][u]
      BY <1>0, <3>1, <3>8 DEF Placed
    <3>10. /\ at' \in [Ranks -> [Threads -> {1, 2}]] /\ at'[r][t] = 1
           /\ \A q \in Ranks, u \in Threads : q # r \/ u # t => at'[q][u] = at[q][u]
      BY <1>0, <3>8 DEF Placed
    <3>11. ASSUME NEW q \in Ranks, NEW u \in Threads
           PROVE  /\ ip'[q][u] <= Len(prog')
                  /\ pc'[q][u] \notin Ended => ip'[q][u] > 0 /\ at'[q][u] \in DOMAIN prog'[ip'[q][u]].vs
      <4>1. CASE q = r /\ u = t
        BY <3>1, <3>2, <3>3, <3>4, <3>9, <3>10, <4>1
      <4>2. CASE q # r \/ u # t
        <5>1. pc'[q][u] = pc[q][u] /\ ip'[q][u] = ip[q][u] /\ at'[q][u] = at[q][u]
          BY <3>7, <3>9, <3>10, <4>2
        <5>2. ip[q][u] \in Nat /\ ip[q][u] <= Len(prog)
          BY <1>0, AtOp
        <5>3. pc[q][u] \notin Ended => ip[q][u] \in 1 .. Len(prog) /\ at[q][u] \in DOMAIN prog[ip[q][u]].vs
          BY <1>0, AtOp
        <5> QED BY <3>2, <5>1, <5>2, <5>3
      <4> QED BY <4>1, <4>2
    <3> QED BY <3>2, <3>7, <3>8, <3>9, <3>10, <3>11 DEF Placed, op
  <2>2. CASE Exit(r, t)
    <3>1. Goto(r, t, "exit") /\ UNCHANGED env /\ UNCHANGED where /\ "exit" \in PCs /\ "exit" \in Ended
      BY <2>2 DEF Exit, PCs, Ended
    <3> QED BY <1>0, <3>1, StaysPlaced
  <2>3. CASE ~ Call(r, t) /\ ~ Exit(r, t)
    <3>1. PICK l \in PCs : Goto(r, t, l) /\ UNCHANGED env /\ UNCHANGED where /\ pc[r][t] \notin Ended
      <4>1. CASE Write(r, t)
        BY <4>1 DEF Write, PCs, Ended
      <4>2. CASE Start(r, t)
        BY <4>2 DEF Start, PCs, Ended
      <4>3. CASE Fill(r, t)
        BY <4>3 DEF Fill, AfterFill, PCs, Waiting, Ended
      <4>4. CASE Post(r, t)
        BY <4>4 DEF Post, PCs, Ended
      <4>5. CASE Finish(r, t)
        BY <4>5 DEF Finish, PCs, Ended
      <4>6. CASE Wait(r, t)
        BY <4>6 DEF Wait, PCs, Waiting, Ended
      <4>7. CASE Unpack(r, t)
        BY <4>7 DEF Unpack, PCs, Ended
      <4>8. CASE Flag(r, t)
        BY <4>8 DEF Flag, PCs, Waiting, Ended
      <4>9. CASE SetFlag(r, t)
        BY <4>9 DEF SetFlag, PCs, Waiting, Ended
      <4>10. CASE Loop(r, t)
        BY <4>10 DEF Loop, PCs, Waiting, Ended
      <4> QED BY <1>2, <2>3, <4>1, <4>2, <4>3, <4>4, <4>5, <4>6, <4>7, <4>8, <4>9, <4>10 DEF Advance
    <3> QED BY <1>0, <3>1, StaysPlaced
  <2> QED BY <2>1, <2>2, <2>3
<1>3. ASSUME NEW r \in Ranks, Barrier(r) PROVE Placed'
  <2>1. /\ UNCHANGED env /\ prog' = prog /\ ip' = ip /\ nops' = nops
        /\ Ranks' = Ranks /\ Threads' = Threads
        /\ \A t \in Threads : pc[r][t] \in Waiting
    BY <1>3 DEF Barrier, env, Ranks, Threads
  <2>2. \A t \in Threads : Past(r, t) \in PCs
    BY <2>1 DEF Past, Waiting, PCs
  <2>3. /\ pc' \in [Ranks -> [Threads -> PCs]] /\ \A t \in Threads : pc'[r][t] = Past(r, t)
        /\ \A q \in Ranks \ {r}, u \in Threads : pc'[q][u] = pc[q][u]
    <3>1. pc' = [pc EXCEPT ![r] = [t \in Threads |-> Past(r, t)]]
      BY <1>3 DEF Barrier
    <3> QED BY <1>0, <2>2, <3>1 DEF Placed
  <2>4. \A t \in Threads : Past(r, t) = "flag" => at[r][t] = 1 /\ 2 \in DOMAIN op(r, t).vs
    <3> SUFFICES ASSUME NEW t \in Threads, Past(r, t) = "flag" PROVE at[r][t] = 1 /\ 2 \in DOMAIN op(r, t).vs
      OBVIOUS
    <3>1. at[r][t] < Len(op(r, t).vs)
      BY <2>1 DEF Past, Waiting
    <3>2. pc[r][t] \notin Ended /\ op(r, t) \in Ops /\ at[r][t] \in {1, 2}
      BY <1>0, <2>1, AtOp
    <3>3. Len(op(r, t).vs) \in {1, 2} /\ DOMAIN op(r, t).vs = 1 .. Len(op(r, t).vs)
      BY <3>2, Operations
    <3>4. PICK n \in {1, 2}, a \in {1, 2} : n = Len(op(r, t).vs) /\ a = at[r][t]
      BY <3>2, <3>3
    <3>5. a = 1 /\ n = 2
      <4>1. a < n
        BY <3>1, <3>4
      <4> QED BY <4>1
    <3>6. DOMAIN op(r, t).vs = 1 .. 2
      BY <3>3, <3>4, <3>5
    <3> QED BY <3>4, <3>5, <3>6
  <2>5. /\ at' \in [Ranks -> [Threads -> {1, 2}]]
        /\ \A t \in Threads : at'[r][t] = IF Past(r, t) = "flag" THEN 2 ELSE at[r][t]
        /\ \A q \in Ranks \ {r} : at'[q] = at[q]
    <3>1. at' = [at EXCEPT ![r] = [t \in Threads |->
              IF Past(r, t) = "flag" THEN @[t] + 1 ELSE @[t]]]
      BY <1>3 DEF Barrier
    <3>2. \A t \in Threads : (IF Past(r, t) = "flag" THEN at[r][t] + 1 ELSE at[r][t]) =
                             (IF Past(r, t) = "flag" THEN 2 ELSE at[r][t])
      BY <2>4
    <3>3. \A t \in Threads : (IF Past(r, t) = "flag" THEN 2 ELSE at[r][t]) \in {1, 2}
      BY <1>0 DEF Placed
    <3> QED BY <1>0, <3>1, <3>2, <3>3 DEF Placed
  <2>6. ASSUME NEW q \in Ranks, NEW u \in Threads
        PROVE  /\ ip[q][u] <= Len(prog)
               /\ pc'[q][u] \notin Ended => ip[q][u] > 0 /\ at'[q][u] \in DOMAIN op(q, u).vs
    <3>1. CASE q # r
      BY <1>0, <2>3, <2>5, <3>1 DEF Placed
    <3>2. CASE q = r
      <4>1. pc[r][u] \notin Ended
        BY <1>0, <2>1
      <4> QED BY <1>0, <2>4, <2>5, <3>2, <4>1 DEF Placed
    <3> QED BY <3>1, <3>2
  <2>7. \A q, u : op(q, u)' = op(q, u)
    BY <2>1 DEF op
  <2> QED BY <1>0, <2>1, <2>3, <2>5, <2>6, <2>7 DEF Placed
<1>4. ASSUME NEW r \in Ranks, NEW s \in Ranks, NEW c \in Comms, Deliver(r, s, c) PROVE Placed'
  BY <1>4 DEF Deliver, env, where, Typed, Placed, Ranks, Threads, op
<1> QED BY <1>1, <1>2, <1>3, <1>4 DEF Next, Progress, Transport, Terminated

\* What each step of the communication does to the messages of two ranks.
LEMMA PostNet ==
  ASSUME Typed, NEW r \in Ranks, NEW t \in Threads, Post(r, t), NEW c, c = Comm(op(r, t))
  PROVE  /\ sends' \in [Ranks -> [Ranks -> [Comms -> Seq(Parcels)]]]
         /\ recvs' \in [Ranks -> [Ranks -> [Comms -> Seq(Halves)]]]
         /\ t # 0 => UNCHANGED net
         /\ t = 0 => \A q, s \in Ranks, d \in Comms :
              /\ recvs'[q][s][d] = IF q = r /\ d = c THEN recvs[q][s][d] \o From(r, s)
                                   ELSE recvs[q][s][d]
              /\ sends'[q][s][d] = IF q = r /\ d = c THEN sends[q][s][d] \o Messages(r, s)
                                   ELSE sends[q][s][d]
<1> DEFINE x == Comm(op(r, t))
<1>1. x \in Comms /\ c = x
  BY DEF Comm, Comms
<1>2. /\ sends \in [Ranks -> [Ranks -> [Comms -> Seq(Parcels)]]]
      /\ recvs \in [Ranks -> [Ranks -> [Comms -> Seq(Halves)]]]
  BY DEF Typed, Filled
<1>3. CASE t # 0
  <2>1. UNCHANGED net
    BY <1>3 DEF Post
  <2> QED BY <1>2, <1>3, <2>1 DEF net
<1>4. CASE t = 0
  <2> DEFINE R(s) == [d \in Comms |-> IF d = x THEN recvs[r][s][d] \o From(r, s)
                                      ELSE recvs[r][s][d]]
             S(s) == [d \in Comms |-> IF d = x THEN sends[r][s][d] \o Messages(r, s)
                                      ELSE sends[r][s][d]]
  <2>1. /\ recvs' = [recvs EXCEPT ![r] = [s \in Ranks |-> R(s)]]
        /\ sends' = [sends EXCEPT ![r] = [s \in Ranks |-> S(s)]]
    BY <1>4 DEF Post
  <2> HIDE DEF x
  <2>2. \A s : From(r, s) \in Seq(Halves) /\ Messages(r, s) \in Seq(Parcels)
    BY Messaging
  <2>3. \A p, q \in Seq(Halves) : p \o q \in Seq(Halves)
    BY ConcatProperties
  <2>4. \A p, q \in Seq(Parcels) : p \o q \in Seq(Parcels)
    BY ConcatProperties
  <2>5. \A s \in Ranks : R(s) \in [Comms -> Seq(Halves)] /\ S(s) \in [Comms -> Seq(Parcels)]
    BY <1>1, <1>2, <2>2, <2>3, <2>4
  <2>6. \A s \in Ranks, d \in Comms :
          /\ R(s)[d] = IF d = x THEN recvs[r][s][d] \o From(r, s) ELSE recvs[r][s][d]
          /\ S(s)[d] = IF d = x THEN sends[r][s][d] \o Messages(r, s) ELSE sends[r][s][d]
    BY <1>1, <1>2
  <2> HIDE DEF R, S
  <2>7. /\ sends' \in [Ranks -> [Ranks -> [Comms -> Seq(Parcels)]]]
        /\ recvs' \in [Ranks -> [Ranks -> [Comms -> Seq(Halves)]]]
    BY <1>2, <2>1, <2>5
  <2>8. /\ \A s \in Ranks : recvs'[r][s] = R(s) /\ sends'[r][s] = S(s)
        /\ \A q \in Ranks \ {r} : recvs'[q] = recvs[q] /\ sends'[q] = sends[q]
    BY <1>2, <2>1
  <2>9. \A q, s \in Ranks, d \in Comms :
          /\ recvs'[q][s][d] = IF q = r /\ d = x THEN recvs[q][s][d] \o From(r, s)
                               ELSE recvs[q][s][d]
          /\ sends'[q][s][d] = IF q = r /\ d = x THEN sends[q][s][d] \o Messages(r, s)
                               ELSE sends[q][s][d]
    <3> SUFFICES ASSUME NEW q \in Ranks, NEW s \in Ranks, NEW d \in Comms
                 PROVE  /\ recvs'[q][s][d] = IF q = r /\ d = x THEN recvs[q][s][d] \o From(r, s)
                                             ELSE recvs[q][s][d]
                        /\ sends'[q][s][d] = IF q = r /\ d = x THEN sends[q][s][d] \o Messages(r, s)
                                             ELSE sends[q][s][d]
      OBVIOUS
    <3>1. CASE q = r
      BY <2>6, <2>8, <3>1
    <3>2. CASE q # r
      BY <2>8, <3>2
    <3> QED BY <3>1, <3>2
  <2> QED BY <1>1, <1>4, <2>7, <2>9
<1> QED BY <1>3, <1>4

\* ... each message carries a piece, ...
LEMMA ContentsType ==
  ASSUME Filled, NEW r \in Ranks, NEW m \in Parcels
  PROVE  Contents(r, m) \in Pieces
BY DEF Filled, Contents, Parcels

\* What the master does who waits, ...
LEMMA WaitNet ==
  ASSUME Typed, NEW r \in Ranks, NEW t \in Threads, Wait(r, t), NEW c, c = Comm(op(r, t))
  PROVE  /\ sends' \in [Ranks -> [Ranks -> [Comms -> Seq(Parcels)]]]
         /\ ~ (t = 0 /\ comm_in_prog[r][c]) => sends' = sends
         /\ t = 0 /\ comm_in_prog[r][c] =>
              /\ \A s \in Ranks :
                   recvs[r][s][c] = <<>> /\ (buffering \/ sends[r][s][c] = <<>>)
              /\ \A q, s \in Ranks, d \in Comms :
                   q # r \/ d # c => sends'[q][s][d] = sends[q][s][d]
              /\ \A s \in Ranks :
                   /\ Len(sends'[r][s][c]) = Len(sends[r][s][c])
                   /\ \A k \in 1 .. Len(sends[r][s][c]) :
                        sends'[r][s][c][k] = [half |-> sends[r][s][c][k].half,
                                              piece |-> Contents(r, sends[r][s][c][k]), taken |-> TRUE]
<1>1. c \in Comms /\ sends \in [Ranks -> [Ranks -> [Comms -> Seq(Parcels)]]] /\ Filled
  BY DEF Comm, Comms, Typed, Filled
<1>2. CASE ~ (t = 0 /\ comm_in_prog[r][c])
  BY <1>1, <1>2 DEF Wait
<1>3. CASE t = 0 /\ comm_in_prog[r][c]
  <2> DEFINE Leave(q) == [i \in DOMAIN q |->
                            [half |-> q[i].half, piece |-> Contents(r, q[i]), taken |-> TRUE]]
             x == Comm(op(r, t))
             S(s) == [d \in Comms |-> IF d = x THEN Leave(sends[r][s][d]) ELSE sends[r][s][d]]
  <2>1. sends' = [sends EXCEPT ![r] = [s \in Ranks |-> S(s)]]
    BY <1>3 DEF Wait
  <2>2. ASSUME NEW q \in Seq(Parcels)
        PROVE  /\ Leave(q) \in Seq(Parcels) /\ Len(Leave(q)) = Len(q)
               /\ \A k \in 1 .. Len(q) : Leave(q)[k] =
                    [half |-> q[k].half, piece |-> Contents(r, q[k]), taken |-> TRUE]
    <3>1. \A k \in 1 .. Len(q) :
            q[k] \in Parcels /\ q[k].half \in Halves /\ Contents(r, q[k]) \in Pieces
      <4>1. \A m \in Parcels : m.half \in Halves
        BY DEF Parcels
      <4>2. \A m \in Parcels : Contents(r, m) \in Pieces
        BY <1>1, ContentsType
      <4> QED BY <4>1, <4>2
    <3>3. \A k \in 1 .. Len(q) :
            [half |-> q[k].half, piece |-> Contents(r, q[k]), taken |-> TRUE] \in Parcels
      BY <3>1 DEF Parcels
    <3>4. DOMAIN q = 1 .. Len(q) /\ Len(q) \in Nat
      OBVIOUS
    <3>5. Leave(q) = [k \in 1 .. Len(q) |->
                        [half |-> q[k].half, piece |-> Contents(r, q[k]), taken |-> TRUE]]
      BY <3>4
    <3> HIDE DEF Leave
    <3> QED BY <3>3, <3>4, <3>5
  <2> HIDE DEF Leave
  <2>0. x = c
    OBVIOUS
  <2> HIDE DEF x
  <2>3. \A s \in Ranks : /\ S(s) \in [Comms -> Seq(Parcels)] /\ S(s)[c] = Leave(sends[r][s][c])
                          /\ \A d \in Comms \ {c} : S(s)[d] = sends[r][s][d]
    BY <1>1, <2>0, <2>2
  <2> HIDE DEF S
  <2>4. sends' \in [Ranks -> [Ranks -> [Comms -> Seq(Parcels)]]]
    BY <1>1, <2>1, <2>3
  <2>5. /\ \A q, s \in Ranks, d \in Comms :
             q # r \/ d # c => sends'[q][s][d] = sends[q][s][d]
        /\ \A s \in Ranks : sends'[r][s][c] = Leave(sends[r][s][c])
    <3>1. /\ \A s \in Ranks : sends'[r][s] = S(s)
          /\ \A q \in Ranks \ {r} : sends'[q] = sends[q]
      BY <1>1, <2>1
    <3> QED BY <2>3, <3>1
  <2>6. \A s \in Ranks : recvs[r][s][c] = <<>> /\ (buffering \/ sends[r][s][c] = <<>>)
    BY <1>3 DEF Wait
  <2>7. \A s \in Ranks : sends[r][s][c] \in Seq(Parcels)
    BY <1>1
  <2> QED BY <1>3, <2>2, <2>4, <2>5, <2>6, <2>7
<1> QED BY <1>2, <1>3

\* ... and what MPI does.
LEMMA DeliverNet ==
  ASSUME Typed, NEW r \in Ranks, NEW s \in Ranks, NEW c \in Comms, Deliver(r, s, c)
  PROVE  /\ sends[r][s][c] \in Seq(Parcels) /\ recvs[s][r][c] \in Seq(Halves)
         /\ Len(sends[r][s][c]) > 0 /\ Len(recvs[s][r][c]) > 0
         /\ sends' \in [Ranks -> [Ranks -> [Comms -> Seq(Parcels)]]]
         /\ recvs' \in [Ranks -> [Ranks -> [Comms -> Seq(Halves)]]]
         /\ recv_buf' \in [Ranks -> [Halves -> Pieces]]
         /\ sends'[r][s][c] = Tail(sends[r][s][c]) /\ recvs'[s][r][c] = Tail(recvs[s][r][c])
         /\ \A a, b \in Ranks, d \in Comms :
              /\ a # r \/ b # s \/ d # c => sends'[a][b][d] = sends[a][b][d]
              /\ a # s \/ b # r \/ d # c => recvs'[a][b][d] = recvs[a][b][d]
         /\ recvs[s][r][c][1] \in Halves
         /\ recv_buf'[s][recvs[s][r][c][1]] = Contents(r, sends[r][s][c][1])
         /\ \A a \in Ranks, h \in Halves :
              a # s \/ h # recvs[s][r][c][1] => recv_buf'[a][h] = recv_buf[a][h]
<1> DEFINE q == sends[r][s][c]
           p == recvs[s][r][c]
<1>1. /\ sends \in [Ranks -> [Ranks -> [Comms -> Seq(Parcels)]]]
      /\ recvs \in [Ranks -> [Ranks -> [Comms -> Seq(Halves)]]]
      /\ recv_buf \in [Ranks -> [Halves -> Pieces]] /\ Filled
  BY DEF Typed, Filled
<1>2. q \in Seq(Parcels) /\ p \in Seq(Halves) /\ Len(q) > 0 /\ Len(p) > 0
  BY <1>1 DEF Deliver
<1>3. /\ recv_buf' = [recv_buf EXCEPT ![s][Head(p)] = Contents(r, Head(q))]
      /\ sends' = [sends EXCEPT ![r][s][c] = Tail(q)]
      /\ recvs' = [recvs EXCEPT ![s][r][c] = Tail(p)]
  BY DEF Deliver
<1>4. /\ Head(p) = p[1] /\ Head(q) = q[1] /\ p[1] \in Halves /\ q[1] \in Parcels
      /\ Tail(p) \in Seq(Halves) /\ Tail(q) \in Seq(Parcels)
  BY <1>2
<1>5. Contents(r, q[1]) \in Pieces
  BY <1>1, <1>4, ContentsType
<1> HIDE DEF p, q
<1>6. /\ recv_buf' \in [Ranks -> [Halves -> Pieces]] /\ recv_buf'[s][p[1]] = Contents(r, q[1])
      /\ \A a \in Ranks, h \in Halves : a # s \/ h # p[1] => recv_buf'[a][h] = recv_buf[a][h]
  BY <1>1, <1>3, <1>4, <1>5
<1>7. /\ sends' \in [Ranks -> [Ranks -> [Comms -> Seq(Parcels)]]] /\ sends'[r][s][c] = Tail(q)
      /\ \A a, b \in Ranks, d \in Comms :
           a # r \/ b # s \/ d # c => sends'[a][b][d] = sends[a][b][d]
  <2>1. sends' = [sends EXCEPT ![r] = [sends[r] EXCEPT ![s] = [sends[r][s] EXCEPT ![c] = Tail(q)]]]
    BY <1>1, <1>3
  <2>2. PICK f : f = [sends[r][s] EXCEPT ![c] = Tail(q)]
    OBVIOUS
  <2>3. f \in [Comms -> Seq(Parcels)] /\ f[c] = Tail(q) /\ \A d \in Comms \ {c} : f[d] = sends[r][s][d]
    BY <1>1, <1>4, <2>2
  <2>4. PICK g : g = [sends[r] EXCEPT ![s] = f]
    OBVIOUS
  <2>5. g \in [Ranks -> [Comms -> Seq(Parcels)]] /\ g[s] = f /\ \A b \in Ranks \ {s} : g[b] = sends[r][b]
    BY <1>1, <2>3, <2>4
  <2>6. sends' = [sends EXCEPT ![r] = g]
    BY <2>1, <2>2, <2>4
  <2>7. /\ sends' \in [Ranks -> [Ranks -> [Comms -> Seq(Parcels)]]] /\ sends'[r] = g
        /\ \A a \in Ranks \ {r} : sends'[a] = sends[a]
    BY <1>1, <2>5, <2>6
  <2> QED BY <2>3, <2>5, <2>7
<1>8. /\ recvs' \in [Ranks -> [Ranks -> [Comms -> Seq(Halves)]]] /\ recvs'[s][r][c] = Tail(p)
      /\ \A a, b \in Ranks, d \in Comms :
           a # s \/ b # r \/ d # c => recvs'[a][b][d] = recvs[a][b][d]
  <2>1. recvs' = [recvs EXCEPT ![s] = [recvs[s] EXCEPT ![r] = [recvs[s][r] EXCEPT ![c] = Tail(p)]]]
    BY <1>1, <1>3
  <2>2. PICK f : f = [recvs[s][r] EXCEPT ![c] = Tail(p)]
    OBVIOUS
  <2>3. f \in [Comms -> Seq(Halves)] /\ f[c] = Tail(p) /\ \A d \in Comms \ {c} : f[d] = recvs[s][r][d]
    BY <1>1, <1>4, <2>2
  <2>4. PICK g : g = [recvs[s] EXCEPT ![r] = f]
    OBVIOUS
  <2>5. g \in [Ranks -> [Comms -> Seq(Halves)]] /\ g[r] = f /\ \A b \in Ranks \ {r} : g[b] = recvs[s][b]
    BY <1>1, <2>3, <2>4
  <2>6. recvs' = [recvs EXCEPT ![s] = g]
    BY <2>1, <2>2, <2>4
  <2>7. /\ recvs' \in [Ranks -> [Ranks -> [Comms -> Seq(Halves)]]] /\ recvs'[s] = g
        /\ \A a \in Ranks \ {s} : recvs'[a] = recvs[a]
    BY <1>1, <2>5, <2>6
  <2> QED BY <2>3, <2>5, <2>7
<1>9. sends'[r][s][c] = Tail(sends[r][s][c]) /\ recvs'[s][r][c] = Tail(recvs[s][r][c])
  BY <1>7, <1>8 DEF p, q
<1>10. /\ sends[r][s][c] \in Seq(Parcels) /\ recvs[s][r][c] \in Seq(Halves)
       /\ Len(sends[r][s][c]) > 0 /\ Len(recvs[s][r][c]) > 0
  BY <1>2 DEF p, q
<1>11. /\ recvs[s][r][c][1] \in Halves /\ recv_buf'[s][recvs[s][r][c][1]] = Contents(r, sends[r][s][c][1])
       /\ \A a \in Ranks, h \in Halves :
            a # s \/ h # recvs[s][r][c][1] => recv_buf'[a][h] = recv_buf[a][h]
  BY <1>4, <1>6 DEF p, q
<1>12. /\ sends' \in [Ranks -> [Ranks -> [Comms -> Seq(Parcels)]]]
       /\ recvs' \in [Ranks -> [Ranks -> [Comms -> Seq(Halves)]]]
       /\ recv_buf' \in [Ranks -> [Halves -> Pieces]]
  BY <1>6, <1>7, <1>8
<1>13. \A a, b \in Ranks, d \in Comms :
         /\ a # r \/ b # s \/ d # c => sends'[a][b][d] = sends[a][b][d]
         /\ a # s \/ b # r \/ d # c => recvs'[a][b][d] = recvs[a][b][d]
  <2> TAKE a, b \in Ranks, d \in Comms
  <2>1. a # r \/ b # s \/ d # c => sends'[a][b][d] = sends[a][b][d]
    BY <1>7
  <2>2. a # s \/ b # r \/ d # c => recvs'[a][b][d] = recvs[a][b][d]
    BY <1>8
  <2> QED BY <2>1, <2>2
<1> QED BY <1>9, <1>10, <1>11, <1>12, <1>13

\* Nothing changes how the program was launched, and calls alone the program.
LEMMA Launching ==
  ASSUME [Next]_vars
  PROVE  /\ UNCHANGED env
         /\ (\A r \in Ranks, t \in Threads : ~ Call(r, t)) => prog' = prog
<1>1. CASE UNCHANGED vars
  BY <1>1 DEF vars, where
<1>2. ASSUME NEW r \in Ranks, NEW t \in Threads, Advance(r, t)
      PROVE  UNCHANGED env /\ (~ Call(r, t) => prog' = prog)
  <2>1. CASE Call(r, t)
    BY <2>1 DEF Call
  <2>2. CASE Exit(r, t) \/ Write(r, t) \/ Start(r, t) \/ Fill(r, t) \/ Post(r, t) \/ Finish(r, t)
    BY <2>2 DEF Exit, Write, Start, Fill, Post, Finish, where
  <2>3. CASE Wait(r, t) \/ Unpack(r, t) \/ Flag(r, t) \/ SetFlag(r, t) \/ Loop(r, t)
    BY <2>3 DEF Wait, Unpack, Flag, SetFlag, Loop, where
  <2> QED BY <1>2, <2>1, <2>2, <2>3 DEF Advance
<1>3. ASSUME NEW r \in Ranks, Barrier(r) PROVE UNCHANGED env /\ prog' = prog
  BY <1>3 DEF Barrier
<1>4. ASSUME NEW r \in Ranks, NEW s \in Ranks, NEW c \in Comms, Deliver(r, s, c)
      PROVE  UNCHANGED env /\ prog' = prog
  BY <1>4 DEF Deliver, where
<1> QED BY <1>1, <1>2, <1>3, <1>4 DEF Next, Progress, Transport, Terminated

\* ... and the variables have their types.
LEMMA FilledStep == Typed /\ [Next]_vars => Filled'
<1> SUFFICES ASSUME Typed, [Next]_vars PROVE Filled'
  OBVIOUS
<1>0. /\ nranks \in Nat \ {0} /\ Ranks \subseteq Nat /\ Placed /\ Filled
      /\ Ranks' = Ranks /\ Threads' = Threads
  <2>1. UNCHANGED env
    BY Launching
  <2> QED BY <2>1, Sizes DEF Typed, env, Ranks, Threads
<1>1. CASE UNCHANGED vars
  BY <1>0, <1>1 DEF vars, data, bufs, net, Filled
<1>2. ASSUME NEW r \in Ranks, NEW t \in Threads, Advance(r, t) PROVE Filled'
  <2>0. /\ pc[r][t] \notin Ended => op(r, t) \in Ops /\ ip[r][t] \in Nat
        /\ at[r][t] \in {1, 2}
    BY <1>0, AtOp
  <2>1. CASE Call(r, t) \/ Exit(r, t) \/ Start(r, t) \/ Finish(r, t) \/ Flag(r, t) \/ Loop(r, t)
    <3>1. UNCHANGED <<data, valid, bufs, comm_in_prog, net>>
      BY <2>1 DEF Call, Exit, Start, Finish, Flag, Loop
    <3> QED BY <1>0, <3>1 DEF data, bufs, net, Filled
  <2>2. CASE Write(r, t)
    <3>1. PICK v : /\ v = op(r, t).vs[1]
                   /\ surf' = [surf EXCEPT ![r][v] = [h \in Halves |->
                                 IF h \in Chunk(t) THEN ip[r][t] ELSE surf[r][v][h]]]
      BY <2>2 DEF Write
    <3>2. ip[r][t] \in Nat /\ op(r, t) \in Ops
      BY <2>0, <2>2 DEF Write, Ended
    <3>3. v \in Vects
      BY <3>1, <3>2, Operations
    <3>4. surf' \in [Ranks -> [Vects -> [Halves -> Nat]]]
      <4>1. surf[r][v] \in [Halves -> Nat]
        BY <1>0, <3>3 DEF Filled
      <4>2. [h \in Halves |-> IF h \in Chunk(t) THEN ip[r][t] ELSE surf[r][v][h]] \in [Halves -> Nat]
        BY <3>2, <4>1
      <4> QED BY <1>0, <3>1, <3>3, <4>2 DEF Filled
    <3>5. UNCHANGED <<halo, valid, bufs, comm_in_prog, net>>
      BY <2>2 DEF Write
    <3> QED BY <1>0, <3>4, <3>5 DEF bufs, net, Filled
  <2>3. CASE Fill(r, t)
    <3>1. send_buf' = [send_buf EXCEPT ![r] = [h \in Halves |->
            IF h \in Chunk(t) THEN Piece(r, h, op(r, t).vs) ELSE send_buf[r][h]]]
      BY <2>3 DEF Fill
    <3>2. op(r, t) \in Ops
      BY <2>0, <2>3 DEF Fill, Ended
    <3>3. \A h \in Halves : Piece(r, h, op(r, t).vs) \in Pieces
      BY <1>0, <3>2, PieceType
    <3>4. send_buf' \in [Ranks -> [Halves -> Pieces]]
      BY <1>0, <3>1, <3>3 DEF Filled
    <3>5. UNCHANGED <<data, valid, recv_buf, comm_in_prog, net>>
      BY <2>3 DEF Fill
    <3> QED BY <1>0, <3>4, <3>5 DEF data, net, Filled
  <2>4. CASE Post(r, t)
    <3>1. /\ sends' \in [Ranks -> [Ranks -> [Comms -> Seq(Parcels)]]]
          /\ recvs' \in [Ranks -> [Ranks -> [Comms -> Seq(Halves)]]]
      BY <2>4, PostNet
    <3>2. UNCHANGED <<data, valid, bufs>> /\ comm_in_prog' = [comm_in_prog EXCEPT ![r][Comm(op(r, t))] = TRUE]
      BY <2>4 DEF Post
    <3>3. comm_in_prog' \in [Ranks -> [Comms -> BOOLEAN]]
      BY <1>0, <3>2 DEF Filled
    <3> QED BY <1>0, <3>1, <3>2, <3>3 DEF data, bufs, Filled
  <2>5. CASE Wait(r, t)
    <3>1. sends' \in [Ranks -> [Ranks -> [Comms -> Seq(Parcels)]]]
      BY <2>5, WaitNet
    <3>2. UNCHANGED <<data, valid, bufs, comm_in_prog, recvs>>
      BY <2>5 DEF Wait
    <3> QED BY <1>0, <3>1, <3>2 DEF data, bufs, Filled
  <2>6. CASE Unpack(r, t)
    <3> DEFINE mine == IF Len(op(r, t).vs) = 2 THEN Chunk(t) ELSE IF t = 0 THEN Halves ELSE {}
    <3>1. /\ halo' = [halo EXCEPT ![r] = [v \in Vects |-> [h \in Halves |->
                IF v \in ToSet(op(r, t).vs) /\ h \in mine THEN recv_buf[r][h] ELSE halo[r][v][h]]]]
          /\ comm_in_prog' = [comm_in_prog EXCEPT ![r][Comm(op(r, t))] = FALSE]
          /\ UNCHANGED <<surf, valid, bufs, net>>
      BY <2>6 DEF Unpack
    <3> HIDE DEF mine
    <3>2. comm_in_prog' \in [Ranks -> [Comms -> BOOLEAN]]
      BY <1>0, <3>1 DEF Filled
    <3>3. halo' \in [Ranks -> [Vects -> [Halves -> Pieces]]]
      <4>1. \A v \in Vects, h \in Halves : halo[r][v][h] \in Pieces /\ recv_buf[r][h] \in Pieces
        BY <1>0 DEF Filled
      <4> QED BY <1>0, <3>1, <4>1 DEF Filled
    <3> QED BY <1>0, <3>1, <3>2, <3>3 DEF bufs, net, Filled
  <2>7. CASE SetFlag(r, t)
    <3>1. valid' = [valid EXCEPT ![r][op(r, t).vs[at[r][t]]] = (op(r, t).kind # "update")]
      BY <2>7 DEF SetFlag
    <3>2. (op(r, t).kind # "update") \in BOOLEAN
      OBVIOUS
    <3>3. valid' \in [Ranks -> [Vects -> BOOLEAN]]
      BY <1>0, <3>1, <3>2 DEF Filled
    <3>4. UNCHANGED <<data, bufs, comm_in_prog, net>>
      BY <2>7 DEF SetFlag
    <3> QED BY <1>0, <3>3, <3>4 DEF data, bufs, net, Filled
  <2> QED BY <1>2, <2>1, <2>2, <2>3, <2>4, <2>5, <2>6, <2>7 DEF Advance
<1>3. ASSUME NEW r \in Ranks, Barrier(r) PROVE Filled'
  <2>1. UNCHANGED <<data, valid, bufs, comm_in_prog, net>>
    BY <1>3 DEF Barrier
  <2> QED BY <1>0, <2>1 DEF data, bufs, net, Filled
<1>4. ASSUME NEW r \in Ranks, NEW s \in Ranks, NEW c \in Comms, Deliver(r, s, c) PROVE Filled'
  <2>1. UNCHANGED <<data, valid, send_buf, comm_in_prog>>
    BY <1>4 DEF Deliver
  <2>2. /\ sends' \in [Ranks -> [Ranks -> [Comms -> Seq(Parcels)]]]
        /\ recvs' \in [Ranks -> [Ranks -> [Comms -> Seq(Halves)]]]
        /\ recv_buf' \in [Ranks -> [Halves -> Pieces]]
    BY <1>4, DeliverNet
  <2> QED BY <1>0, <2>1, <2>2 DEF data, Filled
<1> QED BY <1>1, <1>2, <1>3, <1>4 DEF Next, Progress, Transport, Terminated

\* The program grows by what Legal allows.
LEMMA Grows ==
  ASSUME Typed, [Next]_vars
  PROVE  /\ \/ prog' = prog
            \/ \E o \in Ops : prog' = Append(prog, o) /\ Legal(o)
         /\ prog \in Seq(Ops) /\ prog' \in Seq(Ops) /\ Len(prog) <= Len(prog')
         /\ \A k \in 1 .. Len(prog) : prog'[k] = prog[k]
<1>1. \/ prog' = prog
      \/ \E o \in Ops : prog' = Append(prog, o) /\ Legal(o)
  <2>1. ASSUME NEW r \in Ranks, NEW t \in Threads, Call(r, t)
        PROVE  prog' = prog \/ \E o \in Ops : prog' = Append(prog, o) /\ Legal(o)
    <3>1. CASE ip[r][t] < Len(prog)
      BY <2>1, <3>1 DEF Call
    <3>2. CASE ~ ip[r][t] < Len(prog)
      BY <2>1, <3>2 DEF Call
    <3> QED BY <3>1, <3>2
  <2>2. CASE \A r \in Ranks, t \in Threads : ~ Call(r, t)
    BY <2>2, Launching
  <2> QED BY <2>1, <2>2
<1>2. prog \in Seq(Ops) /\ Len(prog) \in Nat
  BY DEF Typed, Placed
<1>3. CASE prog' = prog
  BY <1>1, <1>2, <1>3
<1>4. ASSUME NEW o \in Ops, prog' = Append(prog, o)
      PROVE  /\ prog' \in Seq(Ops) /\ Len(prog) <= Len(prog')
             /\ \A k \in 1 .. Len(prog) : prog'[k] = prog[k]
  BY <1>2, <1>4
<1> QED BY <1>1, <1>2, <1>3, <1>4

\* The program stays one that callers may run.
LEMMA ProgStep == Typed /\ ProgInv /\ [Next]_vars => ProgInv'
<1> SUFFICES ASSUME Typed, ProgInv, [Next]_vars, NEW i \in (1 .. Len(prog'))
             PROVE  LegalAt(i)'
  BY DEF ProgInv
<1>1. /\ prog \in Seq(Ops) /\ prog' \in Seq(Ops) /\ Len(prog) <= Len(prog') /\ Len(prog) \in Nat
      /\ Len(prog') \in Nat /\ i \in Nat
      /\ \A k \in 1 .. Len(prog) : prog'[k] = prog[k]
  BY Grows
<1>2. CASE i <= Len(prog)
  <2>1. i \in 1 .. Len(prog) /\ i <= Len(prog) + 1
    BY <1>1, <1>2
  <2> QED BY <1>1, <2>1, Told DEF ProgInv
<1>3. CASE i > Len(prog)
  <2>1. PICK o \in Ops : prog' = Append(prog, o) /\ Legal(o)
    BY <1>1, <1>3, Grows
  <2>2. i = Len(prog) + 1 /\ prog'[i] = o
    BY <1>1, <1>3, <2>1
  <2>3. \A j : Open(j, i)' <=> Open(j, i)
    BY <1>1, <2>2, Told
  <2>4. \A j \in 1 .. i - 1 : prog'[j] = prog[j] /\ j \in 1 .. Len(prog)
    BY <1>1, <2>2
  <2>5. \A j : Open(j, i) <=> j \in InFlight
    <3> SUFFICES ASSUME NEW j PROVE Open(j, i) <=> j \in InFlight
      OBVIOUS
    <3>1. j \in 1 .. i - 1 <=> j \in DOMAIN prog
      BY <1>1, <2>2
    <3>2. ASSUME j \in DOMAIN prog, prog[j].kind = "start"
          PROVE  (\A k \in j + 1 .. i - 1 : prog[k].kind # "finish")
                   <=> (\A k \in j .. Len(prog) : prog[k].kind # "finish")
      <4>1. \A k : k \in j .. Len(prog) <=> k = j \/ k \in j + 1 .. i - 1
        BY <1>1, <2>2, <3>2
      <4> QED BY <3>2, <4>1
    <3> QED BY <3>1, <3>2 DEF Open, InFlight
  <2>6. CASE InFlight = {}
    <3>1. o.kind # "finish"
      BY <2>1, <2>6 DEF Legal
    <3> QED BY <2>2, <2>3, <2>5, <2>6, <3>1 DEF LegalAt
  <2>7. CASE InFlight # {}
    <3>1. PICK j \in InFlight :
            \/ o = [kind |-> "finish", vs |-> prog[j].vs]
            \/ o.kind = "update" /\ ToSet(o.vs) \cap ToSet(prog[j].vs) = {}
      BY <2>1, <2>7 DEF Legal
    <3>2. Open(j, i) /\ j \in 1 .. i - 1 /\ prog'[j] = prog[j]
      BY <2>4, <2>5 DEF Open
    <3>3. \A k \in 1 .. i - 1 : Open(k, i) => k = j
      <4>1. i \in 1 .. Len(prog) + 1
        BY <1>1, <2>2
      <4> QED BY <1>1, <3>2, <4>1, InFlightOnly
    <3>4. prog'[i].kind = "finish" => prog'[i].vs = prog'[j].vs
      BY <2>2, <3>1, <3>2
    <3>5. \/ prog'[i].kind = "finish" /\ prog'[i].vs = prog'[j].vs
          \/ prog'[i].kind = "update" /\ ToSet(prog'[i].vs) \cap ToSet(prog'[j].vs) = {}
      BY <2>2, <3>1, <3>2
    <3> QED BY <2>3, <3>2, <3>3, <3>4, <3>5 DEF LegalAt, ToSet
  <2> QED BY <2>6, <2>7
<1> QED BY <1>1, <1>2, <1>3

\* All variables keep their types.
LEMMA TypedStep == Typed /\ [Next]_vars => Typed'
<1> SUFFICES ASSUME Typed, [Next]_vars PROVE Launched'
  BY PlacedStep, FilledStep DEF Typed
<1>1. UNCHANGED env
  BY Launching
<1> QED BY <1>1 DEF env, Typed, Launched

-----------------------------------------------------------------------------
\* What a thread does to what its rank decides by.
NewFlags(r, t) ==
  \A v \in Vects : valid'[r][v] <=>
    IF pc[r][t] = "setflag" /\ v = op(r, t).vs[at[r][t]] THEN op(r, t).kind # "update" ELSE valid[r][v]
NewMarks(r, t) ==
  \A c \in Comms : comm_in_prog'[r][c] =
    IF pc[r][t] = "post" /\ c = Comm(op(r, t)) THEN TRUE
    ELSE IF pc[r][t] = "unpack" /\ c = Comm(op(r, t)) THEN FALSE
    ELSE comm_in_prog[r][c]

\* All that a thread does to what it decides by, except where it calls an operation, ...
LEMMA Effects ==
  ASSUME Typed, nparal_dir > 0, NEW r \in Ranks, NEW t \in Threads, Advance(r, t), ~ Call(r, t)
  PROVE  /\ prog' = prog /\ ip' = ip /\ at' = at /\ Ranks' = Ranks /\ Threads' = Threads
         /\ \A q \in Ranks, u \in Threads : q # r \/ u # t => pc'[q][u] = pc[q][u]
         /\ \A q \in Ranks \ {r} : valid'[q] = valid[q] /\ comm_in_prog'[q] = comm_in_prog[q]
         /\ pc[r][t] \notin Waiting
         /\ pc[r][t] \in Ended => pc'[r][t] \in Ended
         /\ pc[r][t] = "write" => pc'[r][t] = "flag"
         /\ pc[r][t] = "start" => pc'[r][t] =
              IF \E v \in ToSet(op(r, t).vs) : ~ valid[r][v] THEN "fill"
              ELSE IF op(r, t).kind = "start" THEN "next" ELSE "finish"
         /\ pc[r][t] = "fill" => pc'[r][t] = "filled"
         /\ pc[r][t] = "post" => pc'[r][t] = IF op(r, t).kind = "start" THEN "next" ELSE "finish"
         /\ pc[r][t] = "finish" => pc'[r][t] =
              IF Busy(r, op(r, t).vs) THEN "wait" ELSE IF op(r, t).kind = "read" THEN "loop" ELSE "next"
         /\ pc[r][t] = "wait" => pc'[r][t] = "waited"
         /\ pc[r][t] = "unpack" => pc'[r][t] = "flag"
         /\ pc[r][t] = "flag" => pc'[r][t] =
              IF valid[r][op(r, t).vs[at[r][t]]] <=> op(r, t).kind # "update" THEN "flag2" ELSE "flag1"
         /\ pc[r][t] = "setflag" => pc'[r][t] = "flag2"
         /\ pc[r][t] = "loop" => pc'[r][t] = "looped"
         /\ NewFlags(r, t) /\ NewMarks(r, t)
         /\ pc[r][t] # "setflag" => valid' = valid
<1> DEFINE Quiet == valid' = valid /\ comm_in_prog' = comm_in_prog
<1>0. /\ Placed /\ Filled /\ valid \in [Ranks -> [Vects -> BOOLEAN]]
      /\ comm_in_prog \in [Ranks -> [Comms -> BOOLEAN]]
      /\ pc \in [Ranks -> [Threads -> PCs]]
  BY DEF Typed, Filled, Placed
<1>1. /\ prog' = prog /\ ip' = ip /\ at' = at /\ UNCHANGED env
      /\ \E l : Goto(r, t, l)
  <2>1. CASE Exit(r, t) \/ Write(r, t) \/ Start(r, t) \/ Fill(r, t) \/ Post(r, t) \/ Finish(r, t)
    BY <2>1 DEF Exit, Write, Start, Fill, Post, Finish, where
  <2>2. CASE Wait(r, t) \/ Unpack(r, t) \/ Flag(r, t) \/ SetFlag(r, t) \/ Loop(r, t)
    BY <2>2 DEF Wait, Unpack, Flag, SetFlag, Loop, where
  <2> QED BY <2>1, <2>2 DEF Advance
<1>2. /\ Ranks' = Ranks /\ Threads' = Threads
      /\ \A q \in Ranks, u \in Threads : q # r \/ u # t => pc'[q][u] = pc[q][u]
  BY <1>0, <1>1 DEF env, Ranks, Threads, Goto
<1>3. \A l : Goto(r, t, l) => pc'[r][t] = l
  BY <1>0 DEF Goto
<1> HIDE DEF Quiet
<1>4. CASE Exit(r, t)
  <2>1. pc[r][t] = "next" /\ pc'[r][t] = "exit" /\ Quiet
    BY <1>3, <1>4 DEF Exit, Quiet
  <2> QED BY <1>1, <1>2, <2>1 DEF Quiet, Waiting, Ended, NewFlags, NewMarks
<1>5. CASE Write(r, t)
  <2>1. pc[r][t] = "write" /\ pc'[r][t] = "flag" /\ Quiet
    BY <1>3, <1>5 DEF Write, Quiet
  <2> QED BY <1>1, <1>2, <2>1 DEF Quiet, Waiting, Ended, NewFlags, NewMarks
<1>6. CASE Start(r, t)
  <2>1. /\ pc[r][t] = "start" /\ Quiet
        /\ pc'[r][t] = IF \E v \in ToSet(op(r, t).vs) : ~ valid[r][v] THEN "fill"
                       ELSE IF op(r, t).kind = "start" THEN "next" ELSE "finish"
    BY <1>3, <1>6 DEF Start, Quiet
  <2> QED BY <1>1, <1>2, <2>1 DEF Quiet, Waiting, Ended, NewFlags, NewMarks
<1>7. CASE Fill(r, t)
  <2>1. pc[r][t] = "fill" /\ pc'[r][t] = "filled" /\ Quiet
    BY <1>3, <1>7 DEF Fill, AfterFill, Quiet
  <2> QED BY <1>1, <1>2, <2>1 DEF Quiet, Waiting, Ended, NewFlags, NewMarks
<1>8. CASE Post(r, t)
  <2>1. /\ pc[r][t] = "post" /\ valid' = valid
        /\ pc'[r][t] = IF op(r, t).kind = "start" THEN "next" ELSE "finish"
        /\ comm_in_prog' = [comm_in_prog EXCEPT ![r][Comm(op(r, t))] = TRUE]
    BY <1>3, <1>8 DEF Post
  <2>2. /\ \A q \in Ranks \ {r} : comm_in_prog'[q] = comm_in_prog[q]
        /\ \A c \in Comms : comm_in_prog'[r][c] = IF c = Comm(op(r, t)) THEN TRUE ELSE comm_in_prog[r][c]
    BY <1>0, <2>1
  <2> QED BY <1>1, <1>2, <2>1, <2>2 DEF Waiting, Ended, NewFlags, NewMarks
<1>9. CASE Finish(r, t)
  <2>1. /\ pc[r][t] = "finish" /\ Quiet
        /\ pc'[r][t] =
              IF Busy(r, op(r, t).vs) THEN "wait" ELSE IF op(r, t).kind = "read" THEN "loop" ELSE "next"
    BY <1>3, <1>9 DEF Finish, Quiet
  <2> QED BY <1>1, <1>2, <2>1 DEF Quiet, Waiting, Ended, NewFlags, NewMarks
<1>10. CASE Wait(r, t)
  <2>1. pc[r][t] = "wait" /\ pc'[r][t] = "waited" /\ Quiet
    BY <1>3, <1>10 DEF Wait, Quiet
  <2> QED BY <1>1, <1>2, <2>1 DEF Quiet, Waiting, Ended, NewFlags, NewMarks
<1>11. CASE Unpack(r, t)
  <2>1. /\ pc[r][t] = "unpack" /\ valid' = valid /\ pc'[r][t] = "flag"
        /\ comm_in_prog' = [comm_in_prog EXCEPT ![r][Comm(op(r, t))] = FALSE]
    BY <1>3, <1>11 DEF Unpack
  <2>2. /\ \A q \in Ranks \ {r} : comm_in_prog'[q] = comm_in_prog[q]
        /\ \A c \in Comms : comm_in_prog'[r][c] = IF c = Comm(op(r, t)) THEN FALSE ELSE comm_in_prog[r][c]
    BY <1>0, <2>1
  <2> QED BY <1>1, <1>2, <2>1, <2>2 DEF Waiting, Ended, NewFlags, NewMarks
<1>12. CASE Flag(r, t)
  <2>0. valid[r][op(r, t).vs[at[r][t]]] \in BOOLEAN
    <3>1. pc[r][t] \notin Ended
      BY <1>12 DEF Flag, Ended
    <3>2. op(r, t) \in Ops /\ at[r][t] \in DOMAIN op(r, t).vs
      BY <1>0, <3>1, AtOp
    <3>3. op(r, t).vs[at[r][t]] \in Vects
      BY <3>2, Operations
    <3> QED BY <1>0, <3>3
  <2>1. /\ pc[r][t] = "flag" /\ Quiet
        /\ pc'[r][t] = IF valid[r][op(r, t).vs[at[r][t]]] <=> op(r, t).kind # "update"
                         THEN "flag2" ELSE "flag1"
    BY <1>3, <1>12, <2>0 DEF Flag, Quiet
  <2> QED BY <1>1, <1>2, <2>1 DEF Quiet, Waiting, Ended, NewFlags, NewMarks
<1>13. CASE SetFlag(r, t)
  <2>1. /\ pc[r][t] = "setflag" /\ pc'[r][t] = "flag2" /\ comm_in_prog' = comm_in_prog
        /\ valid' = [valid EXCEPT ![r][op(r, t).vs[at[r][t]]] = (op(r, t).kind # "update")]
    BY <1>3, <1>13 DEF SetFlag
  <2>2. /\ \A q \in Ranks \ {r} : valid'[q] = valid[q]
        /\ \A v \in Vects : valid'[r][v] <=>
              IF v = op(r, t).vs[at[r][t]] THEN op(r, t).kind # "update" ELSE valid[r][v]
    BY <1>0, <2>1
  <2> QED BY <1>1, <1>2, <2>1, <2>2 DEF Waiting, Ended, NewFlags, NewMarks
<1>14. CASE Loop(r, t)
  <2>1. pc[r][t] = "loop" /\ pc'[r][t] = "looped" /\ Quiet
    BY <1>3, <1>14 DEF Loop, Quiet
  <2> QED BY <1>1, <1>2, <2>1 DEF Quiet, Waiting, Ended, NewFlags, NewMarks
<1> QED BY <1>4, <1>5, <1>6, <1>7, <1>8, <1>9, <1>10, <1>11, <1>12, <1>13, <1>14 DEF Advance

\* Most steps change neither flags nor comm_in_prog.
LEMMA Quiet ==
  ASSUME Typed, nparal_dir > 0, NEW r \in Ranks, NEW t \in Threads, Advance(r, t), ~ Call(r, t),
         pc[r][t] \notin {"post", "unpack", "setflag"}
  PROVE  valid' = valid /\ comm_in_prog' = comm_in_prog
<1>1. valid' = valid
  BY Effects
<1>2. \A c \in Comms : comm_in_prog'[r][c] = comm_in_prog[r][c]
  <2>1. NewMarks(r, t)
    BY Effects
  <2> QED BY <2>1 DEF NewMarks
<1>3. \A q \in Ranks \ {r} : valid'[q] = valid[q] /\ comm_in_prog'[q] = comm_in_prog[q]
  BY Effects, Zenon
<1>4. Ranks' = Ranks
  BY Effects, Zenon
<1>5. Filled' /\ Filled
  BY FilledStep DEF Next, Progress, Typed
<1>6. comm_in_prog \in [Ranks -> [Comms -> BOOLEAN]] /\ comm_in_prog' \in [Ranks -> [Comms -> BOOLEAN]]
  BY <1>4, <1>5 DEF Filled, Comms
<1>7. \A q \in Ranks : comm_in_prog'[q] = comm_in_prog[q]
  BY <1>2, <1>3, <1>6
<1> QED BY <1>1, <1>6, <1>7

\* Where a thread goes.
LEMMA GoesTo ==
  ASSUME Typed, nparal_dir > 0, NEW r \in Ranks, NEW t \in Threads, Advance(r, t), ~ Call(r, t),
         NEW l, l = pc[r][t], NEW m, m = pc'[r][t], NEW o, o = op(r, t)
  PROVE  /\ prog' = prog /\ ip' = ip /\ at' = at /\ Ranks' = Ranks /\ Threads' = Threads
         /\ \A u \in Threads : u # t => pc'[r][u] = pc[r][u]
         /\ l \notin Waiting
         /\ l \in Ended => m \in Ended
         /\ l = "write" => m = "flag"
         /\ l = "start" => m = IF \E v \in ToSet(o.vs) : ~ valid[r][v] THEN "fill"
                              ELSE IF o.kind = "start" THEN "next" ELSE "finish"
         /\ l = "fill" => m = "filled"
         /\ l = "post" => m = IF o.kind = "start" THEN "next" ELSE "finish"
         /\ l = "finish" => m = IF Busy(r, o.vs) THEN "wait" ELSE IF o.kind = "read" THEN "loop" ELSE "next"
         /\ l = "wait" => m = "waited"
         /\ l = "unpack" => m = "flag"
         /\ l = "flag" => m = IF valid[r][o.vs[at[r][t]]] <=> o.kind # "update" THEN "flag2" ELSE "flag1"
         /\ l = "setflag" => m = "flag2"
         /\ l = "loop" => m = "looped"
<1>1. /\ prog' = prog /\ ip' = ip /\ at' = at /\ Ranks' = Ranks /\ Threads' = Threads
      /\ \A u \in Threads : u # t => pc'[r][u] = pc[r][u]
      /\ l \notin Waiting
      /\ l \in Ended => m \in Ended
  <2>1. /\ prog' = prog /\ ip' = ip /\ at' = at /\ Ranks' = Ranks /\ Threads' = Threads
        /\ \A q \in Ranks, u \in Threads : q # r \/ u # t => pc'[q][u] = pc[q][u]
        /\ pc[r][t] \notin Waiting
        /\ pc[r][t] \in Ended => pc'[r][t] \in Ended
    BY Effects, Zenon
  <2> QED BY <2>1
<1>2. /\ l = "write" => m = "flag"
      /\ l = "start" => m = IF \E v \in ToSet(o.vs) : ~ valid[r][v] THEN "fill"
                              ELSE IF o.kind = "start" THEN "next" ELSE "finish"
      /\ l = "fill" => m = "filled"
      /\ l = "post" => m = IF o.kind = "start" THEN "next" ELSE "finish"
  BY Effects
<1>3. /\ l = "finish" => m = IF Busy(r, o.vs) THEN "wait" ELSE IF o.kind = "read" THEN "loop" ELSE "next"
      /\ l = "wait" => m = "waited"
      /\ l = "unpack" => m = "flag"
  <2>1. /\ l = "finish" => m = IF Busy(r, o.vs) THEN "wait" ELSE IF o.kind = "read" THEN "loop" ELSE "next"
    BY Effects
  <2>2. l = "wait" => m = "waited"
    BY Effects
  <2>3. l = "unpack" => m = "flag"
    BY Effects
  <2> QED BY <2>1, <2>2, <2>3
<1>4. /\ l = "flag" => m = IF valid[r][o.vs[at[r][t]]] <=> o.kind # "update" THEN "flag2" ELSE "flag1"
      /\ l = "setflag" => m = "flag2"
      /\ l = "loop" => m = "looped"
  BY Effects
<1> QED BY <1>1, <1>2, <1>3, <1>4

\* What is marked.
LEMMA Marks ==
  ASSUME Typed, nparal_dir > 0, NEW r \in Ranks, NEW t \in Threads, Advance(r, t), ~ Call(r, t)
  PROVE  /\ pc[r][t] # "setflag" => valid' = valid
         /\ pc[r][t] = "post" => \A c \in Comms : comm_in_prog'[r][c] = IF c = Comm(op(r, t)) THEN TRUE ELSE comm_in_prog[r][c]
         /\ pc[r][t] = "unpack" => \A c \in Comms : comm_in_prog'[r][c] = IF c = Comm(op(r, t)) THEN FALSE ELSE comm_in_prog[r][c]
         /\ pc[r][t] = "setflag" => \A v \in Vects : valid'[r][v] <=>
              IF v = op(r, t).vs[at[r][t]] THEN op(r, t).kind # "update" ELSE valid[r][v]
<1>1. pc[r][t] # "setflag" => valid' = valid
  BY Effects
<1>0. NewMarks(r, t) /\ NewFlags(r, t)
  BY Effects
<1>2. pc[r][t] = "post" => \A c \in Comms : comm_in_prog'[r][c] = IF c = Comm(op(r, t)) THEN TRUE ELSE comm_in_prog[r][c]
  BY <1>0 DEF NewMarks
<1>3. pc[r][t] = "unpack" => \A c \in Comms : comm_in_prog'[r][c] = IF c = Comm(op(r, t)) THEN FALSE ELSE comm_in_prog[r][c]
  BY <1>0 DEF NewMarks
<1>4. pc[r][t] = "setflag" => \A v \in Vects : valid'[r][v] <=>
              IF v = op(r, t).vs[at[r][t]] THEN op(r, t).kind # "update" ELSE valid[r][v]
  BY <1>0 DEF NewFlags
<1> QED BY <1>1, <1>2, <1>3, <1>4

\* ... where it calls one, ...
LEMMA CallEffects ==
  ASSUME Typed, NEW r \in Ranks, NEW t \in Threads, Call(r, t)
  PROVE  /\ Ranks' = Ranks /\ Threads' = Threads /\ pc[r][t] = "next"
         /\ \A q \in Ranks, u \in Threads : q # r \/ u # t =>
              pc'[q][u] = pc[q][u] /\ ip'[q][u] = ip[q][u] /\ at'[q][u] = at[q][u]
         /\ UNCHANGED <<data, valid, bufs, comm_in_prog, net>>
         /\ ip'[r][t] = ip[r][t] + 1 /\ at'[r][t] = 1 /\ ip[r][t] + 1 \in 1 .. Len(prog')
         /\ pc'[r][t] = Entry(prog'[ip[r][t] + 1]) /\ prog'[ip[r][t] + 1] \in Ops
<1>1. Placed /\ [Next]_vars /\ ip[r][t] \in Nat /\ ip[r][t] <= Len(prog) /\ Len(prog) \in Nat
  BY AtOp DEF Next, Progress, Advance, Typed
<1>2. /\ UNCHANGED <<env, data, valid, bufs, comm_in_prog, net>> /\ pc[r][t] = "next"
      /\ Goto(r, t, Entry(prog'[ip[r][t] + 1]))
      /\ ip' = [ip EXCEPT ![r][t] = @ + 1] /\ at' = [at EXCEPT ![r][t] = 1]
  BY DEF Call
<1>3. Ranks' = Ranks /\ Threads' = Threads
  BY <1>2 DEF env, Ranks, Threads
<1>4. /\ ip'[r][t] = ip[r][t] + 1 /\ at'[r][t] = 1 /\ pc'[r][t] = Entry(prog'[ip[r][t] + 1])
      /\ \A q \in Ranks, u \in Threads : q # r \/ u # t =>
              pc'[q][u] = pc[q][u] /\ ip'[q][u] = ip[q][u] /\ at'[q][u] = at[q][u]
  BY <1>1, <1>2 DEF Placed, Goto
<1>5. ip[r][t] + 1 \in 1 .. Len(prog')
  <2>1. prog' \in Seq(Ops) /\ Len(prog') \in Nat /\ Len(prog) <= Len(prog')
    BY <1>1, Grows
  <2>2. CASE ip[r][t] < Len(prog)
    BY <1>1, <2>1, <2>2
  <2>3. CASE ip[r][t] = Len(prog)
    <3>1. PICK o \in Ops : prog' = Append(prog, o)
      BY <1>1, <2>3 DEF Call
    <3>2. Len(prog') = Len(prog) + 1
      BY <1>1, <3>1 DEF Placed
    <3> QED BY <1>1, <2>3, <3>2
  <2> QED BY <1>1, <2>2, <2>3
<1>6. prog' \in Seq(Ops)
  BY <1>1, Grows
<1>7. prog'[ip[r][t] + 1] \in Ops
  BY <1>5, <1>6
<1> QED BY <1>2, <1>3, <1>4, <1>5, <1>7

\* ... and where all of them leave a barrier.
LEMMA BarrierEffects ==
  ASSUME Typed, NEW r \in Ranks, Barrier(r)
  PROVE  /\ Ranks' = Ranks /\ Threads' = Threads /\ prog' = prog /\ ip' = ip
         /\ UNCHANGED <<data, valid, bufs, comm_in_prog, net>>
         /\ \A q \in Ranks \ {r} : pc'[q] = pc[q] /\ at'[q] = at[q]
         /\ \A t \in Threads :
              /\ pc[r][t] \in Waiting
              /\ pc[r][t] = "filled" => pc'[r][t] = "post" /\ at'[r][t] = at[r][t]
              /\ pc[r][t] = "waited" => pc'[r][t] = "unpack" /\ at'[r][t] = at[r][t]
              /\ pc[r][t] = "flag1" => pc'[r][t] = "setflag" /\ at'[r][t] = at[r][t]
              /\ pc[r][t] = "looped" => pc'[r][t] = "next" /\ at'[r][t] = at[r][t]
              /\ pc[r][t] = "flag2" =>
                   /\ at[r][t] < Len(op(r, t).vs) => pc'[r][t] = "flag" /\ at'[r][t] = at[r][t] + 1
                   /\ ~ at[r][t] < Len(op(r, t).vs) =>
                        /\ pc'[r][t] = IF op(r, t).kind = "read" THEN "loop" ELSE "next"
                        /\ at'[r][t] = at[r][t]
<1>1. /\ UNCHANGED <<env, prog, ip, data, valid, bufs, comm_in_prog, net>>
      /\ pc' = [pc EXCEPT ![r] = [t \in Threads |-> Past(r, t)]]
      /\ at' = [at EXCEPT ![r] = [t \in Threads |->
                IF Past(r, t) = "flag" THEN at[r][t] + 1 ELSE at[r][t]]]
      /\ \A t \in Threads : pc[r][t] \in Waiting
  BY DEF Barrier
<1>2. Ranks' = Ranks /\ Threads' = Threads
  BY <1>1 DEF env, Ranks, Threads
<1>3. /\ \A t \in Threads : /\ pc'[r][t] = Past(r, t)
                            /\ at'[r][t] = IF Past(r, t) = "flag" THEN at[r][t] + 1 ELSE at[r][t]
      /\ \A q \in Ranks \ {r} : pc'[q] = pc[q] /\ at'[q] = at[q]
  BY <1>1 DEF Typed, Placed
<1>4. ASSUME NEW t \in Threads
      PROVE  /\ pc[r][t] = "filled" => Past(r, t) = "post"
             /\ pc[r][t] = "waited" => Past(r, t) = "unpack"
             /\ pc[r][t] = "flag1" => Past(r, t) = "setflag"
             /\ pc[r][t] = "looped" => Past(r, t) = "next"
             /\ pc[r][t] = "flag2" => Past(r, t) =
                  IF at[r][t] < Len(op(r, t).vs) THEN "flag"
                  ELSE IF op(r, t).kind = "read" THEN "loop" ELSE "next"
  BY DEF Past
<1> QED BY <1>1, <1>2, <1>3, <1>4

\* What is said of the first operations stays when the program grows.
LEMMA ToldMore ==
  ASSUME prog \in Seq(Ops), \A k \in 1 .. Len(prog) : prog'[k] = prog[k],
         NEW i \in Nat, i <= Len(prog) + 1
  PROVE  /\ Talking(i)' = Talking(i) /\ CommsOf(i)' = CommsOf(i)
         /\ i <= Len(prog) =>
              /\ i > 0 => First(i)' = First(i) /\ (Free(i)' <=> Free(i))
              /\ Fetching(i)' <=> Fetching(i)
              /\ LastX(i)' = LastX(i)
<1>1. Len(prog) \in Nat /\ \A k \in 1 .. i - 1 : k \in Nat /\ k <= Len(prog) /\ k > 0
  OBVIOUS
<1>2. \A k \in 1 .. i - 1 : prog'[k] = prog[k] /\ (Talks(k)' <=> Talks(k))
  <2> SUFFICES ASSUME NEW k \in 1 .. i - 1 PROVE prog'[k] = prog[k] /\ (Talks(k)' <=> Talks(k))
    OBVIOUS
  <2>1. k \in Nat /\ k <= Len(prog) + 1 /\ k <= Len(prog) /\ k > 0 /\ k \in 1 .. Len(prog)
    BY <1>1
  <2> QED BY <2>1, Told
<1>3. \A j : Open(j, i)' <=> Open(j, i)
  BY Told
<1>4. Talking(i)' = Talking(i)
  BY <1>2, <1>3 DEF Talking
<1>5. CommsOf(i)' = CommsOf(i)
  <2>1. \A j \in Talking(i) : prog'[j] = prog[j]
    BY <1>2 DEF Talking
  <2>2. \A j \in Talking(i) : Comm(prog'[j]) = Comm(prog[j])
    BY <2>1
  <2> QED BY <1>4, <2>2 DEF CommsOf, Comm
<1>6. CASE i <= Len(prog) /\ i > 0
  <2>1. prog'[i] = prog[i] /\ (Talks(i)' <=> Talks(i))
    BY <1>6, Told
  <2>2. First(i)' = First(i)
    BY <2>1 DEF First
  <2>3. (Free(i)' <=> Free(i)) /\ (Fetching(i)' <=> Fetching(i))
    BY <2>1 DEF Free, Fetching
  <2>4. LastX(i)' = LastX(i)
    <3>1. \A k \in 1 .. i : k \in Nat /\ k > 0 /\ k <= Len(prog)
      BY <1>1, <1>6
    <3>2. \A k \in 1 .. i : Exchange(k)' <=> Exchange(k)
      BY <3>1, Told
    <3> QED BY <3>2 DEF LastX
  <2> QED BY <1>4, <1>5, <2>2, <2>3, <2>4
<1>7. CASE i = 0
  <2>1. \A k \in 1 .. i : Exchange(k)' <=> Exchange(k)
    BY <1>7
  <2>2. LastX(i)' = LastX(i)
    BY <2>1 DEF LastX
  <2> QED BY <1>4, <1>5, <1>7, <2>2 DEF Fetching
<1> QED BY <1>4, <1>5, <1>6, <1>7

\* A thread, or a rank, that does nothing stays where it was.
LEMMA PassingKept ==
  ASSUME Typed, prog \in Seq(Ops), \A k \in 1 .. Len(prog) : prog'[k] = prog[k],
         NEW r \in Ranks, NEW t \in Threads, NEW n \in 0 .. Len(prog),
         ip'[r][t] = ip[r][t], pc'[r][t] = pc[r][t], at'[r][t] = at[r][t],
         \A v \in Vects : valid'[r][v] = valid[r][v],
         \A c \in Comms : comm_in_prog[r][c] => comm_in_prog'[r][c],
         Passing(r, t, n)
  PROVE  Passing(r, t, n)'
<1>1. /\ ip[r][t] \in Nat /\ ip[r][t] <= Len(prog) /\ Len(prog) \in Nat /\ n \in Nat /\ n <= Len(prog)
      /\ pc[r][t] \notin Ended => ip[r][t] \in 1 .. Len(prog) /\ op(r, t) = prog[ip[r][t]] /\ op(r, t) \in Ops
      /\ n + 1 \in Nat /\ n + 1 <= Len(prog) + 1
  BY AtOp DEF Typed
<1>2. PICK i \in Nat : i = Cur(r, t) /\ i <= Len(prog) + 1
  BY <1>1 DEF Cur
<1>3. Cur(r, t)' = i
  BY <1>2 DEF Cur
<1>4. /\ \A v : ValidAt(v, i)' <=> ValidAt(v, i)
      /\ Talking(i)' = Talking(i) /\ Talking(n + 1)' = Talking(n + 1)
      /\ CommsOf(n + 1)' = CommsOf(n + 1) /\ CommsOf(n + 1) \subseteq Comms
  BY <1>1, <1>2, Told, ToldMore DEF CommsOf, Comm, Comms
<1>5. FlagsAt(r, Cur(r, t), {})'
  <2>1. FlagsAt(r, i, {})
    BY <1>2 DEF Passing
  <2>2. \A v \in Vects : ValidAt(v, Cur(r, t))' <=> ValidAt(v, i)
    BY <1>3, <1>4
  <2>3. Vects' = Vects
    BY DEF Vects
  <2> QED BY <2>1, <2>2, <2>3 DEF FlagsAt
<1>6. (pc[r][t] # "post" =>
       /\ Talking(Cur(r, t)) = Talking(n + 1)
       /\ \A c \in CommsOf(n + 1) : comm_in_prog[r][c])'
  <2>1. pc[r][t] # "post" =>
           Talking(i) = Talking(n + 1) /\ \A c \in CommsOf(n + 1) : comm_in_prog[r][c]
    BY <1>2 DEF Passing
  <2>2. Talking(Cur(r, t))' = Talking(i)
    BY <1>3, <1>4
  <2> QED BY <1>4, <2>1, <2>2
<1>7. FlagOf(r, t, ip[r][t], 1)'
  <2>1. CASE pc[r][t] \in Ended
    BY <2>1 DEF FlagOf, Ended
  <2>2. CASE pc[r][t] \notin Ended
    <3>1. PICK o : o = prog[ip[r][t]] /\ o = prog'[ip[r][t]] /\ o.vs[1] \in Vects
      <4>1. \A o \in Ops : o.vs[1] \in Vects
        BY Operations
      <4> QED BY <1>1, <2>2, <4>1
    <3>2. (pc[r][t] = "flag1" => (valid[r][o.vs[1]] <=> o.kind = "update")) /\
          (pc[r][t] = "flag2" => (valid[r][o.vs[1]] <=> o.kind # "update"))
      BY <3>1 DEF Passing, FlagOf
    <3> QED BY <3>1, <3>2 DEF FlagOf
  <2> QED BY <2>1, <2>2
<1>8. (\/ ip[r][t] = n /\ pc[r][t] \in Ended
       \/ ip[r][t] = n /\ pc[r][t] = "post" /\ n > 0 /\ prog[n].kind = "start" /\ Talks(n)
       \/ /\ ip[r][t] > n /\ pc[r][t] \in First(ip[r][t])
          /\ \A k \in n + 1 .. ip[r][t] - 1 : Free(k))'
  <2>1. CASE ip[r][t] = n /\ pc[r][t] \in Ended
    BY <2>1 DEF Ended
  <2>2. CASE ip[r][t] = n /\ pc[r][t] = "post" /\ n > 0 /\ prog[n].kind = "start" /\ Talks(n)
    <3>1. Talks(n)' <=> Talks(n)
      BY <1>1, <2>2, Told
    <3> QED BY <1>1, <2>2, <3>1
  <2>3. CASE /\ ip[r][t] > n /\ pc[r][t] \in First(ip[r][t])
             /\ \A k \in n + 1 .. ip[r][t] - 1 : Free(k)
    <3>1. ip[r][t] > 0 /\ ip[r][t] <= Len(prog) + 1
      BY <1>1, <2>3
    <3>2. First(ip[r][t])' = First(ip[r][t])
      BY <1>1, <3>1, ToldMore
    <3>3. \A k \in n + 1 .. ip[r][t] - 1 : k \in Nat /\ k <= Len(prog) /\ k <= Len(prog) + 1 /\ k > 0
      BY <1>1
    <3>4. \A k \in n + 1 .. ip[r][t] - 1 : Free(k)' <=> Free(k)
      BY <3>3, ToldMore
    <3>5. (\A k \in n + 1 .. ip[r][t] - 1 : Free(k))'
      BY <2>3, <3>4
    <3> QED BY <2>3, <3>2, <3>5
  <2> QED BY <2>1, <2>2, <2>3 DEF Passing
<1>9. (pc[r][t] \notin Ended => at[r][t] = 1)'
  BY DEF Passing, Ended
<1> QED BY <1>5, <1>6, <1>7, <1>8, <1>9 DEF Passing

\* The rank is in some phase, if in this one.
LEMMA InPhase ==
  ASSUME NEW r, NEW n \in 0 .. Len(prog'),
         \/ Between(r, n)' \/ Posting(r, n)' \/ Unpacking(r, n)'
         \/ \E a \in {1, 2} : Setting(r, n, a)'
         \/ Second(r, n)' \/ Using(r, n)'
  PROVE  PhaseOf(r)'
BY DEF PhaseOf

\* A rank none of whose threads steps stays in its phase.
LEMMA PhaseKept ==
  ASSUME Typed, prog \in Seq(Ops), \A k \in 1 .. Len(prog) : prog'[k] = prog[k],
         Len(prog') \in Nat, Len(prog) <= Len(prog'),
         Threads' = Threads, NEW r \in Ranks,
         \A t \in Threads : ip'[r][t] = ip[r][t] /\ pc'[r][t] = pc[r][t] /\ at'[r][t] = at[r][t],
         valid'[r] = valid[r], comm_in_prog'[r] = comm_in_prog[r],
         PhaseOf(r)
  PROVE  PhaseOf(r)'
<1>1. PICK n \in 0 .. Len(prog) :
        \/ Between(r, n) \/ Posting(r, n) \/ Unpacking(r, n) \/ (\E a \in {1, 2} : Setting(r, n, a))
        \/ Second(r, n) \/ Using(r, n)
  BY DEF PhaseOf
<1>2. n \in Nat /\ Len(prog) \in Nat /\ n <= Len(prog) /\ n + 1 \in Nat /\ n + 1 <= Len(prog) + 1
      /\ n <= Len(prog) + 1 /\ n \in 0 .. Len(prog')
  BY DEF Typed, Placed
<1>3. /\ \A S : Marked(r, S)' <=> Marked(r, S)
      /\ \A S : FlagsAt(r, n, S)' <=> FlagsAt(r, n, S)
      /\ \A S : FlagsAt(r, n + 1, S)' <=> FlagsAt(r, n + 1, S)
      /\ CommsOf(n)' = CommsOf(n) /\ CommsOf(n + 1)' = CommsOf(n + 1)
  <2>1. /\ \A v : ValidAt(v, n)' <=> ValidAt(v, n)
        /\ \A v : ValidAt(v, n + 1)' <=> ValidAt(v, n + 1)
    BY <1>2, Told
  <2>2. CommsOf(n)' = CommsOf(n) /\ CommsOf(n + 1)' = CommsOf(n + 1)
    BY <1>2, ToldMore
  <2> QED BY <2>1, <2>2 DEF Marked, FlagsAt, Vects, Comms
<1>4. CASE Between(r, n)
  <2>1. \A t \in Threads : Passing(r, t, n)'
    BY <1>4, PassingKept DEF Between
  <2>2. Marked(r, CommsOf(n + 1))'
    BY <1>3, <1>4 DEF Between, Marked, Comms
  <2>3. Between(r, n)'
    BY <2>1, <2>2 DEF Between
  <2> QED BY <1>2, <2>3, InPhase
<1>5. CASE n > 0
  <2>1. /\ prog'[n] = prog[n] /\ (Talks(n)' <=> Talks(n)) /\ (Fetching(n)' <=> Fetching(n))
    BY <1>2, <1>5, Told, ToldMore
  <2>2. Comm(prog[n])' = Comm(prog[n])
    BY <2>1 DEF Comm
  <2>3. \A t \in Threads : \A a : FlagOf(r, t, n, a)' <=> FlagOf(r, t, n, a)
    BY <2>1 DEF FlagOf
  <2>4. ASSUME Posting(r, n) PROVE Posting(r, n)'
    <3>1. FlagsAt(r, n, {})' /\ Marked(r, {Comm(prog[n])})'
      BY <1>3, <2>2, <2>4 DEF Posting, Marked, Comms
    <3>2. \A t \in Threads : pc[r][t] # "post" => comm_in_prog'[r][Comm(prog'[n])]
      BY <2>1, <2>4 DEF Posting
    <3> QED BY <1>2, <2>1, <2>4, <3>1, <3>2 DEF Posting
  <2>5. ASSUME Unpacking(r, n) PROVE Unpacking(r, n)'
    <3>1. FlagsAt(r, n, {})' /\ Marked(r, {Comm(prog[n])})' /\ (Marked(r, {})' <=> Marked(r, {}))
      BY <1>3, <2>2, <2>5 DEF Unpacking, Marked, Comms
    <3> QED BY <1>2, <2>1, <2>3, <2>5, <3>1 DEF Unpacking
  <2>6. ASSUME NEW a \in {1, 2}, Setting(r, n, a) PROVE Setting(r, n, a)'
    <3>1. FlagsAt(r, n, {prog[n].vs[b] : b \in 1 .. a})'
      <4>1. PICK S : S = {prog[n].vs[b] : b \in 1 .. a}
        OBVIOUS
      <4>2. {prog[n].vs[b] : b \in 1 .. a}' = S
        BY <2>1, <4>1
      <4>3. FlagsAt(r, n, S)'
        BY <1>3, <2>6, <4>1 DEF Setting
      <4> QED BY <4>2, <4>3 DEF FlagsAt
    <3>2. Fetching(n)' => Marked(r, {})'
      BY <1>3, <2>1, <2>6 DEF Setting, Marked, Comms
    <3>3. (prog[n].kind = "update" =>
             Marked(r, CommsOf(n)) /\ \A c \in CommsOf(n) : comm_in_prog[r][c])'
      BY <1>3, <2>1, <2>6 DEF Setting, Marked, Comms
    <3> QED BY <1>2, <2>1, <2>3, <2>6, <3>1, <3>2, <3>3 DEF Setting
  <2>7. ASSUME Second(r, n) PROVE Second(r, n)'
    <3>1. FlagsAt(r, n, {prog[n].vs[1]})' /\ Marked(r, {})'
      BY <1>3, <2>1, <2>7 DEF Second, Marked, Comms, FlagsAt, Vects
    <3> QED BY <1>2, <2>1, <2>3, <2>7, <3>1 DEF Second
  <2>8. ASSUME Using(r, n) PROVE Using(r, n)'
    <3>1. FlagsAt(r, n + 1, {})' /\ Marked(r, {})'
      BY <1>3, <2>8 DEF Using, Marked, Comms
    <3> QED BY <1>2, <2>1, <2>8, <3>1 DEF Using
  <2> QED BY <1>1, <1>2, <1>4, <2>4, <2>5, <2>6, <2>7, <2>8, InPhase
<1>6. n > 0 \/ Between(r, n)
  BY <1>1, <1>2 DEF Posting, Unpacking, Setting, Second, Using, Fetching
<1> QED BY <1>4, <1>5, <1>6

\* Where a thread that passes is.
LEMMA PassingAt ==
  ASSUME Typed, NEW r \in Ranks, NEW t \in Threads, NEW n \in 0 .. Len(prog), Passing(r, t, n),
         NEW i, i = ip[r][t], NEW o, o = prog[i]
  PROVE  /\ i \in Nat /\ i <= Len(prog) /\ n \in Nat /\ Len(prog) \in Nat /\ i >= n
         /\ pc[r][t] \notin Ended =>
              /\ i \in 1 .. Len(prog) /\ op(r, t) = o /\ o \in Ops /\ at[r][t] = 1 /\ Cur(r, t) = i
              /\ pc[r][t] = "write" => o.kind = "update"
              /\ pc[r][t] = "start" => o.kind \in {"read", "start"}
              /\ pc[r][t] \in {"fill", "filled"} => o.kind \in {"read", "start"} /\ Talks(i)
              /\ pc[r][t] = "finish" => o.kind = "finish" \/ (o.kind = "read" /\ ~ Talks(i))
              /\ pc[r][t] \in {"wait", "waited"} => o.kind = "finish" /\ Talks(i)
              /\ pc[r][t] \in {"loop", "looped"} => o.kind = "read" /\ ~ Talks(i)
              /\ pc[r][t] \in {"flag", "flag1", "flag2"} => o.kind = "update"
              /\ pc[r][t] \notin {"unpack", "setflag"}
              /\ pc[r][t] = "post" => i = n /\ o.kind = "start" /\ Talks(i)
              /\ pc[r][t] # "post" => i > n /\ pc[r][t] \in First(i)
         /\ pc[r][t] \in Ended => Cur(r, t) = i + 1
<1>1. /\ i \in Nat /\ i <= Len(prog) /\ n \in Nat /\ Len(prog) \in Nat
      /\ pc[r][t] \notin Ended => i \in 1 .. Len(prog) /\ op(r, t) = o /\ o \in Ops
  BY AtOp DEF Typed
<1>2. i >= n
  BY <1>1 DEF Passing
<1>3. ASSUME pc[r][t] \notin Ended, pc[r][t] # "post" PROVE i > n /\ pc[r][t] \in First(i)
  BY <1>3 DEF Passing
<1>4. ASSUME pc[r][t] = "post" PROVE i = n /\ o.kind = "start" /\ Talks(i)
  <2>1. pc[r][t] \notin First(i)
    <3>1. o \in Ops
      BY <1>1, <1>4 DEF Ended
    <3>2. o.kind \in {"read", "start", "finish", "update"}
      BY <3>1, Operations
    <3> QED BY <1>4, <3>2 DEF First, Ended
  <2> QED BY <1>4, <2>1 DEF Passing, Ended
<1>5. ASSUME pc[r][t] \notin Ended, pc[r][t] # "post"
      PROVE  /\ pc[r][t] = "write" => o.kind = "update"
             /\ pc[r][t] = "start" => o.kind \in {"read", "start"}
             /\ pc[r][t] \in {"fill", "filled"} => o.kind \in {"read", "start"} /\ Talks(i)
             /\ pc[r][t] = "finish" => o.kind = "finish" \/ (o.kind = "read" /\ ~ Talks(i))
             /\ pc[r][t] \in {"wait", "waited"} => o.kind = "finish" /\ Talks(i)
             /\ pc[r][t] \in {"loop", "looped"} => o.kind = "read" /\ ~ Talks(i)
             /\ pc[r][t] \in {"flag", "flag1", "flag2"} => o.kind = "update"
             /\ pc[r][t] \notin {"unpack", "setflag"}
  <2>1. pc[r][t] \in First(i) /\ o \in Ops
    BY <1>1, <1>3, <1>5
  <2>2. o.kind \in {"read", "start", "finish", "update"}
    BY <2>1, Operations
  <2>3. CASE o.kind = "update"
    BY <2>1, <2>3 DEF First
  <2>4. CASE o.kind = "read"
    BY <2>1, <2>4 DEF First
  <2>5. CASE o.kind = "start"
    BY <1>5, <2>1, <2>5 DEF First
  <2>6. CASE o.kind = "finish"
    <3>1. First(i) = {"finish"} \cup (IF Talks(i) THEN {"wait", "waited"} ELSE Ended)
      BY <2>6 DEF First
    <3>2. pc[r][t] \in {"finish", "wait", "waited"} /\ (pc[r][t] # "finish" => Talks(i))
      BY <1>5, <2>1, <3>1
    <3>3. CASE pc[r][t] = "finish"
      BY <2>6, <3>3
    <3>4. CASE pc[r][t] \in {"wait", "waited"}
      BY <2>6, <3>2, <3>4
    <3> QED BY <3>2, <3>3, <3>4
  <2> QED BY <2>2, <2>3, <2>4, <2>5, <2>6
<1>6. pc[r][t] \notin Ended => at[r][t] = 1
  BY DEF Passing
<1> QED BY <1>1, <1>2, <1>3, <1>4, <1>5, <1>6 DEF Cur, Ended

\* The next step of a thread that stays in its operation, ...
LEMMA StaysPassing ==
  ASSUME Typed, prog' = prog, ip' = ip, at' = at, NEW r \in Ranks, NEW t \in Threads,
         NEW n \in 0 .. Len(prog), valid'[r] = valid[r], comm_in_prog'[r] = comm_in_prog[r],
         Passing(r, t, n), NEW i, i = ip[r][t], i > n, pc[r][t] \notin Ended \cup {"post"},
         pc'[r][t] \notin Ended \cup {"post"}, pc'[r][t] \in First(i), FlagOf(r, t, i, 1)'
  PROVE  Passing(r, t, n)'
<1>1. \A k \in 1 .. Len(prog) : prog'[k] = prog[k]
  OBVIOUS
<1>2. /\ i \in 1 .. Len(prog) /\ i \in Nat /\ n \in Nat /\ Len(prog) \in Nat /\ prog \in Seq(Ops)
      /\ i > 0 /\ i <= Len(prog) /\ i <= Len(prog) + 1 /\ n + 1 \in Nat /\ n + 1 <= Len(prog) + 1
  BY PassingAt DEF Typed, Placed
<1>3. Cur(r, t) = i /\ Cur(r, t)' = i
  BY DEF Cur
<1>4. /\ \A v : ValidAt(v, i)' <=> ValidAt(v, i)
      /\ Talking(i)' = Talking(i) /\ Talking(n + 1)' = Talking(n + 1)
      /\ CommsOf(n + 1)' = CommsOf(n + 1) /\ First(i)' = First(i)
  BY <1>1, <1>2, Told, ToldMore
<1>5. FlagsAt(r, Cur(r, t), {})'
  <2>1. FlagsAt(r, i, {})
    BY <1>3 DEF Passing
  <2>2. \A v \in Vects : ValidAt(v, Cur(r, t))' <=> ValidAt(v, i)
    BY <1>3, <1>4
  <2> QED BY <2>1, <2>2 DEF FlagsAt, Vects
<1>6. (pc[r][t] # "post" =>
       /\ Talking(Cur(r, t)) = Talking(n + 1)
       /\ \A c \in CommsOf(n + 1) : comm_in_prog[r][c])'
  <2>1. Talking(i) = Talking(n + 1) /\ \A c \in CommsOf(n + 1) : comm_in_prog[r][c]
    BY <1>3 DEF Passing
  <2>2. Talking(Cur(r, t))' = Talking(i)
    BY <1>3, <1>4
  <2> QED BY <1>4, <2>1, <2>2
<1>7. \A k \in n + 1 .. i - 1 : Free(k)'
  <2>1. \A k \in n + 1 .. i - 1 : k \in Nat /\ k <= Len(prog) /\ k <= Len(prog) + 1 /\ k > 0
    BY <1>2
  <2>2. \A k \in n + 1 .. i - 1 : Free(k)' <=> Free(k)
    BY <1>1, <1>2, <2>1, ToldMore
  <2> QED BY <2>2 DEF Passing
<1>8. (at[r][t] = 1)'
  BY DEF Passing
<1>9. FlagOf(r, t, ip[r][t], 1)'
  BY DEF FlagOf
<1> QED BY <1>4, <1>5, <1>6, <1>7, <1>8, <1>9 DEF Passing

\* ... and of one that is done with it.
LEMMA EndsPassing ==
  ASSUME Typed, prog' = prog, ip' = ip, NEW r \in Ranks, NEW t \in Threads,
         NEW n \in 0 .. Len(prog), valid'[r] = valid[r],
         \A c \in Comms : comm_in_prog[r][c] => comm_in_prog'[r][c],
         Passing(r, t, n), NEW i, i = ip[r][t], i > n, pc[r][t] \notin Ended,
         pc'[r][t] \in Ended, Free(i), FlagsAt(r, i + 1, {}), Talking(i + 1) = Talking(i)
  PROVE  Passing(r, t, n)'
<1>1. \A k \in 1 .. Len(prog) : prog'[k] = prog[k]
  OBVIOUS
<1>2. /\ i \in 1 .. Len(prog) /\ i \in Nat /\ n \in Nat /\ Len(prog) \in Nat /\ prog \in Seq(Ops)
      /\ i > 0 /\ i <= Len(prog) /\ i <= Len(prog) + 1 /\ n + 1 \in Nat /\ n + 1 <= Len(prog) + 1
      /\ i + 1 \in Nat /\ i + 1 <= Len(prog) + 1 /\ pc[r][t] # "post"
  <2>1. /\ i \in 1 .. Len(prog) /\ n \in Nat /\ Len(prog) \in Nat
        /\ pc[r][t] = "post" => i = n
    BY PassingAt
  <2>2. prog \in Seq(Ops)
    BY DEF Typed, Placed
  <2> QED BY <2>1, <2>2
<1>3. Cur(r, t) = i /\ Cur(r, t)' = i + 1
  BY DEF Cur
<1>4. /\ \A v : ValidAt(v, i + 1)' <=> ValidAt(v, i + 1)
      /\ Talking(i + 1)' = Talking(i + 1) /\ Talking(n + 1)' = Talking(n + 1)
      /\ CommsOf(n + 1)' = CommsOf(n + 1) /\ First(i)' = First(i) /\ CommsOf(n + 1) \subseteq Comms
  BY <1>1, <1>2, Told, ToldMore DEF CommsOf, Comm, Comms
<1>5. FlagsAt(r, Cur(r, t), {})'
  <2>2. \A v \in Vects : ValidAt(v, Cur(r, t))' <=> ValidAt(v, i + 1)
    BY <1>3, <1>4
  <2> QED BY <2>2 DEF FlagsAt, Vects
<1>6. (Talking(Cur(r, t)) = Talking(n + 1) /\ \A c \in CommsOf(n + 1) : comm_in_prog[r][c])'
  <2>1. Talking(i) = Talking(n + 1) /\ \A c \in CommsOf(n + 1) : comm_in_prog[r][c]
    BY <1>2, <1>3 DEF Passing
  <2>2. Talking(Cur(r, t))' = Talking(i + 1)
    BY <1>3, <1>4
  <2> QED BY <1>4, <2>1, <2>2
<1>7. (\A k \in n + 1 .. i - 1 : Free(k))' /\ pc'[r][t] \in First(i)'
  <2>1. \A k \in n + 1 .. i - 1 : k \in Nat /\ k <= Len(prog) /\ k <= Len(prog) + 1 /\ k > 0
    BY <1>2
  <2>2. \A k \in n + 1 .. i - 1 : Free(k)' <=> Free(k)
    BY <1>1, <1>2, <2>1, ToldMore
  <2>3. \A k \in n + 1 .. i - 1 : Free(k)
    BY <1>2 DEF Passing
  <2>4. pc'[r][t] \in First(i)
    BY DEF First, Free
  <2> QED BY <1>4, <2>2, <2>3, <2>4
<1>8. FlagOf(r, t, ip[r][t], 1)'
  BY DEF FlagOf, Ended
<1> QED BY <1>4, <1>5, <1>6, <1>7, <1>8 DEF Passing

\* A step that leaves the program alone.
LEMMA SameProg ==
  ASSUME Typed, prog' = prog, NEW r, NEW i \in Nat, i <= Len(prog) + 1
  PROVE  /\ \A v : ValidAt(v, i)' <=> ValidAt(v, i)
         /\ Talking(i)' = Talking(i) /\ CommsOf(i)' = CommsOf(i) /\ CommsOf(i) \subseteq Comms
         /\ i > 0 /\ i <= Len(prog) =>
              /\ Talks(i)' <=> Talks(i)
              /\ Fetching(i)' <=> Fetching(i)
              /\ Free(i)' <=> Free(i)
              /\ First(i)' = First(i) /\ Comm(prog[i])' = Comm(prog[i])
         /\ valid'[r] = valid[r] => \A W : FlagsAt(r, i, W)' <=> FlagsAt(r, i, W)
         /\ comm_in_prog'[r] = comm_in_prog[r] => \A S : Marked(r, S)' <=> Marked(r, S)
<1>1. prog \in Seq(Ops) /\ \A k \in 1 .. Len(prog) : prog'[k] = prog[k]
  BY DEF Typed, Placed
<1>2. /\ \A v : ValidAt(v, i)' <=> ValidAt(v, i)
      /\ Talking(i)' = Talking(i) /\ CommsOf(i)' = CommsOf(i)
      /\ i > 0 /\ i <= Len(prog) =>
              /\ Talks(i)' <=> Talks(i)
              /\ Fetching(i)' <=> Fetching(i)
              /\ Free(i)' <=> Free(i)
              /\ First(i)' = First(i)
  BY <1>1, Told, ToldMore
<1>3. Comm(prog[i])' = Comm(prog[i]) /\ CommsOf(i) \subseteq Comms
  BY DEF Comm, CommsOf, Comms
<1>4. valid'[r] = valid[r] => \A W : FlagsAt(r, i, W)' <=> FlagsAt(r, i, W)
  BY <1>2 DEF FlagsAt, Vects
<1>5. comm_in_prog'[r] = comm_in_prog[r] => \A S : Marked(r, S)' <=> Marked(r, S)
  BY DEF Marked, Comms
<1> QED BY <1>2, <1>3, <1>4, <1>5

\* The flags when an operation ends.
LEMMA FlagsNext ==
  ASSUME Typed, NEW r \in Ranks, NEW n \in 1 .. Len(prog), NEW W, FlagsAt(r, n, W),
         W \subseteq ToSet(prog[n].vs), W = {} \/ prog[n].kind # "start",
         \A v \in ToSet(prog[n].vs) :
           /\ prog[n].kind = "update" => ~ valid[r][v]
           /\ prog[n].kind \in {"read", "finish"} => valid[r][v]
  PROVE  FlagsAt(r, n + 1, {})
<1>1. prog \in Seq(Ops) /\ prog[n] \in Ops
  BY DEF Typed, Placed
<1>2. /\ prog[n].kind \in {"read", "start", "finish", "update"}
      /\ prog[n].kind = "update" => prog[n] = UpdateOf(prog[n].vs[1]) /\ ToSet(prog[n].vs) = {prog[n].vs[1]}
  BY <1>1, Operations
<1>3. ASSUME NEW v \in Vects PROVE valid[r][v] <=> ValidAt(v, n + 1)
  <2>1. CASE prog[n] = UpdateOf(v)
    <3>1. prog[n].kind = "update" /\ v \in ToSet(prog[n].vs)
      <4>1. prog[n].kind = "update" /\ prog[n].vs = <<v>>
        BY <2>1 DEF UpdateOf
      <4> QED BY <1>2, <4>1
    <3> QED BY <1>1, <2>1, <3>1, ValidNext
  <2>2. CASE prog[n] # UpdateOf(v)
    <3>1. ValidAt(v, n + 1) <=> \/ ValidAt(v, n)
                                \/ prog[n].kind \in {"read", "finish"} /\ v \in ToSet(prog[n].vs)
      BY <1>1, <2>2, ValidNext
    <3>2. v \notin W => (valid[r][v] <=> ValidAt(v, n))
      BY DEF FlagsAt
    <3>3. prog[n].kind = "update" => v \notin ToSet(prog[n].vs)
      BY <1>2, <2>2
    <3> QED BY <1>2, <3>1, <3>2, <3>3
  <2> QED BY <2>1, <2>2
<1> QED BY <1>3 DEF FlagsAt

\* All threads leave the last barrier of operation n.
LEMMA EndsBetween ==
  ASSUME Typed, prog' = prog, ip' = ip, Threads' = Threads, NEW r \in Ranks, NEW n \in 1 .. Len(prog),
         valid'[r] = valid[r], comm_in_prog'[r] = comm_in_prog[r],
         \A t \in Threads : ip[r][t] = n /\ pc'[r][t] = "next",
         FlagsAt(r, n + 1, {}), Marked(r, CommsOf(n + 1)), \A c \in CommsOf(n + 1) : comm_in_prog[r][c]
  PROVE  Between(r, n)'
<1>1. n \in Nat /\ Len(prog) \in Nat /\ n + 1 \in Nat /\ n + 1 <= Len(prog) + 1
  BY DEF Typed, Placed
<1>2. /\ CommsOf(n + 1)' = CommsOf(n + 1) /\ FlagsAt(r, n + 1, {})'
      /\ Marked(r, CommsOf(n + 1))' /\ Talking(n + 1)' = Talking(n + 1)
  <2>1. PICK S : S = CommsOf(n + 1)
    OBVIOUS
  <2>2. /\ CommsOf(n + 1)' = S /\ FlagsAt(r, n + 1, {})' /\ Marked(r, S)'
        /\ Talking(n + 1)' = Talking(n + 1)
    BY <1>1, <2>1, SameProg
  <2> QED BY <2>1, <2>2 DEF Marked
<1>3. ASSUME NEW t \in Threads PROVE Passing(r, t, n)'
  <2>1. ip'[r][t] = n /\ pc'[r][t] = "next"
    OBVIOUS
  <2>2. Cur(r, t)' = n + 1
    BY <2>1 DEF Cur, Ended
  <2>3. FlagsAt(r, Cur(r, t), {})'
    BY <1>2, <2>2 DEF FlagsAt
  <2>4. Talking(Cur(r, t))' = Talking(n + 1)'
    BY <2>2 DEF Talking, Open, Talks, ValidAt, UpdateOf
  <2>5. FlagOf(r, t, ip[r][t], 1)'
    BY <2>1 DEF FlagOf
  <2>6. \A c \in CommsOf(n + 1)' : comm_in_prog'[r][c]
    BY <1>2
  <2> QED BY <2>1, <2>3, <2>4, <2>5, <2>6 DEF Passing, Ended
<1> QED BY <1>2, <1>3 DEF Between

\* What a thread decides while it passes is what the program says.
LEMMA Decides ==
  ASSUME Typed, ProgInv, NEW r \in Ranks, NEW i \in 1 .. Len(prog), FlagsAt(r, i, {})
  PROVE  /\ (\E v \in ToSet(prog[i].vs) : ~ valid[r][v]) <=> Talks(i)
         /\ prog[i].kind = "finish" /\ Marked(r, CommsOf(i)) /\ (\A c \in CommsOf(i) : comm_in_prog[r][c])
              => (Busy(r, prog[i].vs) <=> Talks(i))
         /\ prog[i].kind = "read" /\ Talks(i) /\ comm_in_prog[r][Comm(prog[i])] => Busy(r, prog[i].vs)
         /\ prog[i].kind = "read" /\ Marked(r, CommsOf(i)) /\ ~ Talks(i) => ~ Busy(r, prog[i].vs)
<1>1. prog \in Seq(Ops) /\ prog[i] \in Ops
  BY DEF Typed, Placed
<1>2. /\ ToSet(prog[i].vs) \subseteq Vects /\ Len(prog[i].vs) \in {1, 2}
      /\ Len(prog[i].vs) = 1 => ToSet(prog[i].vs) = {prog[i].vs[1]}
  BY <1>1, Operations
<1>3. \A v \in Vects : valid[r][v] <=> ValidAt(v, i)
  BY DEF FlagsAt
<1>4. (\E v \in ToSet(prog[i].vs) : ~ valid[r][v]) <=> Talks(i)
  BY <1>2, <1>3 DEF Talks
<1>5. CASE Len(prog[i].vs) = 1
  <2>1. Busy(r, prog[i].vs) <=> ~ valid[r][prog[i].vs[1]]
    BY <1>5 DEF Busy
  <2> QED BY <1>2, <1>4, <1>5, <2>1
<1>6. CASE Len(prog[i].vs) = 2
  <2>1. (Busy(r, prog[i].vs) <=> comm_in_prog[r]["lx"]) /\ Comm(prog[i]) = "lx" /\ "lx" \in Comms
    BY <1>6 DEF Busy, Comm, Comms
  <2>2. prog[i].kind = "finish" => (Talks(i) <=> Talking(i) # {})
    BY <1>1, TalkingNext
  <2>3. prog[i].kind = "read" => Talking(i) = {}
    BY <1>1, TalkingNext
  <2>4. \A j \in Talking(i) : prog[i].kind = "finish" => Comm(prog[j]) = "lx"
    <3>1. \A j \in Talking(i) : prog[i].kind = "finish" => prog[i].vs = prog[j].vs
      BY <1>1, TalkingNext
    <3> QED BY <1>6, <3>1 DEF Comm
  <2>5. prog[i].kind = "finish" => CommsOf(i) = IF Talks(i) THEN {"lx"} ELSE {}
    BY <2>2, <2>4 DEF CommsOf
  <2>6. prog[i].kind = "read" => CommsOf(i) = {}
    BY <2>3 DEF CommsOf
  <2>7. ASSUME prog[i].kind = "finish", Marked(r, CommsOf(i)), \A c \in CommsOf(i) : comm_in_prog[r][c]
        PROVE  Busy(r, prog[i].vs) <=> Talks(i)
    <3>1. CASE Talks(i)
      BY <2>1, <2>5, <2>7, <3>1
    <3>2. CASE ~ Talks(i)
      BY <2>1, <2>5, <2>7, <3>2 DEF Marked
    <3> QED BY <3>1, <3>2
  <2>8. prog[i].kind = "read" /\ Talks(i) /\ comm_in_prog[r][Comm(prog[i])] => Busy(r, prog[i].vs)
    BY <2>1
  <2>9. prog[i].kind = "read" /\ Marked(r, CommsOf(i)) /\ ~ Talks(i) => ~ Busy(r, prog[i].vs)
    BY <2>1, <2>6 DEF Marked
  <2> QED BY <1>4, <2>7, <2>8, <2>9
<1> QED BY <1>2, <1>5, <1>6

\* A thread steps between two barriers, ...
LEMMA PassingStep ==
  ASSUME Typed, ProgInv, nparal_dir > 0, NEW r \in Ranks, NEW t \in Threads, NEW n \in 0 .. Len(prog),
         Between(r, n), Advance(r, t), ~ Call(r, t)
  PROVE  Passing(r, t, n)'
<1> DEFINE i == ip[r][t]
           o == prog[i]
<1>1. /\ Passing(r, t, n) /\ Marked(r, CommsOf(n + 1))
      /\ prog' = prog /\ ip' = ip /\ at' = at /\ Ranks' = Ranks /\ Threads' = Threads
      /\ pc[r][t] \notin Waiting /\ pc[r][t] \in PCs
      /\ prog \in Seq(Ops)
  <2>1. Passing(r, t, n) /\ Marked(r, CommsOf(n + 1)) /\ prog \in Seq(Ops) /\ pc[r][t] \in PCs
    BY DEF Between, Typed, Placed
  <2> QED BY <2>1, GoesTo
<1>2. /\ i \in Nat /\ i <= Len(prog) /\ n \in Nat /\ Len(prog) \in Nat /\ i >= n
      /\ pc[r][t] \notin Ended => i \in 1 .. Len(prog) /\ op(r, t) = o /\ o \in Ops /\ at[r][t] = 1 /\ Cur(r, t) = i
  BY <1>1, PassingAt
<1>3. CASE pc[r][t] \in Ended
  <2>1. pc'[r][t] \in Ended /\ valid'[r] = valid[r] /\ \A c \in Comms : comm_in_prog'[r][c] = comm_in_prog[r][c]
    <3>1. pc[r][t] \notin {"post", "unpack", "setflag"}
      BY <1>3 DEF Ended
    <3>2. valid' = valid /\ comm_in_prog' = comm_in_prog
      BY <3>1, Quiet
    <3> QED BY <1>3, <3>2, GoesTo
  <2>2. Cur(r, t) = i + 1 /\ Cur(r, t)' = i + 1 /\ i + 1 \in Nat /\ i + 1 <= Len(prog) + 1
        /\ n + 1 \in Nat /\ n + 1 <= Len(prog) + 1
    BY <1>1, <1>2, <1>3, <2>1 DEF Cur
  <2>3. FlagsAt(r, Cur(r, t), {})'
    <3>1. FlagsAt(r, i + 1, {})
      BY <1>1, <2>2 DEF Passing
    <3>2. FlagsAt(r, i + 1, {})'
      BY <1>1, <2>1, <2>2, <3>1, SameProg
    <3>3. \A v : ValidAt(v, Cur(r, t))' <=> ValidAt(v, i + 1)'
      <4>1. PICK k \in Nat : k = i + 1 /\ k <= Len(prog) + 1
        BY <2>2
      <4>2. \A v : (ValidAt(v, Cur(r, t))' <=> ValidAt(v, k)) /\ (ValidAt(v, i + 1)' <=> ValidAt(v, k))
        BY <1>1, <2>2, <4>1, SameProg
      <4> QED BY <4>2
    <3> QED BY <3>2, <3>3 DEF FlagsAt
  <2>4. /\ Talking(i + 1)' = Talking(i + 1) /\ Talking(n + 1)' = Talking(n + 1)
        /\ CommsOf(n + 1)' = CommsOf(n + 1) /\ CommsOf(n + 1) \subseteq Comms
    BY <1>1, <2>2, SameProg
  <2>5. (Talking(Cur(r, t)) = Talking(n + 1) /\ \A c \in CommsOf(n + 1) : comm_in_prog[r][c])'
    <3>1. Talking(i + 1) = Talking(n + 1) /\ \A c \in CommsOf(n + 1) : comm_in_prog[r][c]
      BY <1>1, <1>3, <2>2 DEF Passing, Ended
    <3>2. PICK k \in Nat : k = i + 1 /\ k = Cur(r, t) /\ k = Cur(r, t)' /\ k <= Len(prog) + 1
      BY <2>2
    <3>3. Talking(k)' = Talking(k)
      BY <1>1, <3>2, SameProg
    <3>4. Talking(Cur(r, t))' = Talking(k)'
      BY <3>2, <3>3 DEF Talking, Open, Talks, ValidAt, UpdateOf
    <3> QED BY <2>1, <2>4, <3>1, <3>2, <3>3, <3>4
  <2>6. FlagOf(r, t, ip[r][t], 1)'
    BY <2>1 DEF FlagOf, Ended
  <2>7. (\/ ip[r][t] = n /\ pc[r][t] \in Ended
         \/ /\ ip[r][t] > n /\ pc[r][t] \in First(ip[r][t])
            /\ \A k \in n + 1 .. ip[r][t] - 1 : Free(k))'
    <3>1. CASE i = n
      BY <1>1, <2>1, <3>1 DEF Ended
    <3>2. CASE i > n
      <4>1. pc[r][t] \in First(i) /\ \A k \in n + 1 .. i - 1 : Free(k)
        BY <1>1, <1>3, <3>2 DEF Passing, Ended
      <4>2. o \in Ops /\ i > 0
        BY <1>1, <1>2, <3>2
      <4>3. o.kind \in {"read", "start", "finish", "update"}
        BY <4>2, Operations
      <4>4. Ended \subseteq First(i)
        <5>1. CASE o.kind \in {"update", "read"}
          BY <1>3, <4>1, <5>1 DEF First, Ended
        <5>2. CASE o.kind = "start"
          BY <1>3, <4>1, <5>2 DEF First, Ended
        <5>3. CASE o.kind = "finish"
          BY <1>3, <4>1, <5>3 DEF First, Ended
        <5> QED BY <4>3, <5>1, <5>2, <5>3
      <4>5. \A k \in n + 1 .. i - 1 : k \in Nat /\ k <= Len(prog) /\ k <= Len(prog) + 1 /\ k > 0
        BY <1>2
      <4>6. \A k \in n + 1 .. i - 1 : Free(k)'
        <5> SUFFICES ASSUME NEW k \in n + 1 .. i - 1 PROVE Free(k)'
          OBVIOUS
        <5>1. k \in Nat /\ k <= Len(prog) /\ k <= Len(prog) + 1 /\ k > 0 /\ Free(k)
          BY <4>1, <4>5
        <5>2. Free(k)' <=> Free(k)
          <6> HIDE DEF i, o
          <6> QED BY <1>1, <5>1, SameProg
        <5> QED BY <5>1, <5>2
      <4>7. First(i)' = First(i)
        <5>1. i \in Nat /\ i <= Len(prog) /\ i <= Len(prog) + 1 /\ i > 0
          BY <1>2, <4>2
        <5>2. PICK k \in Nat : k = i /\ k <= Len(prog) /\ k <= Len(prog) + 1 /\ k > 0
          BY <5>1
        <5>3. First(k)' = First(k)
          BY <1>1, <5>2, SameProg
        <5>4. ip'[r][t] = k
          BY <1>1, <5>2
        <5> QED BY <5>2, <5>3, <5>4
      <4> QED BY <1>1, <2>1, <3>2, <4>4, <4>6, <4>7
    <3> QED BY <1>2, <3>1, <3>2
  <2> QED BY <2>1, <2>3, <2>5, <2>6, <2>7 DEF Passing, Ended
<1>4. CASE pc[r][t] \notin Ended /\ pc[r][t] # "post"
  <2>1. /\ i > n /\ i \in 1 .. Len(prog) /\ op(r, t) = o /\ o \in Ops /\ at[r][t] = 1 /\ Cur(r, t) = i
        /\ pc[r][t] = "write" => o.kind = "update"
        /\ pc[r][t] = "start" => o.kind \in {"read", "start"}
        /\ pc[r][t] \in {"fill", "filled"} => o.kind \in {"read", "start"} /\ Talks(i)
        /\ pc[r][t] = "finish" => o.kind = "finish" \/ (o.kind = "read" /\ ~ Talks(i))
        /\ pc[r][t] \in {"wait", "waited"} => o.kind = "finish" /\ Talks(i)
        /\ pc[r][t] \in {"loop", "looped"} => o.kind = "read" /\ ~ Talks(i)
        /\ pc[r][t] \in {"flag", "flag1", "flag2"} => o.kind = "update"
        /\ pc[r][t] \notin {"unpack", "setflag"}
    BY <1>1, <1>4, PassingAt
  <2>2. /\ valid'[r] = valid[r] /\ \A c \in Comms : comm_in_prog'[r][c] = comm_in_prog[r][c]
        /\ comm_in_prog'[r] = comm_in_prog[r]
    <3>1. valid' = valid /\ comm_in_prog' = comm_in_prog
      BY <1>4, <2>1, Quiet
    <3> QED BY <3>1
  <2>3. /\ FlagsAt(r, i, {}) /\ Talking(i) = Talking(n + 1) /\ CommsOf(i) = CommsOf(n + 1)
        /\ Marked(r, CommsOf(i)) /\ \A c \in CommsOf(i) : comm_in_prog[r][c]
    BY <1>1, <1>4, <2>1 DEF Passing, CommsOf
  <2>4. /\ (\E v \in ToSet(o.vs) : ~ valid[r][v]) <=> Talks(i)
        /\ o.kind = "finish" => (Busy(r, o.vs) <=> Talks(i))
        /\ o.kind = "read" /\ ~ Talks(i) => ~ Busy(r, o.vs)
    BY <2>1, <2>3, Decides
  <2>5. ASSUME pc'[r][t] \in Ended, Free(i), o.kind = "start" => Talking(i + 1) = {} /\ Talking(i) = {},
               o.kind = "finish" => Talking(i + 1) = {} /\ Talking(i) = {}
        PROVE  Passing(r, t, n)'
    <3>1. o.kind \in {"start", "finish"} /\ ~ Talks(i)
      BY <2>5 DEF Free
    <3>2. \A v \in ToSet(o.vs) : valid[r][v]
      BY <2>4, <3>1
    <3>3. FlagsAt(r, i + 1, {})
      BY <2>1, <2>3, <3>1, <3>2, FlagsNext
    <3>4. Talking(i + 1) = Talking(i)
      BY <2>5, <3>1
    <3> HIDE DEF i
    <3> QED BY <1>1, <1>4, <2>1, <2>2, <2>5, <3>3, <3>4, EndsPassing DEF i
  <2>6. ASSUME pc'[r][t] \notin Ended \cup {"post"}, pc'[r][t] \in First(i), FlagOf(r, t, i, 1)'
        PROVE  Passing(r, t, n)'
    <3> HIDE DEF i
    <3> QED BY <1>1, <1>4, <2>1, <2>2, <2>6, StaysPassing DEF i
  <2>7. /\ o.kind = "start" => Talking(i) = {} /\ Talking(i + 1) = IF Talks(i) THEN {i} ELSE {}
        /\ o.kind = "finish" => Talking(i + 1) = {} /\ (Talks(i) <=> Talking(i) # {})
    BY <1>1, <2>1, TalkingNext
  <2>8. pc'[r][t] \notin {"flag1", "flag2"} => FlagOf(r, t, i, 1)'
    BY DEF FlagOf
  <2>9. CASE pc[r][t] = "write"
    <3>1. pc'[r][t] = "flag" /\ o.kind = "update"
      BY <2>1, <2>9, GoesTo
    <3> QED BY <2>6, <2>8, <3>1 DEF First, Ended
  <2>10. CASE pc[r][t] = "start"
    <3>1. o.kind \in {"read", "start"} /\ pc'[r][t] = IF Talks(i) THEN "fill"
                                             ELSE IF o.kind = "start" THEN "next" ELSE "finish"
      BY <2>1, <2>4, <2>10, GoesTo
    <3>2. CASE o.kind = "start" /\ ~ Talks(i)
      BY <2>5, <2>7, <3>1, <3>2 DEF Free, Ended
    <3>3. CASE o.kind = "read" \/ Talks(i)
      <4>1. pc'[r][t] = IF Talks(i) THEN "fill" ELSE "finish"
        BY <3>1, <3>3
      <4>2. pc'[r][t] \in First(i)
        <5>1. CASE o.kind = "read"
          BY <4>1, <5>1 DEF First
        <5>2. CASE o.kind = "start"
          BY <3>3, <4>1, <5>2 DEF First
        <5> QED BY <3>1, <5>1, <5>2
      <4> QED BY <2>6, <2>8, <4>1, <4>2 DEF Ended
    <3> QED BY <3>1, <3>2, <3>3
  <2>11. CASE pc[r][t] = "fill"
    <3>1. pc'[r][t] = "filled" /\ o.kind \in {"read", "start"} /\ Talks(i)
      BY <2>1, <2>11, GoesTo
    <3>2. pc'[r][t] \in First(i)
      <4>1. CASE o.kind = "read"
        BY <3>1, <4>1 DEF First
      <4>2. CASE o.kind = "start"
        BY <3>1, <4>2 DEF First
      <4> QED BY <3>1, <4>1, <4>2
    <3> QED BY <2>6, <2>8, <3>1, <3>2 DEF Ended
  <2>12. CASE pc[r][t] = "finish"
    <3>1. pc'[r][t] = IF Busy(r, o.vs) THEN "wait" ELSE IF o.kind = "read" THEN "loop" ELSE "next"
      BY <2>1, <2>12, GoesTo
    <3>2. CASE o.kind = "finish" /\ Talks(i)
      <4>1. pc'[r][t] = "wait"
        BY <2>4, <3>1, <3>2
      <4> QED BY <2>6, <2>8, <3>2, <4>1 DEF First, Ended
    <3>3. CASE o.kind = "finish" /\ ~ Talks(i)
      <4>1. pc'[r][t] = "next"
        BY <2>4, <3>1, <3>3
      <4> QED BY <2>5, <2>7, <3>3, <4>1 DEF Free, Ended
    <3>4. CASE o.kind = "read" /\ ~ Talks(i)
      <4>1. pc'[r][t] = "loop"
        BY <2>4, <3>1, <3>4
      <4> QED BY <2>6, <2>8, <3>4, <4>1 DEF First, Ended
    <3> QED BY <2>1, <2>12, <3>2, <3>3, <3>4
  <2>13. CASE pc[r][t] = "wait"
    <3>1. pc'[r][t] = "waited" /\ o.kind = "finish" /\ Talks(i)
      BY <2>1, <2>13, GoesTo
    <3> QED BY <2>6, <2>8, <3>1 DEF First, Ended
  <2>14. CASE pc[r][t] = "flag"
    <3>1. o.kind = "update" /\ pc'[r][t] = IF valid[r][o.vs[1]] THEN "flag1" ELSE "flag2"
      BY <2>1, <2>14, GoesTo
    <3>2. FlagOf(r, t, i, 1)'
      BY <1>1, <2>2, <3>1 DEF FlagOf
    <3> QED BY <2>6, <3>1, <3>2 DEF First, Ended
  <2>15. CASE pc[r][t] = "loop"
    <3>1. pc'[r][t] = "looped" /\ o.kind = "read" /\ ~ Talks(i)
      BY <2>1, <2>15, GoesTo
    <3> QED BY <2>6, <2>8, <3>1 DEF First, Ended
  <2> QED BY <1>1, <1>4, <2>1, <2>9, <2>10, <2>11, <2>12, <2>13, <2>14, <2>15 DEF PCs, Waiting, Ended
<1>5. CASE pc[r][t] = "post"
  <2>1. i = n /\ o.kind = "start" /\ Talks(i) /\ i \in 1 .. Len(prog) /\ op(r, t) = o
    BY <1>1, <1>5, PassingAt DEF Ended
  <2>2. pc'[r][t] = "next" /\ valid'[r] = valid[r] /\ comm_in_prog'[r][Comm(o)]
    <3>1. Comm(o) \in Comms
      BY DEF Comm, Comms
    <3>2. pc'[r][t] = "next"
      BY <1>5, <2>1, GoesTo
    <3>3. valid' = valid
      BY <1>5, Marks
    <3>4. comm_in_prog'[r][Comm(o)] = TRUE
      <4>1. \A c \in Comms : comm_in_prog'[r][c] = IF c = Comm(op(r, t)) THEN TRUE ELSE comm_in_prog[r][c]
        BY <1>5, Marks
      <4> QED BY <2>1, <3>1, <4>1
    <3> QED BY <3>2, <3>3, <3>4
  <2>3. Cur(r, t) = n /\ Cur(r, t)' = n + 1 /\ n + 1 \in Nat /\ n + 1 <= Len(prog) + 1
    BY <1>1, <1>2, <1>5, <2>1, <2>2 DEF Cur, Ended
  <2>4. FlagsAt(r, n + 1, {})
    <3>1. FlagsAt(r, n, {})
      BY <1>1, <2>3 DEF Passing
    <3> QED BY <2>1, <3>1, FlagsNext
  <2>5. FlagsAt(r, Cur(r, t), {})'
    <3>1. FlagsAt(r, n + 1, {})'
      BY <1>1, <2>2, <2>3, <2>4, SameProg
    <3> QED BY <2>3, <3>1 DEF FlagsAt
  <2>6. CommsOf(n + 1)' = {Comm(o)} /\ Talking(n + 1)' = Talking(n + 1)
    <3>1. Talking(n + 1) = {n}
      BY <1>1, <2>1, TalkingNext
    <3>2. CommsOf(n + 1) = {Comm(o)}
      BY <2>1, <3>1 DEF CommsOf
    <3> QED BY <1>1, <2>3, <3>2, SameProg
  <2>7. (Talking(Cur(r, t)) = Talking(n + 1) /\ \A c \in CommsOf(n + 1) : comm_in_prog[r][c])'
    <3>1. Talking(Cur(r, t))' = Talking(n + 1)'
      <4>1. Talking(Cur(r, t))' = Talking(n + 1)
        BY <2>3, <2>6
      <4> QED BY <2>6, <4>1
    <3> QED BY <2>2, <2>6, <3>1
  <2>8. FlagOf(r, t, ip[r][t], 1)'
    BY <2>2 DEF FlagOf
  <2> QED BY <1>1, <2>1, <2>2, <2>5, <2>7, <2>8 DEF Passing, Ended
<1> QED BY <1>3, <1>4, <1>5

\* ... and with it its rank.
LEMMA BetweenStep ==
  ASSUME Typed, ProgInv, nparal_dir > 0, NEW r \in Ranks, NEW t \in Threads, NEW n \in 0 .. Len(prog),
         Between(r, n), Advance(r, t), ~ Call(r, t)
  PROVE  Between(r, n)'
<1>1. /\ prog' = prog /\ ip' = ip /\ at' = at /\ Ranks' = Ranks /\ Threads' = Threads
      /\ prog \in Seq(Ops) /\ n + 1 \in Nat /\ n + 1 <= Len(prog) + 1
      /\ \A u \in Threads : u # t => pc'[r][u] = pc[r][u]
      /\ Passing(r, t, n) /\ Marked(r, CommsOf(n + 1)) /\ pc[r][t] \notin Waiting
  <2>1. Passing(r, t, n) /\ Marked(r, CommsOf(n + 1)) /\ prog \in Seq(Ops) /\ Len(prog) \in Nat
    BY DEF Between, Typed, Placed
  <2>2. n + 1 \in Nat /\ n + 1 <= Len(prog) + 1
    BY <2>1
  <2> QED BY <2>1, <2>2, GoesTo
<1>2. /\ pc[r][t] # "setflag" /\ pc[r][t] # "unpack"
      /\ pc[r][t] = "post" => ip[r][t] = n /\ n > 0 /\ prog[n].kind = "start" /\ Talks(n) /\ op(r, t) = prog[n]
  <2>1. /\ pc[r][t] \notin Ended => pc[r][t] \notin {"unpack", "setflag"} /\ op(r, t) = prog[ip[r][t]]
        /\ pc[r][t] \notin Ended => ip[r][t] \in 1 .. Len(prog)
        /\ pc[r][t] \notin Ended => (pc[r][t] = "post" =>
             ip[r][t] = n /\ prog[ip[r][t]].kind = "start" /\ Talks(ip[r][t]))
    BY <1>1, PassingAt
  <2> QED BY <2>1 DEF Ended
<1>3. \A c \in Comms : comm_in_prog[r][c] => comm_in_prog'[r][c]
  <2>1. CASE pc[r][t] # "post"
    <3>1. comm_in_prog' = comm_in_prog
      BY <1>2, <2>1, Quiet
    <3> QED BY <3>1
  <2>2. CASE pc[r][t] = "post"
    <3>1. \A c \in Comms : comm_in_prog'[r][c] = IF c = Comm(op(r, t)) THEN TRUE ELSE comm_in_prog[r][c]
      BY <2>2, Marks
    <3> QED BY <3>1
  <2> QED BY <2>1, <2>2
<1>4. \A v \in Vects : valid'[r][v] = valid[r][v]
  <2>1. valid' = valid
    BY <1>2, Marks
  <2> QED BY <2>1
<1>5. \A u \in Threads : Passing(r, u, n)'
  <2>1. ASSUME NEW u \in Threads, u # t PROVE Passing(r, u, n)'
    <3>1. \A k \in 1 .. Len(prog) : prog'[k] = prog[k]
      BY <1>1
    <3>2. Passing(r, u, n) /\ ip'[r][u] = ip[r][u] /\ pc'[r][u] = pc[r][u] /\ at'[r][u] = at[r][u]
      BY <1>1, <2>1 DEF Between
    <3> QED BY <1>1, <1>3, <1>4, <3>1, <3>2, PassingKept
  <2> QED BY <2>1, PassingStep
<1>6. CommsOf(n + 1)' = CommsOf(n + 1)
  BY <1>1, SameProg
<1>7. Marked(r, CommsOf(n + 1))'
  <2>1. CASE pc[r][t] # "post"
    <3>1. \A c \in Comms : comm_in_prog'[r][c] = comm_in_prog[r][c]
      BY <1>2, <2>1, Quiet
    <3> QED BY <1>1, <1>6, <3>1 DEF Marked, Comms
  <2>2. CASE pc[r][t] = "post"
    <3>1. n \in 1 .. Len(prog)
      BY <1>2, <2>2
    <3>2. Talking(n + 1) = {n}
      BY <1>1, <1>2, <2>2, <3>1, TalkingNext
    <3>3. CommsOf(n + 1) = {Comm(prog[n])}
      BY <3>2 DEF CommsOf
    <3>4. \A c \in Comms : comm_in_prog'[r][c] => c = Comm(prog[n]) \/ comm_in_prog[r][c]
      <4>1. \A c \in Comms : comm_in_prog'[r][c] = IF c = Comm(op(r, t)) THEN TRUE ELSE comm_in_prog[r][c]
        BY <2>2, Marks
      <4> QED BY <1>2, <2>2, <4>1
    <3> QED BY <1>1, <1>6, <3>3, <3>4 DEF Marked, Comms
  <2> QED BY <2>1, <2>2
<1> QED BY <1>1, <1>5, <1>7 DEF Between

\* The steps of a thread in the other phases.
LEMMA ThreadStep ==
  ASSUME Typed, ProgInv, nparal_dir > 0, NEW r \in Ranks, NEW t \in Threads, NEW n \in 0 .. Len(prog),
         Advance(r, t), ~ Call(r, t)
  PROVE  /\ Posting(r, n) => Posting(r, n)'
         /\ Unpacking(r, n) => Unpacking(r, n)'
         /\ \A a \in {1, 2} : Setting(r, n, a) => Setting(r, n, a)'
         /\ Second(r, n) => Second(r, n)'
         /\ Using(r, n) => Using(r, n)'
<1>1. /\ prog' = prog /\ ip' = ip /\ at' = at /\ Threads' = Threads
      /\ pc[r][t] \notin Waiting
      /\ \A u \in Threads : u # t => pc'[r][u] = pc[r][u]
  BY GoesTo
<1>2. SUFFICES ASSUME n > 0
               PROVE  /\ Posting(r, n) => Posting(r, n)'
                      /\ Unpacking(r, n) => Unpacking(r, n)'
                      /\ \A a \in {1, 2} : Setting(r, n, a) => Setting(r, n, a)'
                      /\ Second(r, n) => Second(r, n)'
                      /\ Using(r, n) => Using(r, n)'
  <2>1. ~ n > 0 => /\ ~ Posting(r, n) /\ ~ Unpacking(r, n) /\ ~ Second(r, n) /\ ~ Using(r, n)
                   /\ \A a : ~ Setting(r, n, a)
    BY DEF Posting, Unpacking, Second, Using, Setting, Fetching
  <2> QED BY <2>1
<1>3. /\ n \in 1 .. Len(prog) /\ n \in Nat /\ Len(prog) \in Nat /\ prog[n] \in Ops
      /\ n <= Len(prog) /\ n <= Len(prog) + 1 /\ n + 1 \in Nat /\ n + 1 <= Len(prog) + 1
  BY <1>2 DEF Typed, Placed
<1>4. /\ Talks(n)' <=> Talks(n)
      /\ Fetching(n)' <=> Fetching(n)
      /\ Comm(prog[n])' = Comm(prog[n])
      /\ CommsOf(n)' = CommsOf(n)
  BY <1>1, <1>2, <1>3, SameProg
<1>5. /\ ToSet(prog[n].vs) \subseteq Vects /\ Comm(prog[n]) \in Comms
      /\ \A a \in DOMAIN prog[n].vs : prog[n].vs[a] \in Vects
      /\ 2 \in DOMAIN prog[n].vs => prog[n].vs[1] # prog[n].vs[2]
      /\ DOMAIN prog[n].vs = 1 .. Len(prog[n].vs)
      /\ prog[n].kind = "update" => Len(prog[n].vs) = 1
  <2>1. Comm(prog[n]) \in Comms
    BY DEF Comm, Comms
  <2>2. /\ ToSet(prog[n].vs) \subseteq Vects /\ DOMAIN prog[n].vs = 1 .. Len(prog[n].vs)
        /\ \A a \in DOMAIN prog[n].vs : prog[n].vs[a] \in ToSet(prog[n].vs)
        /\ Len(prog[n].vs) \in {1, 2}
        /\ Len(prog[n].vs) = 2 => prog[n].vs[1] # prog[n].vs[2]
        /\ prog[n].kind = "update" => Len(prog[n].vs) = 1
    BY <1>3, Operations
  <2> QED BY <2>1, <2>2
<1>6. ASSUME pc[r][t] # "setflag", pc[r][t] \notin {"post", "unpack"} PROVE valid'[r] = valid[r] /\ comm_in_prog'[r] = comm_in_prog[r]
  <2>1. valid' = valid /\ comm_in_prog' = comm_in_prog
    BY <1>6, Quiet
  <2> QED BY <2>1
<1>7. pc[r][t] # "setflag" => valid'[r] = valid[r]
  <2>1. pc[r][t] # "setflag" => valid' = valid
    BY Marks
  <2> QED BY <2>1
<1>8. valid'[r] = valid[r] => \A W : /\ FlagsAt(r, n, W)' <=> FlagsAt(r, n, W)
                                     /\ FlagsAt(r, n + 1, W)' <=> FlagsAt(r, n + 1, W)
  BY <1>1, <1>3, SameProg
<1>9. comm_in_prog'[r] = comm_in_prog[r] => \A S : Marked(r, S)' <=> Marked(r, S)
  BY <1>1, <1>3, SameProg
<1>10. valid'[r] = valid[r] => \A u \in Threads \ {t}, a \in {1, 2} : FlagOf(r, u, n, a)' <=> FlagOf(r, u, n, a)
  BY <1>1 DEF FlagOf
<1>11. ASSUME Posting(r, n) PROVE Posting(r, n)'
  <2>1. /\ ip[r][t] = n /\ at[r][t] = 1 /\ pc[r][t] \in {"post", "finish", "wait", "waited"} /\ op(r, t) = prog[n]
        /\ prog[n].kind = "read" /\ Talks(n)
        /\ pc[r][t] # "post" => comm_in_prog[r][Comm(prog[n])]
        /\ FlagsAt(r, n, {}) /\ Marked(r, {Comm(prog[n])})
    BY <1>11 DEF Posting, op
  <2>2. FlagsAt(r, n, {})'
    BY <1>7, <1>8, <2>1
  <2>3. CASE pc[r][t] = "post"
    <3>1. pc'[r][t] = "finish"
      BY <2>1, <2>3, GoesTo
    <3>2. \A c \in Comms : comm_in_prog'[r][c] = IF c = Comm(prog[n]) THEN TRUE ELSE comm_in_prog[r][c]
      <4>1. \A c \in Comms : comm_in_prog'[r][c] = IF c = Comm(op(r, t)) THEN TRUE ELSE comm_in_prog[r][c]
        BY <2>3, Marks
      <4> QED BY <2>1, <4>1
    <3>3. Marked(r, {Comm(prog[n])})'
      BY <1>4, <2>1, <3>2 DEF Marked, Comms
    <3> QED BY <1>1, <1>2, <1>4, <1>5, <1>11, <2>1, <2>2, <3>1, <3>2, <3>3 DEF Posting
  <2>4. CASE pc[r][t] # "post"
    <3>1. Busy(r, prog[n].vs)
      BY <1>3, <2>1, <2>4, Decides
    <3>2. pc'[r][t] \in {"wait", "waited"}
      <4>1. CASE pc[r][t] = "finish"
        BY <2>1, <3>1, <4>1, GoesTo
      <4>2. CASE pc[r][t] = "wait"
        BY <4>2, GoesTo
      <4> QED BY <1>1, <2>1, <2>4, <4>1, <4>2 DEF Waiting
    <3>3. comm_in_prog'[r] = comm_in_prog[r]
      BY <1>6, <2>1, <2>4
    <3>4. Marked(r, {Comm(prog[n])})'
      BY <1>4, <2>1, <3>3 DEF Marked, Comms
    <3> QED BY <1>1, <1>2, <1>4, <1>11, <2>1, <2>2, <2>4, <3>2, <3>3, <3>4 DEF Posting
  <2> QED BY <2>3, <2>4
<1>12. ASSUME Unpacking(r, n) PROVE Unpacking(r, n)'
  <2>1. /\ ip[r][t] = n /\ at[r][t] = 1 /\ pc[r][t] \in {"unpack", "flag", "flag1", "flag2"} /\ op(r, t) = prog[n]
        /\ Fetching(n) /\ FlagOf(r, t, n, 1)
        /\ pc[r][t] # "unpack" => Marked(r, {})
        /\ FlagsAt(r, n, {}) /\ Marked(r, {Comm(prog[n])})
    BY <1>12 DEF Unpacking, op
  <2>2. FlagsAt(r, n, {})' /\ valid'[r] = valid[r]
    BY <1>7, <1>8, <2>1
  <2>3. CASE pc[r][t] = "unpack"
    <3>1. pc'[r][t] = "flag"
      BY <2>3, GoesTo
    <3>2. \A c \in Comms : comm_in_prog'[r][c] = IF c = Comm(prog[n]) THEN FALSE ELSE comm_in_prog[r][c]
      <4>1. NewMarks(r, t)
        BY Effects
      <4> QED BY <2>1, <2>3, <4>1 DEF NewMarks
    <3>3. Marked(r, {})' /\ Marked(r, {Comm(prog[n])})'
      BY <2>1, <3>2 DEF Marked, Comms
    <3>4. \A u \in Threads : FlagOf(r, u, n, 1)'
      <4>1. FlagOf(r, t, n, 1)'
        BY <3>1 DEF FlagOf
      <4>2. \A u \in Threads \ {t} : FlagOf(r, u, n, 1)
        BY <1>12 DEF Unpacking
      <4> QED BY <1>10, <2>2, <4>1, <4>2
    <3> QED BY <1>1, <1>2, <1>4, <1>12, <2>1, <2>2, <3>1, <3>3, <3>4 DEF Unpacking
  <2>4. CASE pc[r][t] = "flag"
    <3>1. pc'[r][t] = IF valid[r][prog[n].vs[1]] <=> prog[n].kind # "update" THEN "flag2" ELSE "flag1"
      BY <2>1, <2>4, GoesTo
    <3>2. comm_in_prog'[r] = comm_in_prog[r]
      BY <1>6, <2>4
    <3>3. Marked(r, {})' /\ Marked(r, {Comm(prog[n])})'
      BY <1>4, <2>1, <2>4, <3>2 DEF Marked, Comms
    <3>4. \A u \in Threads : FlagOf(r, u, n, 1)'
      <4>1. FlagOf(r, t, n, 1)'
        BY <1>1, <2>2, <3>1 DEF FlagOf
      <4>2. \A u \in Threads \ {t} : FlagOf(r, u, n, 1)
        BY <1>12 DEF Unpacking
      <4> QED BY <1>10, <2>2, <4>1, <4>2
    <3> QED BY <1>1, <1>2, <1>4, <1>12, <2>1, <2>2, <3>1, <3>3, <3>4 DEF Unpacking
  <2> QED BY <1>1, <2>1, <2>3, <2>4 DEF Waiting
<1>13. ASSUME NEW a \in {1, 2}, Setting(r, n, a) PROVE Setting(r, n, a)'
  <2>1. /\ ip[r][t] = n /\ at[r][t] = a /\ pc[r][t] = "setflag" /\ op(r, t) = prog[n] /\ a \in DOMAIN prog[n].vs
        /\ FlagsAt(r, n, {prog[n].vs[b] : b \in 1 .. a})
        /\ \A b \in 1 .. a - 1 : valid[r][prog[n].vs[b]]
    BY <1>1, <1>13 DEF Setting, op, Waiting
  <2>2. pc'[r][t] = "flag2"
    BY <2>1, GoesTo
  <2>3. \A v \in Vects : valid'[r][v] <=> IF v = prog[n].vs[a] THEN prog[n].kind # "update" ELSE valid[r][v]
    <3>1. NewFlags(r, t)
      BY Effects
    <3> QED BY <2>1, <3>1 DEF NewFlags
  <2>4. \A c \in Comms : comm_in_prog'[r][c] = comm_in_prog[r][c]
    <3>1. NewMarks(r, t)
      BY Effects
    <3> QED BY <2>1, <3>1 DEF NewMarks
  <2>5. \A u \in Threads : FlagOf(r, u, n, a)'
    <3>1. prog[n].vs[a] \in Vects /\ prog' = prog
      BY <1>1, <1>5, <2>1
    <3>2. valid'[r][prog[n].vs[a]] <=> prog[n].kind # "update"
      BY <2>3, <3>1
    <3>3. \A u \in Threads : pc'[r][u] # "flag1"
      BY <1>1, <1>13, <2>2 DEF Setting
    <3> QED BY <3>1, <3>2, <3>3 DEF FlagOf
  <2>6. FlagsAt(r, n, {prog[n].vs[b] : b \in 1 .. a})'
    <3>1. PICK W : W = {prog[n].vs[b] : b \in 1 .. a} /\ W' = W
      <4>1. {prog[n].vs[b] : b \in 1 .. a}' = {prog[n].vs[b] : b \in 1 .. a}
        BY <1>1
      <4> QED BY <4>1
    <3>2. prog[n].vs[a] \in W
      BY <3>1
    <3>3. \A v \in Vects \ W : valid'[r][v] <=> valid[r][v]
      BY <2>3, <3>2
    <3>4. \A v : ValidAt(v, n)' <=> ValidAt(v, n)
      BY <1>1, <1>3, SameProg
    <3>5. \A v \in Vects \ W : valid[r][v] <=> ValidAt(v, n)
      BY <2>1, <3>1 DEF FlagsAt
    <3>6. {prog[n].vs[b] : b \in 1 .. a}' = W
      BY <1>1, <3>1
    <3> QED BY <3>3, <3>4, <3>5, <3>6 DEF FlagsAt, Vects
  <2>7. \A b \in 1 .. a - 1 : valid'[r][prog[n].vs[b]]
    <3>1. a - 1 \in {0, 1} /\ (a = 2 => prog[n].vs[1] # prog[n].vs[2] /\ 1 \in DOMAIN prog[n].vs)
      BY <1>5, <2>1
    <3> QED BY <1>5, <2>1, <2>3, <3>1
  <2>8. Fetching(n)' => Marked(r, {})'
    BY <1>4, <1>13, <2>4 DEF Setting, Marked, Comms
  <2>9. (prog[n].kind = "update" =>
             Marked(r, CommsOf(n)) /\ \A c \in CommsOf(n) : comm_in_prog[r][c])'
    <3>1. CommsOf(n) \subseteq Comms
      BY DEF CommsOf, Comm, Comms
    <3> QED BY <1>1, <1>4, <1>13, <2>4, <3>1 DEF Setting, Marked, Comms
  <2>10. \A u \in Threads : ip'[r][u] = n /\ at'[r][u] = a /\ pc'[r][u] \in {"setflag", "flag2"}
    BY <1>1, <1>13, <2>2 DEF Setting
  <2>11. a \in DOMAIN prog'[n].vs /\ (prog'[n].kind = "update" \/ Fetching(n)')
    BY <1>1, <1>4, <1>13 DEF Setting
  <2> QED BY <1>1, <1>2, <2>5, <2>6, <2>7, <2>8, <2>9, <2>10, <2>11 DEF Setting
<1>14. ASSUME Second(r, n) PROVE Second(r, n)'
  <2>1. /\ ip[r][t] = n /\ at[r][t] = 2 /\ pc[r][t] = "flag" /\ op(r, t) = prog[n]
        /\ FlagsAt(r, n, {prog[n].vs[1]}) /\ Marked(r, {})
    BY <1>1, <1>14 DEF Second, op, Waiting
  <2>2. pc'[r][t] = IF valid[r][prog[n].vs[2]] <=> prog[n].kind # "update" THEN "flag2" ELSE "flag1"
    BY <2>1, GoesTo
  <2>3. valid'[r] = valid[r] /\ comm_in_prog'[r] = comm_in_prog[r]
    BY <1>6, <2>1
  <2>4. FlagsAt(r, n, {prog[n].vs[1]})' /\ Marked(r, {})'
    BY <1>1, <1>8, <1>9, <2>1, <2>3 DEF FlagsAt, Vects
  <2>5. \A u \in Threads : FlagOf(r, u, n, 2)'
    <3>1. FlagOf(r, t, n, 2)'
      BY <1>1, <2>2, <2>3 DEF FlagOf
    <3>2. \A u \in Threads \ {t} : FlagOf(r, u, n, 2)
      BY <1>14 DEF Second
    <3> QED BY <1>10, <2>3, <3>1, <3>2
  <2> QED BY <1>1, <1>4, <1>14, <2>2, <2>3, <2>4, <2>5 DEF Second
<1>15. ASSUME Using(r, n) PROVE Using(r, n)'
  <2>1. pc[r][t] = "loop"
    BY <1>1, <1>15 DEF Using, Waiting
  <2>2. pc'[r][t] = "looped"
    BY <2>1, GoesTo
  <2>3. valid'[r] = valid[r] /\ comm_in_prog'[r] = comm_in_prog[r]
    BY <1>6, <2>1
  <2>4. FlagsAt(r, n + 1, {})' /\ Marked(r, {})'
    BY <1>8, <1>9, <1>15, <2>3 DEF Using
  <2> QED BY <1>1, <1>4, <1>15, <2>2, <2>4 DEF Using
<1> QED BY <1>11, <1>12, <1>13, <1>14, <1>15

\* A thread calls the next operation.
LEMMA CallPhase ==
  ASSUME Typed, NEW r \in Ranks, NEW t \in Threads, Call(r, t), PhaseOf(r)
  PROVE  PhaseOf(r)'
<1>1. /\ Threads' = Threads /\ pc[r][t] = "next" /\ valid' = valid /\ comm_in_prog' = comm_in_prog
      /\ \A u \in Threads : u # t =>
           pc'[r][u] = pc[r][u] /\ ip'[r][u] = ip[r][u] /\ at'[r][u] = at[r][u]
      /\ ip'[r][t] = ip[r][t] + 1 /\ at'[r][t] = 1 /\ ip[r][t] + 1 \in 1 .. Len(prog')
      /\ pc'[r][t] = Entry(prog'[ip[r][t] + 1]) /\ prog'[ip[r][t] + 1] \in Ops
  BY CallEffects
<1>2. PICK n \in 0 .. Len(prog) : Between(r, n)
  <2>1. PICK n \in 0 .. Len(prog) :
          \/ Between(r, n) \/ Posting(r, n) \/ Unpacking(r, n) \/ (\E a \in {1, 2} : Setting(r, n, a))
          \/ Second(r, n) \/ Using(r, n)
    BY DEF PhaseOf
  <2>2. ~ Posting(r, n) /\ ~ Unpacking(r, n) /\ ~ Second(r, n) /\ ~ Using(r, n) /\ \A a : ~ Setting(r, n, a)
    BY <1>1 DEF Posting, Unpacking, Second, Using, Setting
  <2> QED BY <2>1, <2>2
<1>3. /\ prog \in Seq(Ops) /\ prog' \in Seq(Ops) /\ Len(prog) <= Len(prog')
      /\ \A k \in 1 .. Len(prog) : prog'[k] = prog[k]
  BY Grows DEF Next, Progress, Advance
<1>4. PICK i \in Nat : i = ip[r][t] /\ i <= Len(prog) /\ i >= n
  BY <1>2, PassingAt DEF Between
<1>5. /\ Len(prog) \in Nat /\ Len(prog') \in Nat /\ n \in Nat /\ i + 1 \in Nat /\ i + 1 <= Len(prog) + 1
      /\ n + 1 \in Nat /\ n + 1 <= Len(prog) + 1 /\ n \in 0 .. Len(prog') /\ i + 1 \in 1 .. Len(prog')
  BY <1>1, <1>3, <1>4
<1>6. /\ \A v : ValidAt(v, i + 1)' <=> ValidAt(v, i + 1)
      /\ Talking(i + 1)' = Talking(i + 1)
  <2>1. PICK k \in Nat : k = i + 1 /\ k <= Len(prog) + 1
    BY <1>5
  <2> QED BY <1>3, <2>1, Told, ToldMore
<1>7. Talking(n + 1)' = Talking(n + 1) /\ CommsOf(n + 1)' = CommsOf(n + 1)
  BY <1>3, <1>5, ToldMore
<1>8. ASSUME NEW u \in Threads, u # t PROVE Passing(r, u, n)'
  BY <1>1, <1>2, <1>3, <1>8, PassingKept DEF Between
<1>9. Passing(r, t, n)'
  <2>1. Passing(r, t, n) /\ Cur(r, t) = i + 1
    BY <1>1, <1>2, <1>4 DEF Between, Cur, Ended
  <2>2. pc'[r][t] \in {"write", "start", "finish"} /\ pc'[r][t] \in First(i + 1)'
    <3>1. PICK o \in Ops : o = prog'[i + 1] /\ pc'[r][t] = Entry(o)
      BY <1>1, <1>4
    <3>2. o.kind \in {"read", "start", "finish", "update"}
      BY <3>1, Operations
    <3>3. CASE o.kind = "update"
      BY <3>1, <3>3 DEF First, Entry
    <3>4. CASE o.kind = "read"
      BY <3>1, <3>4 DEF First, Entry
    <3>5. CASE o.kind = "start"
      BY <3>1, <3>5 DEF First, Entry
    <3>6. CASE o.kind = "finish"
      BY <3>1, <3>6 DEF First, Entry
    <3> QED BY <3>2, <3>3, <3>4, <3>5, <3>6
  <2>3. Cur(r, t)' = i + 1 /\ ip'[r][t] = i + 1
    BY <1>1, <1>4, <2>2 DEF Cur, Ended
  <2>4. FlagsAt(r, Cur(r, t), {})'
    <3>1. FlagsAt(r, i + 1, {})
      BY <2>1 DEF Passing
    <3>2. \A v : ValidAt(v, Cur(r, t))' <=> ValidAt(v, i + 1)
      BY <1>6, <2>3
    <3> QED BY <1>1, <3>1, <3>2 DEF FlagsAt, Vects
  <2>5. (pc[r][t] # "post" =>
       /\ Talking(Cur(r, t)) = Talking(n + 1)
       /\ \A c \in CommsOf(n + 1) : comm_in_prog[r][c])'
    <3>1. Talking(i + 1) = Talking(n + 1) /\ \A c \in CommsOf(n + 1) : comm_in_prog[r][c]
      BY <1>1, <2>1 DEF Passing
    <3>2. Talking(Cur(r, t))' = Talking(i + 1)
      BY <1>6, <2>3
    <3> QED BY <1>1, <1>7, <3>1, <3>2
  <2>6. FlagOf(r, t, ip[r][t], 1)'
    BY <2>2 DEF FlagOf
  <2>7. (/\ ip[r][t] > n /\ pc[r][t] \in First(ip[r][t])
         /\ \A k \in n + 1 .. ip[r][t] - 1 : Free(k))'
    <3>1. \A k \in n + 1 .. i : Free(k)
      <4>1. CASE i = n
        BY <1>4, <1>5, <4>1
      <4>2. CASE i > n
        <5>1. pc[r][t] \in First(i) /\ \A k \in n + 1 .. i - 1 : Free(k)
          BY <1>1, <1>4, <2>1, <4>2 DEF Passing
        <5>2. prog[i] \in Ops
          BY <1>3, <1>4, <1>5, <4>2
        <5>3. prog[i].kind \in {"read", "start", "finish", "update"}
          BY <5>2, Operations
        <5>4. Free(i)
          <6>1. CASE prog[i].kind = "update"
            BY <1>1, <5>1, <6>1 DEF First
          <6>2. CASE prog[i].kind = "read"
            BY <1>1, <5>1, <6>2 DEF First
          <6>3. CASE prog[i].kind = "start"
            BY <1>1, <5>1, <6>3 DEF First, Free
          <6>4. CASE prog[i].kind = "finish"
            BY <1>1, <5>1, <6>4 DEF First, Free
          <6> QED BY <5>3, <6>1, <6>2, <6>3, <6>4
        <5> QED BY <1>4, <1>5, <5>1, <5>4
      <4> QED BY <1>4, <1>5, <4>1, <4>2
    <3>2. \A k \in n + 1 .. i : Free(k)'
      <4> SUFFICES ASSUME NEW k \in n + 1 .. i PROVE Free(k)'
        OBVIOUS
      <4>1. k \in Nat /\ k <= Len(prog) + 1 /\ k <= Len(prog) /\ k > 0 /\ Free(k)
        BY <1>4, <1>5, <3>1
      <4> QED BY <1>3, <4>1, ToldMore
    <3>3. pc'[r][t] \in First(ip[r][t])'
      BY <2>2, <2>3 DEF First, Talks, ValidAt, UpdateOf
    <3> QED BY <1>4, <1>5, <2>3, <3>2, <3>3
  <2> QED BY <1>1, <2>4, <2>5, <2>6, <2>7 DEF Passing
<1>10. Marked(r, CommsOf(n + 1))'
  BY <1>1, <1>2, <1>7 DEF Between, Marked, Comms
<1>11. Between(r, n)'
  BY <1>1, <1>8, <1>9, <1>10 DEF Between
<1> QED BY <1>5, <1>11, InPhase

\* Threads that all wait after an operation do so in the same one.
LEMMA SameBarrier ==
  ASSUME Typed, ProgInv, NEW r \in Ranks, NEW n \in 0 .. Len(prog), Between(r, n),
         \A t \in Threads : pc[r][t] \in Waiting
  PROVE  \E m \in 1 .. Len(prog) :
           /\ \A t \in Threads : ip[r][t] = m /\ at[r][t] = 1 /\ FlagOf(r, t, m, 1)
           /\ FlagsAt(r, m, {}) /\ Marked(r, CommsOf(m)) /\ \A c \in CommsOf(m) : comm_in_prog[r][c]
           /\ CASE prog[m].kind = "update" -> \A t \in Threads : pc[r][t] \in {"flag1", "flag2"}
                [] prog[m].kind = "finish" -> Talks(m) /\ \A t \in Threads : pc[r][t] = "waited"
                [] prog[m].kind = "start"  -> Talks(m) /\ \A t \in Threads : pc[r][t] = "filled"
                [] prog[m].kind = "read"   -> \A t \in Threads : pc[r][t] = IF Talks(m) THEN "filled" ELSE "looped"
<1>1. 0 \in Threads
  BY Sizes DEF Typed
<1>2. ASSUME NEW t \in Threads
      PROVE  /\ ip[r][t] \in 1 .. Len(prog) /\ ip[r][t] > n /\ at[r][t] = 1 /\ pc[r][t] \in First(ip[r][t])
             /\ FlagsAt(r, ip[r][t], {}) /\ FlagOf(r, t, ip[r][t], 1)
             /\ Talking(ip[r][t]) = Talking(n + 1) /\ \A c \in CommsOf(n + 1) : comm_in_prog[r][c]
             /\ \A k \in n + 1 .. ip[r][t] - 1 : Free(k)
             /\ ~ Free(ip[r][t])
  <2>1. Passing(r, t, n) /\ pc[r][t] \notin Ended /\ pc[r][t] # "post"
    BY <1>2 DEF Between, Waiting, Ended
  <2>2. PICK i : i = ip[r][t]
    OBVIOUS
  <2>3. /\ i \in 1 .. Len(prog) /\ at[r][t] = 1 /\ Cur(r, t) = i /\ i > n /\ pc[r][t] \in First(i)
    BY <2>1, <2>2, PassingAt
  <2>4. \A k \in n + 1 .. i - 1 : Free(k)
    BY <2>1, <2>2, <2>3 DEF Passing
  <2>5. ~ Free(i)
    <3>1. ASSUME Free(i) PROVE FALSE
      <4>1. CASE prog[i].kind = "start"
        BY <1>2, <2>3, <3>1, <4>1 DEF Free, First, Ended, Waiting
      <4>2. CASE prog[i].kind = "finish"
        BY <1>2, <2>3, <3>1, <4>2 DEF Free, First, Ended, Waiting
      <4> QED BY <3>1, <4>1, <4>2 DEF Free
    <3> QED BY <3>1
  <2> QED BY <2>1, <2>2, <2>3, <2>4, <2>5 DEF Passing
<1>3. PICK m \in 1 .. Len(prog) : m = ip[r][0]
  BY <1>1, <1>2
<1>4. ASSUME NEW t \in Threads PROVE ip[r][t] = m
  <2>1. PICK i \in 1 .. Len(prog) : i = ip[r][t] /\ i > n /\ m > n /\ n \in Nat
    BY <1>1, <1>2, <1>3
  <2>2. i < m => i \in n + 1 .. m - 1
    BY <2>1
  <2>3. m < i => m \in n + 1 .. i - 1
    BY <2>1
  <2> QED BY <1>1, <1>2, <1>3, <1>4, <2>1, <2>2, <2>3
<1>5. /\ \A t \in Threads : ip[r][t] = m /\ at[r][t] = 1 /\ FlagOf(r, t, m, 1) /\ pc[r][t] \in First(m)
      /\ FlagsAt(r, m, {}) /\ CommsOf(m) = CommsOf(n + 1) /\ \A c \in CommsOf(m) : comm_in_prog[r][c]
  BY <1>1, <1>2, <1>4 DEF CommsOf
<1>6. Marked(r, CommsOf(m))
  BY <1>5 DEF Between
<1>7. prog[m] \in Ops /\ ~ Free(m)
  BY <1>1, <1>2, <1>3 DEF Typed, Placed
<1>8. prog[m].kind \in {"read", "start", "finish", "update"}
  BY <1>7, Operations
<1>9. \A t \in Threads : pc[r][t] \in First(m) \cap Waiting
  BY <1>5
<1>10. CASE prog[m].kind = "update"
  <2>1. \A t \in Threads : pc[r][t] \in {"flag1", "flag2"}
    BY <1>9, <1>10 DEF First, Waiting
  <2> QED BY <1>5, <1>6, <1>10, <2>1
<1>11. CASE prog[m].kind = "finish"
  <2>1. Talks(m)
    BY <1>7, <1>11 DEF Free
  <2>2. \A t \in Threads : pc[r][t] = "waited"
    BY <1>9, <1>11, <2>1 DEF First, Waiting
  <2> QED BY <1>5, <1>6, <1>11, <2>1, <2>2
<1>12. CASE prog[m].kind = "start"
  <2>1. Talks(m)
    BY <1>7, <1>12 DEF Free
  <2>2. \A t \in Threads : pc[r][t] = "filled"
    BY <1>9, <1>12, <2>1 DEF First, Waiting
  <2> QED BY <1>5, <1>6, <1>12, <2>1, <2>2
<1>13. CASE prog[m].kind = "read"
  <2>1. \A t \in Threads : pc[r][t] = IF Talks(m) THEN "filled" ELSE "looped"
    BY <1>9, <1>13 DEF First, Waiting
  <2> QED BY <1>5, <1>6, <1>13, <2>1
<1> QED BY <1>8, <1>10, <1>11, <1>12, <1>13

\* All threads find the flag of a vector as it has to be, or set it so.
LEMMA FlagsDone ==
  ASSUME Typed, ProgInv, NEW r \in Ranks, Barrier(r), NEW m \in 1 .. Len(prog), NEW a \in DOMAIN prog[m].vs,
         \A t \in Threads : ip[r][t] = m /\ at[r][t] = a /\ pc[r][t] = "flag2",
         prog[m].kind = "update" \/ Fetching(m),
         NEW W, W = {prog[m].vs[b] : b \in 1 .. a}, FlagsAt(r, m, W),
         \A b \in 1 .. a : valid[r][prog[m].vs[b]] <=> prog[m].kind # "update",
         Fetching(m) => Marked(r, {}),
         prog[m].kind = "update" => Marked(r, CommsOf(m)) /\ \A c \in CommsOf(m) : comm_in_prog[r][c]
  PROVE  PhaseOf(r)'
<1>1. /\ Threads' = Threads /\ prog' = prog /\ ip' = ip /\ valid' = valid /\ comm_in_prog' = comm_in_prog
      /\ \A t \in Threads :
           /\ a < Len(prog[m].vs) => pc'[r][t] = "flag" /\ at'[r][t] = a + 1
           /\ ~ a < Len(prog[m].vs) =>
                pc'[r][t] = (IF prog[m].kind = "read" THEN "loop" ELSE "next") /\ at'[r][t] = a
  <2>1. \A t \in Threads : op(r, t) = prog[m]
    BY DEF op
  <2>2. /\ Threads' = Threads /\ prog' = prog /\ ip' = ip
        /\ UNCHANGED <<data, valid, bufs, comm_in_prog, net>>
        /\ \A t \in Threads :
              /\ pc[r][t] = "flag2" =>
                   /\ at[r][t] < Len(op(r, t).vs) => pc'[r][t] = "flag" /\ at'[r][t] = at[r][t] + 1
                   /\ ~ at[r][t] < Len(op(r, t).vs) =>
                        /\ pc'[r][t] = IF op(r, t).kind = "read" THEN "loop" ELSE "next"
                        /\ at'[r][t] = at[r][t]
    BY BarrierEffects
  <2> QED BY <2>1, <2>2
<1>2. /\ prog \in Seq(Ops) /\ prog[m] \in Ops /\ m \in Nat /\ Len(prog) \in Nat /\ m <= Len(prog) + 1 /\ m <= Len(prog)
      /\ m + 1 \in Nat /\ m + 1 <= Len(prog) + 1 /\ m > 0 /\ m \in 0 .. Len(prog')
  BY <1>1 DEF Typed, Placed
<1>3. /\ prog[m].kind \in {"read", "start", "finish", "update"}
      /\ DOMAIN prog[m].vs = 1 .. Len(prog[m].vs) /\ Len(prog[m].vs) \in {1, 2}
      /\ ToSet(prog[m].vs) = {prog[m].vs[b] : b \in 1 .. Len(prog[m].vs)}
      /\ prog[m].kind = "update" => Len(prog[m].vs) = 1
  BY <1>2, Operations
<1>4. PICK k \in {1, 2} : k = Len(prog[m].vs)
  BY <1>3
<1>5. a \in 1 .. k /\ (a = 1 \/ (a = 2 /\ k = 2))
  <2>1. a \in 1 .. k
    BY <1>3, <1>4
  <2>2. CASE k = 1
    BY <2>1, <2>2
  <2>3. CASE k = 2
    BY <2>1, <2>3
  <2> QED BY <2>1, <2>2, <2>3
<1>6. /\ Fetching(m)' <=> Fetching(m)
      /\ \A V : FlagsAt(r, m, V)' <=> FlagsAt(r, m, V)
      /\ \A V : FlagsAt(r, m + 1, V)' <=> FlagsAt(r, m + 1, V)
      /\ \A S : Marked(r, S)' <=> Marked(r, S)
  BY <1>1, <1>2, SameProg
<1>7. CASE a < k
  <2>1. a = 1 /\ k = 2 /\ a + 1 = 2
    <3>1. a = 1
      BY <1>5, <1>7
    <3> QED BY <1>7, <3>1
  <2>2. Fetching(m) /\ Fetching(m)'
    BY <1>3, <1>4, <1>6, <2>1
  <2>3. W = {prog[m].vs[1]}
    BY <2>1
  <2>4. FlagsAt(r, m, {prog[m].vs[1]})' /\ valid'[r][prog'[m].vs[1]] /\ Marked(r, {})'
    <3>1. FlagsAt(r, m, W)' /\ Marked(r, {})'
      BY <1>6, <2>2
    <3>2. prog[m].kind # "update"
      BY <2>2 DEF Fetching
    <3>3. valid[r][prog[m].vs[1]]
      BY <2>1, <3>2
    <3> QED BY <1>1, <2>3, <3>1, <3>3 DEF FlagsAt, Vects
  <2>5. \A t \in Threads : ip'[r][t] = m /\ at'[r][t] = 2 /\ pc'[r][t] = "flag"
    BY <1>1, <1>4, <2>1
  <2>6. \A t \in Threads : FlagOf(r, t, m, 2)'
    BY <2>5 DEF FlagOf
  <2>7. Second(r, m)'
    BY <1>1, <1>4, <2>1, <2>2, <2>4, <2>5, <2>6 DEF Second
  <2> QED BY <1>2, <2>7, InPhase
<1>8. CASE a = k
  <2>1. W = ToSet(prog[m].vs)
    BY <1>3, <1>4, <1>8
  <2>2. \A v \in ToSet(prog[m].vs) : valid[r][v] <=> prog[m].kind # "update"
    BY <1>3, <1>4, <1>8
  <2>3. prog[m].kind # "start"
    BY DEF Fetching
  <2>4. FlagsAt(r, m + 1, {})
    <3>1. \A v \in ToSet(prog[m].vs) :
           /\ prog[m].kind = "update" => ~ valid[r][v]
           /\ prog[m].kind \in {"read", "finish"} => valid[r][v]
      BY <2>2
    <3> QED BY <2>1, <2>3, <3>1, FlagsNext
  <2>5. \A t \in Threads : ip'[r][t] = m /\ pc'[r][t] = (IF prog[m].kind = "read" THEN "loop" ELSE "next")
    BY <1>1, <1>4, <1>8
  <2>6. CASE prog[m].kind = "read"
    <3>1. Fetching(m) /\ Fetching(m)'
      BY <1>6, <2>6
    <3>2. FlagsAt(r, m + 1, {})' /\ Marked(r, {})'
      BY <1>6, <2>4, <3>1
    <3>3. Using(r, m)'
      BY <1>1, <2>5, <2>6, <3>1, <3>2 DEF Using
    <3> QED BY <1>2, <3>3, InPhase
  <2>7. CASE prog[m].kind # "read"
    <3>1. Marked(r, CommsOf(m + 1)) /\ \A c \in CommsOf(m + 1) : comm_in_prog[r][c]
      <4>1. CASE prog[m].kind = "update"
        <5>1. Talking(m + 1) = Talking(m)
          BY <1>2, <4>1, TalkingNext
        <5>2. CommsOf(m + 1) = CommsOf(m)
          BY <5>1 DEF CommsOf
        <5> QED BY <4>1, <5>2
      <4>2. CASE prog[m].kind = "finish"
        <5>1. Talking(m + 1) = {}
          BY <1>2, <4>2, TalkingNext
        <5>2. CommsOf(m + 1) = {} /\ Fetching(m)
          BY <4>2, <5>1 DEF CommsOf
        <5> QED BY <5>2
      <4> QED BY <1>3, <2>3, <2>7, <4>1, <4>2
    <3>2. Between(r, m)'
      BY <1>1, <2>4, <2>5, <2>7, <3>1, EndsBetween
    <3> QED BY <1>2, <3>2, InPhase
  <2> QED BY <2>6, <2>7
<1> QED BY <1>4, <1>5, <1>7, <1>8

\* All threads are going to set the flag of a vector.
LEMMA FlagsSet ==
  ASSUME Typed, ProgInv, NEW r \in Ranks, Barrier(r), NEW m \in 1 .. Len(prog), NEW a \in DOMAIN prog[m].vs,
         \A t \in Threads : ip[r][t] = m /\ at[r][t] = a /\ pc[r][t] = "flag1",
         prog[m].kind = "update" \/ Fetching(m),
         FlagsAt(r, m, {prog[m].vs[b] : b \in 1 .. a}),
         \A b \in 1 .. a - 1 : valid[r][prog[m].vs[b]],
         Fetching(m) => Marked(r, {}),
         prog[m].kind = "update" => Marked(r, CommsOf(m)) /\ \A c \in CommsOf(m) : comm_in_prog[r][c]
  PROVE  PhaseOf(r)'
<1>1. /\ Threads' = Threads /\ prog' = prog /\ ip' = ip /\ valid' = valid /\ comm_in_prog' = comm_in_prog
      /\ \A t \in Threads : pc'[r][t] = "setflag" /\ at'[r][t] = a
  <2>1. /\ Threads' = Threads /\ prog' = prog /\ ip' = ip
        /\ UNCHANGED <<data, valid, bufs, comm_in_prog, net>>
        /\ \A t \in Threads :
             pc[r][t] = "flag1" => pc'[r][t] = "setflag" /\ at'[r][t] = at[r][t]
    BY BarrierEffects
  <2> QED BY <2>1
<1>2. /\ prog \in Seq(Ops) /\ prog[m] \in Ops /\ m \in Nat /\ Len(prog) \in Nat /\ m <= Len(prog) + 1 /\ m <= Len(prog)
      /\ m > 0 /\ m \in 0 .. Len(prog')
  BY <1>1 DEF Typed, Placed
<1>3. a \in {1, 2}
  <2>1. DOMAIN prog[m].vs = 1 .. Len(prog[m].vs) /\ Len(prog[m].vs) \in {1, 2}
    BY <1>2, Operations
  <2>2. CASE Len(prog[m].vs) = 1
    BY <2>1, <2>2
  <2>3. CASE Len(prog[m].vs) = 2
    BY <2>1, <2>3
  <2> QED BY <2>1, <2>2, <2>3
<1>4. /\ Fetching(m)' <=> Fetching(m)
      /\ \A V : FlagsAt(r, m, V)' <=> FlagsAt(r, m, V)
      /\ \A S : Marked(r, S)' <=> Marked(r, S)
      /\ CommsOf(m)' = CommsOf(m)
  BY <1>1, <1>2, SameProg
<1>5. FlagsAt(r, m, {prog[m].vs[b] : b \in 1 .. a})'
  <2>0. {prog[m].vs[b] : b \in 1 .. a}' = {prog[m].vs[b] : b \in 1 .. a}
    BY <1>1
  <2>1. PICK V : V = {prog[m].vs[b] : b \in 1 .. a} /\ V = {prog[m].vs[b] : b \in 1 .. a}'
    BY <2>0
  <2>2. FlagsAt(r, m, V)'
    BY <1>4, <2>1
  <2> QED BY <2>1, <2>2 DEF FlagsAt
<1>6. Fetching(m)' => Marked(r, {})'
  BY <1>4
<1>7. (prog[m].kind = "update" => Marked(r, CommsOf(m)) /\ \A c \in CommsOf(m) : comm_in_prog[r][c])'
  BY <1>1, <1>4 DEF Marked
<1>8. \A t \in Threads : FlagOf(r, t, m, a)'
  BY <1>1 DEF FlagOf
<1>9. Setting(r, m, a)'
  BY <1>1, <1>2, <1>4, <1>5, <1>6, <1>7, <1>8 DEF Setting
<1> QED BY <1>2, <1>3, <1>9, InPhase

\* What follows a barrier.
LEMMA BarrierPhase ==
  ASSUME Typed, ProgInv, NEW r \in Ranks, Barrier(r), PhaseOf(r)
  PROVE  PhaseOf(r)'
<1>1. /\ Threads' = Threads /\ prog' = prog /\ ip' = ip /\ valid' = valid /\ comm_in_prog' = comm_in_prog
      /\ \A t \in Threads :
           /\ pc[r][t] \in Waiting
           /\ pc[r][t] = "filled" => pc'[r][t] = "post" /\ at'[r][t] = at[r][t]
           /\ pc[r][t] = "waited" => pc'[r][t] = "unpack" /\ at'[r][t] = at[r][t]
           /\ pc[r][t] = "looped" => pc'[r][t] = "next" /\ at'[r][t] = at[r][t]
  <2>1. /\ Threads' = Threads /\ prog' = prog /\ ip' = ip
        /\ UNCHANGED <<data, valid, bufs, comm_in_prog, net>>
        /\ \A t \in Threads :
              /\ pc[r][t] \in Waiting
              /\ pc[r][t] = "filled" => pc'[r][t] = "post" /\ at'[r][t] = at[r][t]
              /\ pc[r][t] = "waited" => pc'[r][t] = "unpack" /\ at'[r][t] = at[r][t]
              /\ pc[r][t] = "looped" => pc'[r][t] = "next" /\ at'[r][t] = at[r][t]
    BY BarrierEffects
  <2> QED BY <2>1
<1>2. 0 \in Threads /\ prog \in Seq(Ops) /\ Len(prog) \in Nat
  BY Sizes DEF Typed, Placed
<1>3. PICK n \in 0 .. Len(prog) :
        \/ Between(r, n) \/ Posting(r, n) \/ Unpacking(r, n) \/ (\E a \in {1, 2} : Setting(r, n, a))
        \/ Second(r, n) \/ Using(r, n)
  BY DEF PhaseOf
<1>4. ASSUME NEW m \in 1 .. Len(prog)
      PROVE  /\ prog[m] \in Ops /\ m \in Nat /\ m <= Len(prog) + 1 /\ m <= Len(prog) /\ m > 0 /\ m \in 0 .. Len(prog')
             /\ m + 1 \in Nat /\ m + 1 <= Len(prog) + 1
             /\ prog[m].kind \in {"read", "start", "finish", "update"}
             /\ DOMAIN prog[m].vs = 1 .. Len(prog[m].vs) /\ Len(prog[m].vs) \in {1, 2}
             /\ 1 \in DOMAIN prog[m].vs /\ {prog[m].vs[b] : b \in 1 .. 1} = {prog[m].vs[1]}
             /\ \A t \in Threads : ip[r][t] = m => op(r, t) = prog[m]
  <2>1. /\ prog[m] \in Ops /\ m \in Nat /\ m <= Len(prog) + 1 /\ m <= Len(prog) /\ m > 0 /\ m \in 0 .. Len(prog')
        /\ m + 1 \in Nat /\ m + 1 <= Len(prog) + 1
    BY <1>1, <1>2
  <2>2. /\ prog[m].kind \in {"read", "start", "finish", "update"}
        /\ DOMAIN prog[m].vs = 1 .. Len(prog[m].vs) /\ Len(prog[m].vs) \in {1, 2}
    BY <2>1, Operations
  <2>3. 1 \in DOMAIN prog[m].vs
    BY <2>2
  <2>4. {prog[m].vs[b] : b \in 1 .. 1} = {prog[m].vs[1]}
    OBVIOUS
  <2> QED BY <2>1, <2>2, <2>3, <2>4 DEF op
\* All threads have seen the flag alike, and go on together.
<1>5. ASSUME NEW m \in 1 .. Len(prog), NEW a \in {1, 2}, a \in DOMAIN prog[m].vs,
             \A t \in Threads : ip[r][t] = m /\ at[r][t] = a /\ pc[r][t] \in {"flag1", "flag2"} /\ FlagOf(r, t, m, a),
             prog[m].kind = "update" \/ Fetching(m),
             NEW V, V \subseteq {prog[m].vs[b] : b \in 1 .. a}, FlagsAt(r, m, V),
             \A b \in 1 .. a - 1 : valid[r][prog[m].vs[b]],
             Fetching(m) => Marked(r, {}),
             prog[m].kind = "update" => Marked(r, CommsOf(m)) /\ \A c \in CommsOf(m) : comm_in_prog[r][c]
      PROVE  PhaseOf(r)'
  <2>1. PICK W : W = {prog[m].vs[b] : b \in 1 .. a}
    OBVIOUS
  <2>2. FlagsAt(r, m, W)
    BY <1>5, <2>1 DEF FlagsAt
  <2>3. prog[m].kind = "update" => a = 1
    <3>1. prog[m].kind = "update" => Len(prog[m].vs) = 1
      BY <1>4, <1>5, Operations
    <3> QED BY <1>4, <1>5, <3>1
  <2>4. CASE pc[r][0] = "flag1"
    <3>1. valid[r][prog[m].vs[a]] <=> prog[m].kind = "update"
      BY <1>2, <1>5, <2>4 DEF FlagOf
    <3>2. \A t \in Threads : pc[r][t] = "flag1"
      BY <1>5, <3>1 DEF FlagOf
    <3>3. FlagsAt(r, m, {prog[m].vs[b] : b \in 1 .. a})
      BY <2>1, <2>2
    <3> QED BY <1>5, <3>2, <3>3, FlagsSet
  <2>5. CASE pc[r][0] = "flag2"
    <3>1. valid[r][prog[m].vs[a]] <=> prog[m].kind # "update"
      BY <1>2, <1>5, <2>5 DEF FlagOf
    <3>2. \A t \in Threads : pc[r][t] = "flag2"
      BY <1>5, <3>1 DEF FlagOf
    <3>3. \A b \in 1 .. a : valid[r][prog[m].vs[b]] <=> prog[m].kind # "update"
      <4> SUFFICES ASSUME NEW b \in 1 .. a PROVE valid[r][prog[m].vs[b]] <=> prog[m].kind # "update"
        OBVIOUS
      <4>1. CASE b = a
        BY <3>1, <4>1
      <4>2. CASE b # a
        <5>1. a = 2 /\ b \in 1 .. a - 1
          BY <1>5, <4>2
        <5> QED BY <1>5, <2>3, <5>1
      <4> QED BY <4>1, <4>2
    <3> QED BY <1>5, <2>1, <2>2, <3>2, <3>3, FlagsDone
  <2> QED BY <1>2, <1>5, <2>4, <2>5
<1>6. CASE Between(r, n)
  <2>1. PICK m \in 1 .. Len(prog) :
           /\ \A t \in Threads : ip[r][t] = m /\ at[r][t] = 1 /\ FlagOf(r, t, m, 1)
           /\ FlagsAt(r, m, {}) /\ Marked(r, CommsOf(m)) /\ \A c \in CommsOf(m) : comm_in_prog[r][c]
           /\ CASE prog[m].kind = "update" -> \A t \in Threads : pc[r][t] \in {"flag1", "flag2"}
                [] prog[m].kind = "finish" -> Talks(m) /\ \A t \in Threads : pc[r][t] = "waited"
                [] prog[m].kind = "start"  -> Talks(m) /\ \A t \in Threads : pc[r][t] = "filled"
                [] prog[m].kind = "read"   -> \A t \in Threads : pc[r][t] = IF Talks(m) THEN "filled" ELSE "looped"
    BY <1>1, <1>6, SameBarrier
  <2>2. /\ Talks(m)' <=> Talks(m)
        /\ Fetching(m)' <=> Fetching(m)
        /\ FlagsAt(r, m, {})' <=> FlagsAt(r, m, {})
        /\ \A S : Marked(r, S)' <=> Marked(r, S)
        /\ CommsOf(m)' = CommsOf(m) /\ Comm(prog[m])' = Comm(prog[m])
    BY <1>1, <1>4, SameProg
  <2>3. CASE prog[m].kind = "update"
    <3>1. \A t \in Threads : pc[r][t] \in {"flag1", "flag2"}
      BY <2>1, <2>3
    <3>2. ~ Fetching(m)
      BY <2>3 DEF Fetching
    <3> QED BY <1>4, <1>5, <2>1, <2>3, <3>1, <3>2
  <2>4. CASE prog[m].kind = "finish"
    <3>1. Talks(m) /\ Fetching(m) /\ \A t \in Threads : pc[r][t] = "waited"
      BY <1>4, <2>1, <2>4 DEF Fetching
    <3>2. \A t \in Threads : ip'[r][t] = m /\ at'[r][t] = 1 /\ pc'[r][t] = "unpack"
      BY <1>1, <2>1, <3>1
    <3>3. Marked(r, {Comm(prog[m])})
      <4>1. \A j \in Talking(m) : prog[m].vs = prog[j].vs
        BY <1>2, <2>4, TalkingNext
      <4>2. CommsOf(m) \subseteq {Comm(prog[m])}
        BY <4>1 DEF CommsOf, Comm
      <4> QED BY <2>1, <4>2 DEF Marked
    <3>4. Marked(r, {Comm(prog[m])})'
      <4>1. PICK S : S = {Comm(prog[m])} /\ S = {Comm(prog[m])}'
        BY <2>2
      <4> QED BY <2>2, <3>3, <4>1 DEF Marked
    <3>5. \A t \in Threads : FlagOf(r, t, m, 1)'
      BY <3>2 DEF FlagOf
    <3>6. Unpacking(r, m)'
      BY <1>1, <2>1, <2>2, <3>1, <3>2, <3>4, <3>5 DEF Unpacking
    <3> QED BY <1>4, <3>6, InPhase
  <2>5. CASE prog[m].kind = "start"
    <3>1. Talks(m) /\ \A t \in Threads : pc[r][t] = "filled"
      BY <2>1, <2>5
    <3>2. \A t \in Threads : ip'[r][t] = m /\ at'[r][t] = 1 /\ pc'[r][t] = "post"
      BY <1>1, <2>1, <3>1
    <3>3. Talking(m) = {}
      BY <1>2, <2>5, TalkingNext
    <3>4. Marked(r, CommsOf(m + 1))'
      <4>1. Marked(r, {})
        BY <2>1, <3>3 DEF CommsOf
      <4>2. \A S : Marked(r, S)
        BY <4>1 DEF Marked
      <4>3. PICK S : S = CommsOf(m + 1)'
        OBVIOUS
      <4> QED BY <1>1, <4>2, <4>3 DEF Marked, Comms
    <3>5. \A t \in Threads : Passing(r, t, m)'
      <4> SUFFICES ASSUME NEW t \in Threads PROVE Passing(r, t, m)'
        OBVIOUS
      <4>1. Cur(r, t)' = m
        BY <3>2 DEF Cur, Ended
      <4>2. FlagsAt(r, Cur(r, t), {})'
        <5>1. FlagsAt(r, m, {})'
          BY <2>1, <2>2
        <5> QED BY <4>1, <5>1 DEF FlagsAt
      <4>3. FlagOf(r, t, ip[r][t], 1)'
        BY <3>2 DEF FlagOf
      <4>4. (ip[r][t] = m /\ pc[r][t] = "post" /\ m > 0 /\ prog[m].kind = "start" /\ Talks(m))'
        BY <1>1, <1>4, <2>2, <2>5, <3>1, <3>2
      <4> QED BY <3>2, <4>2, <4>3, <4>4 DEF Passing
    <3>6. Between(r, m)'
      BY <1>1, <3>4, <3>5 DEF Between
    <3> QED BY <1>4, <3>6, InPhase
  <2>6. CASE prog[m].kind = "read"
    <3>1. Talking(m) = {} /\ Talking(m + 1) = {}
      BY <1>2, <2>6, TalkingNext
    <3>2. Marked(r, {}) /\ CommsOf(m + 1) = {}
      BY <2>1, <3>1 DEF CommsOf
    <3>3. CASE Talks(m)
      <4>1. \A t \in Threads : ip'[r][t] = m /\ at'[r][t] = 1 /\ pc'[r][t] = "post"
        <5>1. \A t \in Threads : pc[r][t] = "filled"
          BY <2>1, <2>6, <3>3
        <5> QED BY <1>1, <2>1, <5>1
      <4>2. Marked(r, {Comm(prog[m])})'
        <5>1. Marked(r, {})'
          BY <2>2, <3>2
        <5> QED BY <5>1 DEF Marked
      <4>3. Posting(r, m)'
        BY <1>1, <1>4, <2>1, <2>2, <2>6, <3>3, <4>1, <4>2 DEF Posting
      <4> QED BY <1>4, <4>3, InPhase
    <3>4. CASE ~ Talks(m)
      <4>1. \A t \in Threads : ip[r][t] = m /\ pc'[r][t] = "next"
        <5>1. \A t \in Threads : pc[r][t] = "looped"
          BY <2>1, <2>6, <3>4
        <5> QED BY <1>1, <2>1, <5>1
      <4>2. FlagsAt(r, m + 1, {})
        <5>1. \A v \in ToSet(prog[m].vs) : valid[r][v]
          BY <2>1, <3>4, Decides
        <5> QED BY <2>1, <2>6, <5>1, FlagsNext
      <4>3. Between(r, m)'
        BY <1>1, <3>2, <4>1, <4>2, EndsBetween
      <4> QED BY <1>4, <4>3, InPhase
    <3> QED BY <3>3, <3>4
  <2> QED BY <1>4, <2>3, <2>4, <2>5, <2>6
<1>7. ASSUME n > 0, ~ Between(r, n) PROVE PhaseOf(r)'
  <2>0. n \in 1 .. Len(prog)
    BY <1>2, <1>7
  <2>1. /\ Talks(n)' <=> Talks(n)
        /\ Fetching(n)' <=> Fetching(n)
        /\ FlagsAt(r, n, {})' <=> FlagsAt(r, n, {})
        /\ \A S : Marked(r, S)' <=> Marked(r, S)
        /\ CommsOf(n)' = CommsOf(n) /\ Comm(prog[n])' = Comm(prog[n])
    BY <1>1, <1>4, <2>0, SameProg
  <2>2. CASE Posting(r, n)
    <3>1. \A t \in Threads : ip'[r][t] = n /\ at'[r][t] = 1 /\ pc'[r][t] = "unpack"
      <4>1. \A t \in Threads : pc[r][t] = "waited"
        BY <1>1, <2>2 DEF Posting, Waiting
      <4> QED BY <1>1, <2>2, <4>1 DEF Posting
    <3>2. FlagsAt(r, n, {})' /\ Marked(r, {Comm(prog[n])})'
      <4>1. PICK S : S = {Comm(prog[n])} /\ S = {Comm(prog[n])}'
        BY <2>1
      <4> QED BY <2>1, <2>2, <4>1 DEF Posting, Marked
    <3>3. \A t \in Threads : FlagOf(r, t, n, 1)'
      BY <3>1 DEF FlagOf
    <3>4. Fetching(n)
      BY <2>2 DEF Posting, Fetching
    <3>5. Unpacking(r, n)'
      BY <1>1, <2>1, <3>1, <3>2, <3>3, <3>4 DEF Unpacking
    <3> QED BY <1>4, <2>0, <3>5, InPhase
  <2>3. CASE Unpacking(r, n)
    <3>1. /\ \A t \in Threads : /\ ip[r][t] = n /\ at[r][t] = 1 /\ pc[r][t] \in {"flag1", "flag2"}
                                /\ FlagOf(r, t, n, 1)
          /\ Fetching(n) /\ FlagsAt(r, n, {}) /\ Marked(r, {})
      BY <1>1, <1>2, <2>3 DEF Unpacking, Waiting
    <3>2. prog[n].kind # "update"
      BY <3>1 DEF Fetching
    <3> QED BY <1>4, <1>5, <2>0, <3>1, <3>2
  <2>4. ASSUME NEW a \in {1, 2}, Setting(r, n, a) PROVE PhaseOf(r)'
    <3>1. /\ \A t \in Threads : ip[r][t] = n /\ at[r][t] = a /\ pc[r][t] = "flag2" /\ FlagOf(r, t, n, a)
          /\ a \in DOMAIN prog[n].vs /\ (prog[n].kind = "update" \/ Fetching(n))
          /\ FlagsAt(r, n, {prog[n].vs[b] : b \in 1 .. a})
          /\ \A b \in 1 .. a - 1 : valid[r][prog[n].vs[b]]
          /\ Fetching(n) => Marked(r, {})
          /\ prog[n].kind = "update" => Marked(r, CommsOf(n)) /\ \A c \in CommsOf(n) : comm_in_prog[r][c]
      BY <1>1, <2>4 DEF Setting, Waiting
    <3>2. PICK V : V = {prog[n].vs[b] : b \in 1 .. a}
      OBVIOUS
    <3> QED BY <1>5, <2>0, <2>4, <3>1, <3>2
  <2>5. CASE Second(r, n)
    <3>1. /\ \A t \in Threads : /\ ip[r][t] = n /\ at[r][t] = 2 /\ pc[r][t] \in {"flag1", "flag2"}
                                /\ FlagOf(r, t, n, 2)
          /\ Fetching(n) /\ FlagsAt(r, n, {prog[n].vs[1]}) /\ Marked(r, {}) /\ valid[r][prog[n].vs[1]]
          /\ Len(prog[n].vs) = 2
      BY <1>1, <2>5 DEF Second, Waiting
    <3>2. prog[n].kind # "update"
      BY <3>1 DEF Fetching
    <3>3. PICK V : V = {prog[n].vs[1]}
      OBVIOUS
    <3>4. V \subseteq {prog[n].vs[b] : b \in 1 .. 2} /\ 2 \in DOMAIN prog[n].vs
          /\ \A b \in 1 .. 2 - 1 : valid[r][prog[n].vs[b]]
      BY <1>4, <2>0, <3>1, <3>3
    <3> QED BY <1>5, <2>0, <3>1, <3>2, <3>3, <3>4
  <2>6. CASE Using(r, n)
    <3>1. \A t \in Threads : ip[r][t] = n /\ pc'[r][t] = "next"
      BY <1>1, <2>6 DEF Using, Waiting
    <3>2. Talking(n + 1) = {}
      BY <1>2, <2>0, <2>6, TalkingNext DEF Using
    <3>3. CommsOf(n + 1) = {}
      BY <3>2 DEF CommsOf
    <3>4. Between(r, n)'
      BY <1>1, <2>0, <2>6, <3>1, <3>3, EndsBetween DEF Using
    <3> QED BY <1>4, <2>0, <3>4, InPhase
  <2> QED BY <1>3, <1>7, <2>2, <2>3, <2>4, <2>5, <2>6
<1>8. n > 0 \/ Between(r, n)
  BY <1>2, <1>3 DEF Posting, Unpacking, Setting, Second, Using, Fetching
<1> QED BY <1>6, <1>7, <1>8

\* Ranks step one at a time.
LEMMA PhaseStep == Typed /\ ProgInv /\ nparal_dir > 0 /\ PhaseCheck /\ [Next]_vars => PhaseCheck'
<1> SUFFICES ASSUME Typed, ProgInv, nparal_dir > 0, PhaseCheck, [Next]_vars PROVE PhaseCheck'
  OBVIOUS
<1>1. /\ prog \in Seq(Ops) /\ prog' \in Seq(Ops) /\ Len(prog) <= Len(prog') /\ Len(prog') \in Nat
      /\ \A k \in 1 .. Len(prog) : prog'[k] = prog[k]
  BY Grows
<1>2. Ranks' = Ranks /\ Threads' = Threads
  BY Launching DEF env, Ranks, Threads
<1>3. ASSUME NEW q \in Ranks,
             \A t \in Threads : ip'[q][t] = ip[q][t] /\ pc'[q][t] = pc[q][t] /\ at'[q][t] = at[q][t],
             valid'[q] = valid[q], comm_in_prog'[q] = comm_in_prog[q]
      PROVE  PhaseOf(q)'
  BY <1>1, <1>2, <1>3, PhaseKept DEF PhaseCheck
<1>4. ASSUME NEW r \in Ranks, NEW t \in Threads, Advance(r, t), NEW q \in Ranks PROVE PhaseOf(q)'
  <2>1. CASE Call(r, t) /\ q = r
    BY <2>1, CallPhase DEF PhaseCheck
  <2>2. CASE Call(r, t) /\ q # r
    <3>1. /\ \A u \in Threads : ip'[q][u] = ip[q][u] /\ pc'[q][u] = pc[q][u] /\ at'[q][u] = at[q][u]
          /\ UNCHANGED <<valid, comm_in_prog>>
      BY <2>2, CallEffects
    <3> QED BY <1>3, <3>1
  <2>3. CASE ~ Call(r, t) /\ q # r
    <3>1. /\ \A u \in Threads : ip'[q][u] = ip[q][u] /\ pc'[q][u] = pc[q][u] /\ at'[q][u] = at[q][u]
          /\ valid'[q] = valid[q] /\ comm_in_prog'[q] = comm_in_prog[q]
      <4>1. /\ ip' = ip /\ at' = at
            /\ \A p \in Ranks, u \in Threads : p # r \/ u # t => pc'[p][u] = pc[p][u]
            /\ \A p \in Ranks \ {r} : valid'[p] = valid[p] /\ comm_in_prog'[p] = comm_in_prog[p]
        BY <1>4, <2>3, Effects
      <4> QED BY <2>3, <4>1
    <3> QED BY <1>3, <3>1
  <2>4. CASE ~ Call(r, t) /\ q = r
    <3>1. PICK n \in 0 .. Len(prog) :
            \/ Between(r, n) \/ Posting(r, n) \/ Unpacking(r, n) \/ (\E a \in {1, 2} : Setting(r, n, a))
            \/ Second(r, n) \/ Using(r, n)
      BY DEF PhaseCheck, PhaseOf
    <3>2. /\ Between(r, n) => Between(r, n)'
          /\ Posting(r, n) => Posting(r, n)'
          /\ Unpacking(r, n) => Unpacking(r, n)'
          /\ \A a \in {1, 2} : Setting(r, n, a) => Setting(r, n, a)'
          /\ Second(r, n) => Second(r, n)'
          /\ Using(r, n) => Using(r, n)'
      BY <1>4, <2>4, BetweenStep, ThreadStep
    <3>3. n \in 0 .. Len(prog')
      BY <1>1
    <3> QED BY <2>4, <3>1, <3>2, <3>3, InPhase
  <2> QED BY <2>1, <2>2, <2>3, <2>4
<1>5. ASSUME NEW r \in Ranks, Barrier(r), NEW q \in Ranks PROVE PhaseOf(q)'
  <2>1. CASE q = r
    BY <1>5, <2>1, BarrierPhase DEF PhaseCheck
  <2>2. CASE q # r
    <3>1. ip' = ip /\ UNCHANGED <<valid, comm_in_prog>> /\ pc'[q] = pc[q] /\ at'[q] = at[q]
      BY <1>5, <2>2, BarrierEffects
    <3> QED BY <1>3, <3>1
  <2> QED BY <2>1, <2>2
<1>6. ASSUME NEW r \in Ranks, NEW s \in Ranks, NEW c \in Comms, Deliver(r, s, c), NEW q \in Ranks PROVE PhaseOf(q)'
  BY <1>3, <1>6 DEF Deliver, where
<1>7. ASSUME UNCHANGED vars, NEW q \in Ranks PROVE PhaseOf(q)'
  BY <1>3, <1>7 DEF vars, where
<1>8. \A q \in Ranks : PhaseOf(q)'
  BY <1>4, <1>5, <1>6, <1>7 DEF Next, Progress, Transport, Terminated
<1> QED BY <1>2, <1>8 DEF PhaseCheck
=============================================================================
