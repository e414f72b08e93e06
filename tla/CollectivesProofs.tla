-------------------------- MODULE CollectivesProofs --------------------------
(***************************************************************************)
(* The reductions and broadcasts of mpi_routines return the right result   *)
(* to every thread of every rank, for every number of ranks, of threads    *)
(* and of calls and whatever the threads bring.                            *)
(*                                                                         *)
(* The threads of a rank are never more than a barrier apart (PhaseOf):    *)
(* leaving a call or beginning the next one, all past the first barrier of *)
(* a call, or all copying its result.  What a rank has posted is what it   *)
(* has to give to the calls so far, one after the other (GivenBy), so the  *)
(* k-th collectives of all ranks belong to the same call; and the buffer,  *)
(* the local variable of the master and the results hold what that phase   *)
(* has put there (BufOf, InOf, OutOf).                                     *)
(***************************************************************************)
EXTENDS MCCollectives, SequenceTheorems, TLAPS

-----------------------------------------------------------------------------
\* What a rank gives to MPI for call i, and the calls it has given by now.
Given(r, i) ==
  [kind |-> IF thread_pool_locked /\ calls[i].kind = "max" THEN "sum" ELSE calls[i].kind,
   root |-> calls[i].root,
   x |-> IF calls[i].kind = "bcast" THEN Value(r, 0, i) ELSE C!Brought(r, i)]

GivenBy(r, n) == [i \in 1 .. n |-> Given(r, i)]

BeforeEnter == {"store", "stored", "gather", "enter"}
NPosted(r) == IF pc[r][0] \in BeforeEnter THEN call[r][0] - 1 ELSE call[r][0]

\* Where the threads of a rank are with respect to call n: they are leaving it or
\* about to begin the next, they have stored what they brought, or they copy.
First(kind, t) ==
  CASE kind # "bcast" -> IF thread_pool_locked THEN {"enter", "await"} ELSE {"store", "stored"}
    [] kind = "bcast" -> IF t = 0 THEN {"enter", "await", "atom"} ELSE {"atom"}
Second(t) == IF t = 0 THEN {"gather", "enter", "await", "atom"} ELSE {"atom"}
Third == {"copy", "copied"}

AtStart(r, n) ==
  \A t \in C!Active :
    \/ call[r][t] = n /\ pc[r][t] \in {"leave", "next", "exit"}
    \/ call[r][t] = n + 1 /\ pc[r][t] \in First(calls[n + 1].kind, t)
AtSecond(r, n) ==
  /\ n > 0 /\ ~ thread_pool_locked /\ calls[n].kind # "bcast"
  /\ \A t \in C!Active : call[r][t] = n /\ pc[r][t] \in Second(t)
AtThird(r, n) ==
  /\ n > 0 /\ (thread_pool_locked => calls[n].kind = "bcast")
  /\ \A t \in C!Active : call[r][t] = n /\ pc[r][t] \in Third

PhaseOf(r) ==
  \E n \in 0 .. MaxCalls : AtStart(r, n) \/ AtSecond(r, n) \/ AtThird(r, n)

\* What is in the variables of a rank.
Exception(i) == calls[i].kind = "max" /\ thread_pool_locked

BufOf(r) ==
  /\ \A t \in C!Active \ {0} :
       pc[r][t] = "stored" \/ (pc[r][0] = "gather") => buf[r][t] = Value(r, t, call[r][t])
  /\ pc[r][0] \in {"atom", "copy", "copied"} /\ calls[call[r][0]].kind # "bcast"
       => buf[r][0] = C!Expected(call[r][0])
InOf(r) ==
  LET i == call[r][0]
  IN /\ pc[r][0] \in {"store", "stored", "gather"} => in[r] = Value(r, 0, i)
     /\ pc[r][0] = "enter" => in[r] = Given(r, i).x
     /\ pc[r][0] \in {"atom", "copy", "copied"} /\ calls[i].kind = "bcast" => in[r] = C!Expected(i)
OutOf(r) ==
  \A t \in C!Active :
    pc[r][t] \in {"copied", "leave", "next", "exit"} /\ call[r][t] > 0 /\ ~ Exception(call[r][t])
      => result[r][t] = C!Expected(call[r][t])

\* The inductive invariant, of one rank and of all of them.
RankInv(r) ==
  /\ \A t \in C!Active : call[r][t] <= Len(calls)
  /\ PhaseOf(r)
  /\ given[r] = GivenBy(r, NPosted(r))
  /\ BufOf(r) /\ InOf(r) /\ OutOf(r)

CallsInv == C!TypeOK /\ \A r \in C!Ranks : RankInv(r)

-----------------------------------------------------------------------------
\* The ranks, the threads and the calls.
LEMMA Basics ==
  ASSUME C!TypeOK
  PROVE  /\ nranks_world \in Nat \ {0} /\ nthreads \in Nat \ {0} /\ MaxCalls \in Nat
         /\ 0 \in C!Active /\ 0 \in C!Threads /\ C!Active \subseteq C!Threads
         /\ C!Active \subseteq Nat
         /\ Len(calls) \in Nat /\ DOMAIN calls = 1 .. Len(calls)
         /\ \A i \in 1 .. Len(calls) :
              /\ calls[i] \in C!Ops /\ calls[i].root \in C!Ranks
              /\ calls[i].kind \in {"sum", "max", "bcast"}
         /\ \A r \in C!Ranks, t \in C!Active :
              call[r][t] \in 0 .. MaxCalls /\ call[r][t] \in Nat /\ pc[r][t] \in C!PCs
<1>1. nranks_world \in Nat \ {0} /\ nthreads \in Nat \ {0} /\ MaxCalls \in Nat
  BY CallsAssumption DEF C!TypeOK, C!CollectivesAssumption
<1>2. 0 \in C!Active /\ 0 \in C!Threads /\ C!Active \subseteq C!Threads /\ C!Active \subseteq Nat
  BY <1>1 DEF C!Active, C!Threads
<1>3. /\ Len(calls) \in Nat /\ DOMAIN calls = 1 .. Len(calls)
      /\ \A i \in 1 .. Len(calls) : calls[i] \in C!Ops
  BY DEF C!TypeOK
<1>4. \A o \in C!Ops : o.root \in C!Ranks /\ o.kind \in {"sum", "max", "bcast"}
  BY <1>1 DEF C!Ops, C!Ranks
<1>5. \A r \in C!Ranks, t \in C!Active :
        call[r][t] \in 0 .. MaxCalls /\ call[r][t] \in Nat /\ pc[r][t] \in C!PCs
  BY <1>1 DEF C!TypeOK
<1> QED BY <1>1, <1>2, <1>3, <1>4, <1>5

\* What a call returns and what is given for it do not change any more.
LEMMA Same ==
  ASSUME C!TypeOK, UNCHANGED C!env, \A i \in 1 .. Len(calls) : calls'[i] = calls[i]
  PROVE  /\ C!Ranks' = C!Ranks /\ C!Threads' = C!Threads /\ C!Active' = C!Active /\ C!Ops' = C!Ops
         /\ thread_pool_locked' = thread_pool_locked
         /\ \A i \in 1 .. Len(calls) :
              /\ C!Expected(i)' = C!Expected(i) /\ Exception(i)' = Exception(i)
              /\ \A r \in C!Ranks : Given(r, i)' = Given(r, i)
<1>1. /\ C!Ranks' = C!Ranks /\ C!Threads' = C!Threads /\ C!Active' = C!Active
      /\ C!Ops' = C!Ops
      /\ thread_pool_locked' = thread_pool_locked
  BY DEF C!env, C!Ranks, C!Threads, C!Active, C!Ops
<1>2. ASSUME NEW i \in 1 .. Len(calls)
      PROVE  /\ C!Expected(i)' = C!Expected(i) /\ Exception(i)' = Exception(i)
             /\ \A r \in C!Ranks : Given(r, i)' = Given(r, i)
  <2>1. calls'[i] = calls[i]
    OBVIOUS
  <2>2. \A r : C!Brought(r, i)' = C!Brought(r, i)
    BY <1>1, <2>1 DEF C!Brought
  <2> QED BY <1>1, <2>1, <2>2 DEF C!Expected, Exception, Given
<1> QED BY <1>1, <1>2

\* The phase a rank is in, told by one of its threads.
Out == {"leave", "next", "exit"}

\* Which phase of the rank it is, from the place of one of its threads.
LEMMA Phase ==
  ASSUME C!TypeOK, NEW s \in C!Ranks, RankInv(s), NEW t \in C!Active
  PROVE  /\ pc[s][t] \notin Out => call[s][t] \in 1 .. Len(calls)
         /\ pc[s][t] \in Out => AtStart(s, call[s][t])
         /\ pc[s][t] \in {"store", "stored"} =>
              /\ AtStart(s, call[s][t] - 1)
              /\ ~ thread_pool_locked /\ calls[call[s][t]].kind # "bcast"
         /\ pc[s][t] = "gather" => t = 0 /\ AtSecond(s, call[s][t])
         /\ pc[s][t] \in {"enter", "await"} =>
              /\ t = 0
              /\ \/ AtSecond(s, call[s][t])
                 \/ AtStart(s, call[s][t] - 1) /\ (thread_pool_locked \/ calls[call[s][t]].kind = "bcast")
         /\ pc[s][t] = "atom" =>
              \/ AtSecond(s, call[s][t])
              \/ AtStart(s, call[s][t] - 1) /\ calls[call[s][t]].kind = "bcast"
         /\ pc[s][t] \in {"copy", "copied"} => AtThird(s, call[s][t])
<1>1. call[s][t] \in Nat /\ call[s][t] <= Len(calls) /\ pc[s][t] \in C!PCs /\ Len(calls) \in Nat
  BY Basics DEF RankInv
<1>2. PICK n \in 0 .. MaxCalls : AtStart(s, n) \/ AtSecond(s, n) \/ AtThird(s, n)
  BY DEF RankInv, PhaseOf
<1>3. n \in Nat
  BY Basics
<1>4. CASE AtStart(s, n)
  <2>1. CASE call[s][t] = n /\ pc[s][t] \in Out
    BY <1>4, <2>1 DEF Out
  <2>2. CASE call[s][t] = n + 1 /\ pc[s][t] \in First(calls[n + 1].kind, t)
    <3>1. call[s][t] - 1 = n /\ call[s][t] \in 1 .. Len(calls)
      BY <1>1, <1>3, <2>2
    <3>2. calls[n + 1].kind # "bcast" =>
            pc[s][t] \in (IF thread_pool_locked THEN {"enter", "await"} ELSE {"store", "stored"})
      BY <2>2 DEF First
    <3>3. calls[n + 1].kind = "bcast" =>
            pc[s][t] \in (IF t = 0 THEN {"enter", "await", "atom"} ELSE {"atom"})
      BY <2>2 DEF First
    <3>4. thread_pool_locked => t = 0
      BY DEF C!Active
    <3> QED BY <1>4, <2>2, <3>1, <3>2, <3>3, <3>4 DEF Out
  <2> QED BY <1>4, <2>1, <2>2 DEF AtStart, Out
<1>5. CASE AtSecond(s, n)
  <2>1. call[s][t] = n /\ n > 0 /\ pc[s][t] \in Second(t)
    BY <1>5 DEF AtSecond
  <2> QED BY <1>1, <1>3, <1>5, <2>1 DEF Second, Out
<1>6. CASE AtThird(s, n)
  <2>1. call[s][t] = n /\ n > 0 /\ pc[s][t] \in Third
    BY <1>6 DEF AtThird
  <2> QED BY <1>1, <1>3, <1>6, <2>1 DEF Third, Out
<1> QED BY <1>2, <1>4, <1>5, <1>6

\* A rank whose threads do nothing.
LEMMA Still ==
  ASSUME C!TypeOK, UNCHANGED C!env, \A i \in 1 .. Len(calls) : calls'[i] = calls[i],
         Len(calls') \in Nat, Len(calls') >= Len(calls),
         NEW s \in C!Ranks, RankInv(s),
         pc'[s] = pc[s], call'[s] = call[s], buf'[s] = buf[s], in'[s] = in[s], result'[s] = result[s],
         given'[s] = given[s]
  PROVE  RankInv(s)'
<1>1. \A t \in C!Active : call[s][t] \in Nat /\ call[s][t] <= Len(calls) /\ Len(calls) \in Nat
  BY Basics DEF RankInv
<1>2. 0 \in C!Active
  BY Basics
<1>3. PhaseOf(s)'
  <2>1. PICK n \in 0 .. MaxCalls : AtStart(s, n) \/ AtSecond(s, n) \/ AtThird(s, n)
    BY DEF RankInv, PhaseOf
  <2>2. n \in Nat
    BY Basics
  <2>3. AtStart(s, n) => AtStart(s, n)'
    BY <1>1, <2>2, Same DEF AtStart, First
  <2>4. AtSecond(s, n) => AtSecond(s, n)'
    BY <1>1, <1>2, <2>2, Same DEF AtSecond, Second
  <2>5. AtThird(s, n) => AtThird(s, n)'
    BY <1>1, <1>2, <2>2, Same DEF AtThird, Third
  <2> QED BY <2>1, <2>3, <2>4, <2>5 DEF PhaseOf
<1>4. NPosted(s)' = NPosted(s) /\ NPosted(s) \in Int /\ NPosted(s) <= Len(calls)
  BY <1>1, <1>2 DEF NPosted
<1>5. (given[s] = GivenBy(s, NPosted(s)))'
  BY <1>1, <1>4, Same DEF RankInv, GivenBy
<1>9. pc[s][0] \in C!PCs \ Out => call[s][0] \in 1 .. Len(calls)
  BY <1>2, Phase
<1>6. BufOf(s)'
  <2>1. pc[s][0] \in {"atom", "copy", "copied"} => call[s][0] \in 1 .. Len(calls)
    BY <1>9 DEF C!PCs, C!Waiting, Out
  <2> QED BY <1>2, <2>1, Same DEF RankInv, BufOf
<1>7. InOf(s)'
  <2>1. pc[s][0] \in {"enter", "atom", "copy", "copied"} => call[s][0] \in 1 .. Len(calls)
    BY <1>9 DEF C!PCs, C!Waiting, Out
  <2> QED BY <1>2, <2>1, Same DEF RankInv, InOf
<1>8. OutOf(s)'
  BY <1>1, <1>2, Same DEF RankInv, OutOf
<1> QED BY <1>1, <1>3, <1>5, <1>6, <1>7, <1>8, Same DEF RankInv

-----------------------------------------------------------------------------
\* One rank takes a step.
LEMMA OneRank ==
  ASSUME CallsInv, C!TypeOK', UNCHANGED C!env, \A i \in 1 .. Len(calls) : calls'[i] = calls[i],
         Len(calls') \in Nat, Len(calls') >= Len(calls), NEW r \in C!Ranks, RankInv(r)',
         \A s \in C!Ranks \ {r} :
           /\ pc'[s] = pc[s] /\ call'[s] = call[s] /\ buf'[s] = buf[s] /\ in'[s] = in[s]
           /\ result'[s] = result[s] /\ given'[s] = given[s]
  PROVE  CallsInv'
<1>1. \A s \in C!Ranks : RankInv(s)'
  BY Still DEF CallsInv
<1> QED BY <1>1, Same DEF CallsInv

\* A thread goes to another place.
LEMMA Goes ==
  ASSUME C!TypeOK, NEW r \in C!Ranks, NEW t \in C!Active, NEW l \in C!PCs, C!Goto(r, t, l)
  PROVE  /\ pc' \in [C!Ranks -> [C!Active -> C!PCs]] /\ pc'[r][t] = l
         /\ \A u \in C!Active \ {t} : pc'[r][u] = pc[r][u]
         /\ \A s \in C!Ranks \ {r} : pc'[s] = pc[s]
BY DEF C!TypeOK, C!Goto

\* What is given grows by one.
LEMMA OneGiven ==
  ASSUME NEW r, NEW n \in Nat
  PROVE  /\ Append(GivenBy(r, n), Given(r, n + 1)) = GivenBy(r, n + 1)
         /\ Len(GivenBy(r, n)) = n
         /\ \A k \in 1 .. n : GivenBy(r, n)[k] = Given(r, k)
<1> DEFINE S == {Given(r, k) : k \in 1 .. n + 1}
<1>1. /\ GivenBy(r, n) \in Seq(S) /\ GivenBy(r, n + 1) \in Seq(S) /\ Given(r, n + 1) \in S
      /\ Len(GivenBy(r, n)) = n /\ Len(GivenBy(r, n + 1)) = n + 1
      /\ \A k \in 1 .. n : GivenBy(r, n)[k] = Given(r, k)
      /\ \A k \in 1 .. n + 1 : GivenBy(r, n + 1)[k] = Given(r, k)
  BY DEF GivenBy
<1>2. /\ Append(GivenBy(r, n), Given(r, n + 1)) \in Seq(S)
      /\ Len(Append(GivenBy(r, n), Given(r, n + 1))) = n + 1
      /\ \A k \in 1 .. n + 1 :
           Append(GivenBy(r, n), Given(r, n + 1))[k] = GivenBy(r, n + 1)[k]
  <2> HIDE DEF S
  <2> QED BY <1>1
<1> HIDE DEF S
<1> QED BY <1>1, <1>2, SeqEqual

\* How much has been given, and that it is not more than the calls.
LEMMA Posted ==
  ASSUME C!TypeOK, NEW r \in C!Ranks, RankInv(r)
  PROVE  NPosted(r) \in Nat /\ Len(given[r]) = NPosted(r) /\ NPosted(r) <= Len(calls)
<1>1. 0 \in C!Active /\ call[r][0] \in Nat /\ call[r][0] <= Len(calls) /\ Len(calls) \in Nat
      /\ pc[r][0] \in C!PCs
  BY Basics DEF RankInv
<1>2. pc[r][0] \in BeforeEnter => call[r][0] >= 1
  BY <1>1, Phase DEF BeforeEnter, Out
<1>3. NPosted(r) \in Nat /\ NPosted(r) <= Len(calls)
  BY <1>1, <1>2 DEF NPosted
<1> QED BY <1>3, OneGiven DEF RankInv

\* A call begins.
LEMMA CallStep ==
  ASSUME CallsInv, NEW r \in C!Ranks, NEW t \in C!Active, C!Call(r, t), NEW n, n = call[r][t]
  PROVE  CallsInv'
<1>1. /\ C!TypeOK /\ RankInv(r) /\ pc[r][t] = "next" /\ n < MaxCalls /\ n \in Nat
      /\ MaxCalls \in Nat /\ Len(calls) \in Nat /\ n <= Len(calls) /\ UNCHANGED C!env
      /\ calls \in Seq(C!Ops) /\ UNCHANGED <<buf, result, given>>
  BY Basics DEF CallsInv, C!Call, RankInv, C!TypeOK
<1>2. /\ calls' \in Seq(C!Ops) /\ Len(calls') \in Nat /\ Len(calls') >= Len(calls)
      /\ n + 1 <= Len(calls')
      /\ Len(calls') <= MaxCalls /\ \A i \in 1 .. Len(calls) : calls'[i] = calls[i]
  <2>0. IF n < Len(calls) THEN calls' = calls ELSE \E o \in C!Ops : calls' = Append(calls, o)
    BY DEF C!Call
  <2>1. CASE n < Len(calls)
    BY <1>1, <2>0, <2>1 DEF C!TypeOK
  <2>2. CASE n >= Len(calls)
    <3>1. PICK o \in C!Ops : calls' = Append(calls, o)
      BY <1>1, <2>0, <2>2
    <3> QED BY <1>1, <2>2, <3>1
  <2> QED BY <1>1, <2>1, <2>2
<1>3. /\ call' = [call EXCEPT ![r][t] = n + 1]
      /\ in' = [in EXCEPT ![r] = IF t = 0 THEN Value(r, 0, call'[r][t]) ELSE @]
      /\ C!Goto(r, t, C!Entry(calls'[call'[r][t]], t))
  BY <1>1 DEF C!Call
<1>4. /\ call' \in [C!Ranks -> [C!Active -> 0 .. MaxCalls]] /\ call'[r][t] = n + 1
      /\ \A u \in C!Active \ {t} : call'[r][u] = call[r][u]
      /\ \A s \in C!Ranks \ {r} : call'[s] = call[s]
  BY <1>1, <1>3 DEF C!TypeOK
<1>5. /\ DOMAIN in' = C!Ranks /\ in'[r] = (IF t = 0 THEN Value(r, 0, n + 1) ELSE in[r])
      /\ \A s \in C!Ranks \ {r} : in'[s] = in[s]
  BY <1>1, <1>3, <1>4, ZenonT(60) DEF C!TypeOK
<1>6. PICK o \in C!Ops : o = calls'[n + 1] /\ o.kind \in {"sum", "max", "bcast"}
  BY <1>1, <1>2 DEF C!Ops
<1>7. /\ C!Entry(o, t) \in C!PCs /\ C!Entry(o, t) \in First(o.kind, t)
      /\ C!Entry(o, t) \in {"enter", "store", "atom"} /\ (t = 0 => C!Entry(o, t) # "atom")
      /\ C!Entry(o, t) = "enter" => t = 0 /\ (thread_pool_locked \/ o.kind = "bcast")
  BY <1>6 DEF C!Entry, First, C!PCs, C!Waiting, C!Active
<1>8. /\ pc' \in [C!Ranks -> [C!Active -> C!PCs]] /\ pc'[r][t] = C!Entry(o, t)
      /\ \A u \in C!Active \ {t} : pc'[r][u] = pc[r][u]
      /\ \A s \in C!Ranks \ {r} : pc'[s] = pc[s]
  BY <1>1, <1>3, <1>4, <1>6, <1>7, Goes
<1>9. /\ 0 \in C!Active /\ AtStart(r, n)
      /\ \A u \in C!Active : call[r][u] \in Nat /\ call[r][u] <= Len(calls)
  BY <1>1, Basics, Phase DEF Out, RankInv
<1>10. C!TypeOK'
  <2>1. C!Ranks' = C!Ranks /\ C!Threads' = C!Threads /\ C!Active' = C!Active /\ C!Ops' = C!Ops
    BY <1>1, <1>2, Same
  <2>2. \A s \in C!Ranks : Len(given[s]) <= Len(calls')
    BY <1>1, <1>2, Posted DEF CallsInv
  <2> QED BY <1>1, <1>2, <1>4, <1>5, <1>8, <2>1, <2>2 DEF C!TypeOK, C!env
<1>11. PhaseOf(r)'
  <2>1. \A u \in C!Active \ {t} : call[r][u] = n + 1 => calls'[n + 1] = calls[n + 1]
    BY <1>1, <1>2, <1>9
  <2>2. /\ C!Active' = C!Active /\ thread_pool_locked' = thread_pool_locked
        /\ calls'[n + 1].kind = o.kind
    BY <1>1, <1>2, <1>6, Same
  <2>3. ASSUME NEW u \in C!Active
        PROVE  \/ call'[r][u] = n /\ pc'[r][u] \in {"leave", "next", "exit"}
               \/ call'[r][u] = n + 1 /\ pc'[r][u] \in First(o.kind, u)
    <3>1. CASE u = t
      BY <1>4, <1>7, <1>8, <3>1
    <3>2. CASE u # t
      <4>1. call'[r][u] = call[r][u] /\ pc'[r][u] = pc[r][u]
        BY <1>4, <1>8, <3>2
      <4>2. \/ call[r][u] = n /\ pc[r][u] \in {"leave", "next", "exit"}
            \/ call[r][u] = n + 1 /\ pc[r][u] \in First(calls[n + 1].kind, u)
        BY <1>9 DEF AtStart
      <4>3. call[r][u] = n + 1 => calls[n + 1] = o
        BY <1>6, <2>1, <3>2
      <4> QED BY <4>1, <4>2, <4>3
    <3> QED BY <3>1, <3>2
  <2>4. \A u : First(o.kind, u)' = First(o.kind, u)
    BY <2>2 DEF First
  <2>5. AtStart(r, n)'
    BY <2>2, <2>3, <2>4 DEF AtStart
  <2> QED BY <1>1, <2>5 DEF PhaseOf
<1>12. (given[r] = GivenBy(r, NPosted(r)))'
  <2>1. NPosted(r)' = NPosted(r)
    BY <1>1, <1>4, <1>7, <1>8, <1>9 DEF NPosted, BeforeEnter
  <2>2. NPosted(r) \in Nat /\ NPosted(r) <= Len(calls)
    BY <1>1, Posted
  <2>3. \A i \in 1 .. NPosted(r) : Given(r, i)' = Given(r, i)
    BY <1>1, <1>2, <2>2, Same
  <2> QED BY <1>1, <2>1, <2>3 DEF RankInv, GivenBy
<1>13. pc[r][0] \in {"enter", "atom", "copy", "copied"} => call[r][0] \in 1 .. Len(calls)
  BY <1>1, <1>9, Phase DEF Out
<1>14. BufOf(r)'
  <2>1. pc'[r][0] # "gather"
    BY <1>7, <1>8, <1>9 DEF AtStart, First
  <2> QED BY <1>1, <1>2, <1>4, <1>7, <1>8, <1>9, <1>13, <2>1, Same, ZenonT(60) DEF RankInv, BufOf
<1>15. InOf(r)'
  <2>1. CASE t = 0
    <3>1. C!Entry(o, t) = "enter" => Given(r, n + 1)'.x = Value(r, 0, n + 1)
      BY <1>1, <1>2, <1>6, <1>7, Same DEF Given, C!Brought
    <3> QED BY <1>4, <1>5, <1>7, <1>8, <2>1, <3>1 DEF InOf
  <2>2. CASE t # 0
    BY <1>1, <1>2, <1>4, <1>5, <1>8, <1>9, <1>13, <2>2, Same DEF RankInv, InOf
  <2> QED BY <2>1, <2>2
<1>16. OutOf(r)'
  <2>1. C!Active' = C!Active
    BY <1>1, <1>2, Same
  <2>2. ASSUME NEW u \in C!Active,
               (pc[r][u] \in {"copied", "leave", "next", "exit"} /\ call[r][u] > 0
                  /\ ~ Exception(call[r][u]))'
        PROVE  (result[r][u] = C!Expected(call[r][u]))'
    <3>1. u # t
      BY <1>7, <1>8, <2>2
    <3>2. call'[r][u] = call[r][u] /\ pc'[r][u] = pc[r][u] /\ result' = result
      BY <1>1, <1>4, <1>8, <3>1
    <3>3. call[r][u] \in 1 .. Len(calls)
      BY <1>1, <1>9, <2>2, <3>2
    <3>4. PICK i \in 1 .. Len(calls) : i = call[r][u]
      BY <3>3
    <3>5. C!Expected(i)' = C!Expected(i) /\ Exception(i)' = Exception(i)
      BY <1>1, <1>2, Same
    <3>6. result[r][u] = C!Expected(i)
      BY <1>1, <2>2, <3>2, <3>4, <3>5 DEF RankInv, OutOf
    <3> QED BY <3>2, <3>4, <3>5, <3>6
  <2> QED BY <2>1, <2>2 DEF OutOf
<1>17. RankInv(r)'
  <2>1. C!Active' = C!Active
    BY <1>1, <1>2, Same
  <2>2. ASSUME NEW u \in C!Active
        PROVE  call'[r][u] <= Len(calls')
    <3>1. CASE u = t
      BY <1>2, <1>4, <3>1
    <3>2. CASE u # t
      <4>1. call'[r][u] = call[r][u]
        BY <1>4, <3>2
      <4>2. call[r][u] \in Nat /\ call[r][u] <= Len(calls)
        BY <1>9
      <4> QED BY <1>1, <1>2, <4>1, <4>2
    <3> QED BY <3>1, <3>2
  <2> QED BY <1>11, <1>12, <1>14, <1>15, <1>16, <2>1, <2>2 DEF RankInv
<1> QED BY <1>1, <1>2, <1>4, <1>5, <1>8, <1>10, <1>17, OneRank

\* Nothing that is told by the program changes.
LEMMA Kept ==
  ASSUME UNCHANGED <<C!env, calls>>
  PROVE  /\ C!Ranks' = C!Ranks /\ C!Threads' = C!Threads /\ C!Active' = C!Active /\ C!Ops' = C!Ops
         /\ thread_pool_locked' = thread_pool_locked /\ calls' = calls
         /\ nranks_world' = nranks_world
         /\ nthreads' = nthreads
         /\ \A i : C!Expected(i)' = C!Expected(i) /\ Exception(i)' = Exception(i)
         /\ \A s, i : Given(s, i)' = Given(s, i)
         /\ \A s, i : GivenBy(s, i)' = GivenBy(s, i)
         /\ \A kind, u : First(kind, u)' = First(kind, u) /\ Second(u)' = Second(u)
<1>1. /\ C!Ranks' = C!Ranks /\ C!Threads' = C!Threads /\ C!Active' = C!Active
      /\ C!Ops' = C!Ops
      /\ thread_pool_locked' = thread_pool_locked /\ calls' = calls
      /\ nranks_world' = nranks_world
      /\ nthreads' = nthreads
  BY DEF C!env, C!Ranks, C!Threads, C!Active, C!Ops
<1>2. \A s, i : C!Brought(s, i)' = C!Brought(s, i)
  BY <1>1 DEF C!Brought
<1>3. \A i : C!Expected(i)' = C!Expected(i) /\ Exception(i)' = Exception(i)
  BY <1>1, <1>2 DEF C!Expected, Exception
<1>4. \A s, i : Given(s, i)' = Given(s, i)
  BY <1>1, <1>2 DEF Given
<1>5. \A s, i : GivenBy(s, i)' = GivenBy(s, i)
  BY <1>4 DEF GivenBy
<1>6. \A kind, u : First(kind, u)' = First(kind, u) /\ Second(u)' = Second(u)
  BY <1>1 DEF First, Second
<1> QED BY <1>1, <1>3, <1>4, <1>5, <1>6

\* A thread goes on in its call: what is left to show of its rank.
LEMMA ThreadStep ==
  ASSUME CallsInv, NEW r \in C!Ranks, NEW t \in C!Active, NEW l \in C!PCs, C!Goto(r, t, l),
         UNCHANGED <<C!env, calls, call>>,
         {DOMAIN buf', DOMAIN in', DOMAIN result', DOMAIN given'} = {C!Ranks},
         DOMAIN buf'[r] = C!Threads, DOMAIN result'[r] = C!Active, Len(given'[r]) <= Len(calls),
         \A s \in C!Ranks \ {r} :
           buf'[s] = buf[s] /\ in'[s] = in[s] /\ result'[s] = result[s] /\ given'[s] = given[s],
         (given[r] = GivenBy(r, NPosted(r)))', PhaseOf(r)', BufOf(r)', InOf(r)', OutOf(r)'
  PROVE  CallsInv'
<1>1. /\ pc' \in [C!Ranks -> [C!Active -> C!PCs]] /\ \A s \in C!Ranks \ {r} : pc'[s] = pc[s]
      /\ UNCHANGED <<C!env, calls>> /\ call' = call /\ UNCHANGED C!env
  BY Goes DEF CallsInv
<1>2. C!TypeOK'
  BY <1>1, Kept DEF CallsInv, C!TypeOK
<1>3. RankInv(r)'
  BY <1>1, Kept DEF CallsInv, RankInv
<1>4. /\ Len(calls') \in Nat /\ Len(calls') >= Len(calls)
      /\ \A i \in 1 .. Len(calls) : calls'[i] = calls[i]
  BY <1>1, Basics DEF CallsInv
<1> QED BY <1>1, <1>2, <1>3, <1>4, OneRank

\* It has given nothing new, ...
LEMMA GivesNothing ==
  ASSUME CallsInv, NEW r \in C!Ranks, NEW t \in C!Active, NEW l \in C!PCs, C!Goto(r, t, l),
         UNCHANGED <<C!env, calls, call, given>>,
         t = 0 => (l \in BeforeEnter <=> pc[r][t] \in BeforeEnter)
  PROVE  (given[r] = GivenBy(r, NPosted(r)))' /\ Len(given'[r]) <= Len(calls)
<1>1. UNCHANGED <<C!env, calls>> /\ call' = call /\ given' = given /\ 0 \in C!Active
  BY Basics DEF CallsInv
<1>2. pc'[r][0] \in BeforeEnter <=> pc[r][0] \in BeforeEnter
  BY <1>1, Goes DEF CallsInv
<1>3. NPosted(r)' = NPosted(r)
  BY <1>1, <1>2 DEF NPosted, BeforeEnter
<1> QED BY <1>1, <1>3, Kept, Posted DEF CallsInv, RankInv, C!TypeOK

\* ... and is where it has been with respect to its call.
LEMMA StaysIn ==
  ASSUME CallsInv, NEW r \in C!Ranks, NEW t \in C!Active, NEW l \in C!PCs, C!Goto(r, t, l),
         UNCHANGED <<C!env, calls, call>>, NEW n \in 0 .. MaxCalls,
         \/ /\ AtStart(r, n)
            /\ \/ call[r][t] = n /\ l \in Out
               \/ call[r][t] = n + 1 /\ l \in First(calls[n + 1].kind, t)
         \/ AtSecond(r, n) /\ l \in Second(t)
         \/ AtThird(r, n) /\ l \in Third
  PROVE  PhaseOf(r)'
<1>1. /\ call' = call /\ calls' = calls /\ C!Active' = C!Active
      /\ thread_pool_locked' = thread_pool_locked
      /\ \A kind, u : First(kind, u)' = First(kind, u) /\ Second(u)' = Second(u)
      /\ pc'[r][t] = l /\ \A u \in C!Active \ {t} : pc'[r][u] = pc[r][u]
  BY Kept, Goes DEF CallsInv
<1>2. CASE AtStart(r, n) /\ \/ call[r][t] = n /\ l \in Out
                            \/ call[r][t] = n + 1 /\ l \in First(calls[n + 1].kind, t)
  <2>1. ASSUME NEW u \in C!Active
        PROVE  \/ call'[r][u] = n /\ pc'[r][u] \in {"leave", "next", "exit"}
               \/ call'[r][u] = n + 1 /\ pc'[r][u] \in First(calls[n + 1].kind, u)
    <3>1. CASE u = t
      BY <1>1, <1>2, <3>1 DEF Out
    <3>2. CASE u # t
      BY <1>1, <1>2, <3>2 DEF AtStart
    <3> QED BY <3>1, <3>2
  <2>2. AtStart(r, n)'
    BY <1>1, <2>1 DEF AtStart
  <2> QED BY <2>2 DEF PhaseOf
<1>3. CASE AtSecond(r, n) /\ l \in Second(t)
  <2>1. \A u \in C!Active : call'[r][u] = n /\ pc'[r][u] \in Second(u)
    BY <1>1, <1>3 DEF AtSecond
  <2>2. AtSecond(r, n)'
    BY <1>1, <1>3, <2>1 DEF AtSecond
  <2> QED BY <2>2 DEF PhaseOf
<1>4. CASE AtThird(r, n) /\ l \in Third
  <2>1. \A u \in C!Active : call'[r][u] = n /\ pc'[r][u] \in Third
    BY <1>1, <1>4 DEF AtThird
  <2>2. AtThird(r, n)'
    BY <1>1, <1>4, <2>1 DEF AtThird, Third
  <2> QED BY <2>2 DEF PhaseOf
<1> QED BY <1>2, <1>3, <1>4

\* The last call is over.
LEMMA ExitStep ==
  ASSUME CallsInv, NEW r \in C!Ranks, NEW t \in C!Active, C!Exit(r, t)
  PROVE  CallsInv'
<1>1. /\ C!TypeOK /\ RankInv(r) /\ UNCHANGED <<C!env, calls, call>>
      /\ UNCHANGED <<C!env, calls, call, given>>
      /\ UNCHANGED <<C!env, calls>> /\ call' = call /\ buf' = buf /\ in' = in
      /\ result' = result
      /\ given' = given /\ pc[r][t] = "next" /\ C!Goto(r, t, "exit") /\ "exit" \in C!PCs
      /\ 0 \in C!Active
  BY Basics DEF CallsInv, C!Exit, C!PCs
<1>2. pc'[r][t] = "exit" /\ \A u \in C!Active \ {t} : pc'[r][u] = pc[r][u]
  BY <1>1, Goes
<1>3. PhaseOf(r)'
  BY <1>1, Phase, Basics, StaysIn DEF Out
<1>4. (given[r] = GivenBy(r, NPosted(r)))' /\ Len(given'[r]) <= Len(calls)
  BY <1>1, GivesNothing DEF BeforeEnter
<1>5. BufOf(r)'
  BY <1>1, <1>2, Kept DEF RankInv, BufOf
<1>6. InOf(r)'
  BY <1>1, <1>2, Kept DEF RankInv, InOf
<1>7. OutOf(r)'
  BY <1>1, <1>2, Kept DEF RankInv, OutOf
<1> QED BY <1>1, <1>3, <1>4, <1>5, <1>6, <1>7, ThreadStep DEF C!TypeOK

\* A thread leaves what it has brought in the buffer.
LEMMA StoreStep ==
  ASSUME CallsInv, NEW r \in C!Ranks, NEW t \in C!Active, C!Store(r, t)
  PROVE  CallsInv'
<1>1. /\ C!TypeOK /\ RankInv(r) /\ UNCHANGED <<C!env, calls, call>>
      /\ UNCHANGED <<C!env, calls, call, given>>
      /\ UNCHANGED <<C!env, calls>> /\ call' = call /\ in' = in /\ result' = result
      /\ given' = given /\ pc[r][t] = "store" /\ C!Goto(r, t, "stored")
      /\ "stored" \in C!PCs
      /\ buf' = [buf EXCEPT ![r][t] = Value(r, t, call[r][t])]
      /\ 0 \in C!Active /\ C!Active \subseteq C!Threads /\ call[r][t] \in Nat
      /\ call[r][t] <= MaxCalls
      /\ MaxCalls \in Nat
  BY Basics DEF CallsInv, C!Store, C!PCs, C!Waiting
<1>2. pc'[r][t] = "stored" /\ \A u \in C!Active \ {t} : pc'[r][u] = pc[r][u]
  BY <1>1, Goes
<1>3. /\ DOMAIN buf' = C!Ranks /\ DOMAIN buf'[r] = C!Threads
      /\ buf'[r][t] = Value(r, t, call[r][t]) /\ \A u \in C!Active \ {t} : buf'[r][u] = buf[r][u]
      /\ \A s \in C!Ranks \ {r} : buf'[s] = buf[s]
  BY <1>1 DEF C!TypeOK
<1>4. PICK n \in 0 .. MaxCalls : n = call[r][t] - 1
  BY <1>1, Phase, Basics DEF Out
<1>5. PhaseOf(r)'
  <2>1. AtStart(r, n) /\ call[r][t] = n + 1 /\ "stored" \in First(calls[n + 1].kind, t)
    BY <1>1, <1>4, Phase DEF First
  <2> QED BY <1>1, <2>1, StaysIn
<1>6. (given[r] = GivenBy(r, NPosted(r)))' /\ Len(given'[r]) <= Len(calls)
  BY <1>1, GivesNothing DEF BeforeEnter
<1>7. BufOf(r)'
  BY <1>1, <1>2, <1>3, Kept DEF RankInv, BufOf
<1>8. InOf(r)'
  BY <1>1, <1>2, Kept DEF RankInv, InOf
<1>9. OutOf(r)'
  BY <1>1, <1>2, Kept DEF RankInv, OutOf
<1> QED BY <1>1, <1>3, <1>5, <1>6, <1>7, <1>8, <1>9, ThreadStep, ZenonT(60) DEF C!TypeOK

\* The master puts them together.
LEMMA GatherStep ==
  ASSUME CallsInv, NEW r \in C!Ranks, NEW t \in C!Active, C!Gather(r, t)
  PROVE  CallsInv'
<1> DEFINE i == call[r][t]
           x == [u \in C!Threads |-> IF u = 0 THEN in[r] ELSE buf[r][u]]
<1>1. /\ C!TypeOK /\ RankInv(r) /\ UNCHANGED <<C!env, calls, call>>
      /\ UNCHANGED <<C!env, calls, call, given>>
      /\ UNCHANGED <<C!env, calls>> /\ call' = call /\ buf' = buf /\ result' = result
      /\ given' = given /\ pc[r][t] = "gather" /\ C!Goto(r, t, "enter") /\ "enter" \in C!PCs
      /\ in' = [in EXCEPT ![r] = C!Reduce(calls[i].kind, x)]
      /\ 0 \in C!Active /\ i \in 0 .. MaxCalls
  BY Basics DEF CallsInv, C!Gather, C!PCs, C!op
<1>2. pc'[r][t] = "enter" /\ \A u \in C!Active \ {t} : pc'[r][u] = pc[r][u]
  BY <1>1, Goes
<1>3. t = 0 /\ AtSecond(r, i) /\ i \in 1 .. Len(calls)
  BY <1>1, Phase DEF Out
<1>4. in'[r] = Given(r, i).x
  <2>1. ~ thread_pool_locked /\ calls[i].kind # "bcast" /\ C!Active = C!Threads
    BY <1>3 DEF AtSecond, C!Active
  <2>2. in[r] = Value(r, 0, i)
    BY <1>1, <1>3 DEF RankInv, InOf
  <2>3. \A u \in C!Threads \ {0} : buf[r][u] = Value(r, u, i)
    BY <1>1, <1>3, <2>1 DEF RankInv, BufOf, AtSecond
  <2>4. x = [u \in C!Threads |-> Value(r, u, i)]
    BY <2>2, <2>3
  <2>5. in'[r] = C!Reduce(calls[i].kind, x)
    BY <1>1 DEF C!TypeOK
  <2> QED BY <2>1, <2>4, <2>5 DEF Given, C!Brought
<1>5. DOMAIN in' = C!Ranks /\ \A s \in C!Ranks \ {r} : in'[s] = in[s]
  BY <1>1 DEF C!TypeOK
<1>6. PhaseOf(r)'
  BY <1>1, <1>3, StaysIn DEF Second
<1>7. (given[r] = GivenBy(r, NPosted(r)))' /\ Len(given'[r]) <= Len(calls)
  BY <1>1, GivesNothing DEF BeforeEnter
<1>8. BufOf(r)'
  BY <1>1, <1>2, <1>3, Kept DEF RankInv, BufOf
<1>9. InOf(r)'
  BY <1>1, <1>2, <1>3, <1>4, Kept DEF InOf
<1>10. OutOf(r)'
  BY <1>1, <1>2, Kept DEF RankInv, OutOf
<1> QED BY <1>1, <1>5, <1>6, <1>7, <1>8, <1>9, <1>10, ThreadStep DEF C!TypeOK

\* The master gives to MPI.
LEMMA EnterStep ==
  ASSUME CallsInv, NEW r \in C!Ranks, NEW t \in C!Active, C!Enter(r, t)
  PROVE  CallsInv'
<1>0. PICK i : i = call[r][t]
  OBVIOUS
<1>1. /\ C!TypeOK /\ RankInv(r) /\ UNCHANGED <<C!env, calls, call>>
      /\ UNCHANGED <<C!env, calls>>
      /\ call' = call /\ buf' = buf /\ in' = in /\ result' = result
      /\ pc[r][t] = "enter" /\ C!Goto(r, t, "await") /\ "await" \in C!PCs
      /\ given' = [given EXCEPT ![r] = Append(@,
           [kind |-> IF thread_pool_locked /\ calls[i].kind = "max" THEN "sum" ELSE calls[i].kind,
            root |-> calls[i].root, x |-> in[r]])]
      /\ 0 \in C!Active /\ i \in 0 .. MaxCalls
  BY <1>0, Basics DEF CallsInv, C!Enter, C!PCs, C!op
<1>2. pc'[r][t] = "await" /\ \A u \in C!Active \ {t} : pc'[r][u] = pc[r][u]
  BY <1>1, Goes
<1>3. t = 0 /\ i \in 1 .. Len(calls)
  BY <1>0, <1>1, Phase DEF Out
<1>4. PICK n \in 0 .. MaxCalls : n = i - 1
  <2>1. i - 1 \in 0 .. MaxCalls
    BY <1>1, <1>3, Basics
  <2> QED BY <2>1
<1>5. n \in Nat /\ i = n + 1
  BY <1>3, <1>4
<1>6. /\ DOMAIN given' = C!Ranks /\ given'[r] = Append(given[r], Given(r, i))
      /\ \A s \in C!Ranks \ {r} : given'[s] = given[s]
  <2>1. in[r] = Given(r, i).x
    BY <1>0, <1>1, <1>3 DEF RankInv, InOf
  <2> QED BY <1>1, <2>1 DEF C!TypeOK, Given
<1>7. given[r] = GivenBy(r, n)
  BY <1>0, <1>1, <1>3, <1>4 DEF RankInv, NPosted, BeforeEnter
<1>8. given'[r] = GivenBy(r, i) /\ Len(given'[r]) = i
  <2>1. given'[r] = GivenBy(r, n + 1) /\ Len(GivenBy(r, n + 1)) = n + 1
    <3>1. Append(GivenBy(r, n), Given(r, n + 1)) = GivenBy(r, n + 1)
      BY <1>5, OneGiven
    <3>2. Len(GivenBy(r, n + 1)) = n + 1
      BY <1>5, OneGiven
    <3> QED BY <1>5, <1>6, <1>7, <3>1, <3>2
  <2> QED BY <1>5, <2>1
<1>9. (given[r] = GivenBy(r, NPosted(r)))'
  <2>1. NPosted(r)' = i
    BY <1>0, <1>1, <1>2, <1>3 DEF NPosted, BeforeEnter
  <2> QED BY <1>1, <1>8, <2>1, Kept
<1>10. PhaseOf(r)'
  <2>1. CASE AtSecond(r, i)
    BY <1>0, <1>1, <1>3, <2>1, StaysIn DEF Second
  <2>2. CASE AtStart(r, n) /\ (thread_pool_locked \/ calls[i].kind = "bcast")
    <3>1. "await" \in First(calls[n + 1].kind, t)
      BY <1>3, <1>5, <2>2 DEF First
    <3> QED BY <1>0, <1>1, <1>5, <2>2, <3>1, StaysIn
  <2> QED BY <1>0, <1>1, <1>4, <2>1, <2>2, Phase
<1>11. BufOf(r)'
  BY <1>1, <1>2, <1>3, Kept DEF RankInv, BufOf
<1>12. InOf(r)'
  BY <1>1, <1>2, <1>3, Kept DEF RankInv, InOf
<1>13. OutOf(r)'
  BY <1>1, <1>2, <1>3, Kept, ZenonT(60) DEF RankInv, OutOf
<1>14. Len(given'[r]) <= Len(calls)
  BY <1>3, <1>8
<1> QED BY <1>1, <1>6, <1>9, <1>10, <1>11, <1>12, <1>13, <1>14, ThreadStep DEF C!TypeOK

\* A thread takes the result over.
LEMMA CopyStep ==
  ASSUME CallsInv, NEW r \in C!Ranks, NEW t \in C!Active, C!Copy(r, t)
  PROVE  CallsInv'
<1>0. PICK i : i = call[r][t]
  OBVIOUS
<1>1. /\ C!TypeOK /\ RankInv(r) /\ UNCHANGED <<C!env, calls, call>>
      /\ UNCHANGED <<C!env, calls, call, given>>
      /\ UNCHANGED <<C!env, calls>> /\ call' = call /\ buf' = buf /\ in' = in
      /\ given' = given /\ pc[r][t] = "copy" /\ C!Goto(r, t, C!AfterCopy)
      /\ C!AfterCopy \in C!PCs
      /\ result' = [result EXCEPT ![r][t] = IF calls[i].kind = "bcast" THEN in[r] ELSE buf[r][0]]
      /\ 0 \in C!Active /\ i \in 0 .. MaxCalls
  BY <1>0, Basics DEF CallsInv, C!Copy, C!PCs, C!Waiting, C!AfterCopy, C!op
<1>2. pc'[r][t] = C!AfterCopy /\ \A u \in C!Active \ {t} : pc'[r][u] = pc[r][u]
  BY <1>1, Goes
<1>3. AtThird(r, i) /\ call[r][0] = i /\ pc[r][0] \in {"copy", "copied"}
  BY <1>0, <1>1, Phase DEF AtThird, Third
<1>4. /\ DOMAIN result' = C!Ranks /\ DOMAIN result'[r] = C!Active
      /\ result'[r][t] = C!Expected(i)
      /\ \A u \in C!Active \ {t} : result'[r][u] = result[r][u]
      /\ \A s \in C!Ranks \ {r} : result'[s] = result[s]
  <2>1. calls[i].kind = "bcast" => in[r] = C!Expected(i)
    BY <1>1, <1>3 DEF RankInv, InOf
  <2>2. calls[i].kind # "bcast" => buf[r][0] = C!Expected(i)
    BY <1>1, <1>3 DEF RankInv, BufOf
  <2> QED BY <1>1, <2>1, <2>2 DEF C!TypeOK
<1>5. PhaseOf(r)'
  <2>1. CASE thread_pool_locked
    <3>1. AtStart(r, i)'
      BY <1>0, <1>1, <1>2, <2>1, Kept DEF AtStart, C!AfterCopy, C!Active
    <3> QED BY <1>1, <3>1 DEF PhaseOf
  <2>2. CASE ~ thread_pool_locked
    BY <1>0, <1>1, <1>3, <2>2, StaysIn DEF C!AfterCopy, Third
  <2> QED BY <2>1, <2>2
<1>6. (given[r] = GivenBy(r, NPosted(r)))' /\ Len(given'[r]) <= Len(calls)
  BY <1>1, GivesNothing DEF BeforeEnter, C!AfterCopy
<1>7. BufOf(r)'
  BY <1>1, <1>2, <1>3, Kept DEF RankInv, BufOf, C!AfterCopy
<1>8. InOf(r)'
  BY <1>1, <1>2, <1>3, Kept DEF RankInv, InOf, C!AfterCopy
<1>9. OutOf(r)'
  BY <1>0, <1>1, <1>2, <1>4, Kept DEF RankInv, OutOf
<1> QED BY <1>1, <1>4, <1>5, <1>6, <1>7, <1>8, <1>9, ThreadStep, ZenonT(60) DEF C!TypeOK

\* The function returns.
LEMMA LeaveStep ==
  ASSUME CallsInv, NEW r \in C!Ranks, NEW t \in C!Active, C!Leave(r, t)
  PROVE  CallsInv'
<1>1. /\ C!TypeOK /\ RankInv(r) /\ UNCHANGED <<C!env, calls, call>>
      /\ UNCHANGED <<C!env, calls, call, given>>
      /\ UNCHANGED <<C!env, calls>> /\ call' = call /\ buf' = buf /\ result' = result
      /\ given' = given /\ pc[r][t] = "leave" /\ C!Goto(r, t, "next") /\ "next" \in C!PCs
      /\ in' = [in EXCEPT ![r] = IF t = 0 THEN C!Dead ELSE @]
      /\ 0 \in C!Active
  BY Basics DEF CallsInv, C!Leave, C!PCs
<1>2. pc'[r][t] = "next" /\ \A u \in C!Active \ {t} : pc'[r][u] = pc[r][u]
  BY <1>1, Goes
<1>3. /\ DOMAIN in' = C!Ranks /\ (t # 0 => in'[r] = in[r])
      /\ \A s \in C!Ranks \ {r} : in'[s] = in[s]
  BY <1>1 DEF C!TypeOK
<1>4. PhaseOf(r)'
  BY <1>1, Phase, Basics, StaysIn DEF Out
<1>5. (given[r] = GivenBy(r, NPosted(r)))' /\ Len(given'[r]) <= Len(calls)
  BY <1>1, GivesNothing DEF BeforeEnter
<1>6. BufOf(r)'
  BY <1>1, <1>2, Kept DEF RankInv, BufOf
<1>7. InOf(r)'
  BY <1>1, <1>2, <1>3, Kept DEF RankInv, InOf
<1>8. OutOf(r)'
  BY <1>1, <1>2, Kept DEF RankInv, OutOf
<1> QED BY <1>1, <1>3, <1>4, <1>5, <1>6, <1>7, <1>8, ThreadStep DEF C!TypeOK

\* What a rank has given for a call.
LEMMA Received ==
  ASSUME CallsInv, NEW s \in C!Ranks, NEW i \in 1 .. Len(calls), Len(given[s]) >= i
  PROVE  given[s][i] = Given(s, i)
<1>1. NPosted(s) \in Nat /\ Len(given[s]) = NPosted(s) /\ given[s] = GivenBy(s, NPosted(s))
      /\ Len(calls) \in Nat
  BY Posted, Basics DEF CallsInv, RankInv
<1>2. i \in 1 .. NPosted(s)
  BY <1>1
<1> QED BY <1>1, <1>2, OneGiven

\* MPI returns: the master has what all have brought to this very call.
LEMMA AwaitStep ==
  ASSUME CallsInv, NEW r \in C!Ranks, NEW t \in C!Active, C!Await(r, t)
  PROVE  CallsInv'
<1>0. PICK i : i = call[r][t]
  OBVIOUS
<1>1. /\ C!TypeOK /\ RankInv(r) /\ UNCHANGED <<C!env, calls, call>>
      /\ UNCHANGED <<C!env, calls, call, given>>
      /\ UNCHANGED <<C!env, calls>> /\ call' = call /\ given' = given
      /\ pc[r][t] = "await" /\ {"copy", "atom", "leave"} \subseteq C!PCs
      /\ 0 \in C!Active /\ i \in 0 .. MaxCalls
      /\ DOMAIN buf = C!Ranks /\ DOMAIN in = C!Ranks /\ DOMAIN result = C!Ranks
      /\ DOMAIN buf[r] = C!Threads /\ DOMAIN result[r] = C!Active /\ 0 \in C!Threads
  BY <1>0, Basics DEF CallsInv, C!Await, C!PCs, C!Waiting, C!TypeOK
<1>2. t = 0 /\ i \in 1 .. Len(calls) /\ i \in Nat
  BY <1>0, <1>1, Phase, Basics DEF Out
<1>3. Len(given[r]) = i /\ given[r][i] = Given(r, i)
  <2>1. NPosted(r) = i
    BY <1>0, <1>1, <1>2 DEF NPosted, BeforeEnter
  <2>2. Len(given[r]) = i
    BY <1>1, <2>1, Posted
  <2> QED BY <1>2, <2>2, Received
<1>4. PICK n \in 0 .. MaxCalls : n = i - 1
  <2>1. i - 1 \in 0 .. MaxCalls
    BY <1>1, <1>2, Basics
  <2> QED BY <2>1
<1>5. i = n + 1 /\ n \in Nat
  BY <1>2, <1>4
<1> DEFINE k == Given(r, i)
           x == [s \in C!Ranks |-> given[s][i].x]
<1>6. /\ k.root = calls[i].root /\ k.root \in C!Ranks
      /\ k.kind = "bcast" <=> calls[i].kind = "bcast"
      /\ ~ Exception(i) => k.kind = calls[i].kind
  BY <1>1, <1>2, Basics DEF Given, Exception
<1>7. IF k.kind = "bcast"
        THEN /\ Len(given[k.root]) >= i
             /\ in' = [in EXCEPT ![r] = x[k.root]]
             /\ C!Goto(r, t, IF thread_pool_locked THEN "copy" ELSE "atom")
             /\ UNCHANGED <<buf, result>>
        ELSE /\ \A s \in C!Ranks : Len(given[s]) >= i
             /\ IF thread_pool_locked
                  THEN /\ result' = [result EXCEPT ![r][t] = C!Reduce(k.kind, x)]
                       /\ C!Goto(r, t, "leave")
                       /\ UNCHANGED buf
                  ELSE /\ buf' = [buf EXCEPT ![r][0] = C!Reduce(k.kind, x)]
                       /\ C!Goto(r, t, "atom")
                       /\ UNCHANGED result
             /\ UNCHANGED in
  BY <1>3 DEF C!Await
<1>8. CASE calls[i].kind = "bcast"
  <2> DEFINE l == IF thread_pool_locked THEN "copy" ELSE "atom"
  <2>1. in' = [in EXCEPT ![r] = C!Expected(i)]
    <3>1. x[k.root] = Value(k.root, 0, i)
      <4>1. k.root \in C!Ranks /\ Len(given[k.root]) >= i
        BY <1>6, <1>7, <1>8
      <4>2. given[k.root][i] = Given(k.root, i)
        BY <1>2, <4>1, Received
      <4>3. Given(k.root, i).x = Value(k.root, 0, i)
        BY <1>8 DEF Given
      <4> QED BY <4>1, <4>2, <4>3
    <3> QED BY <1>6, <1>7, <1>8, <3>1 DEF C!Expected
  <2>2. C!Goto(r, t, l) /\ buf' = buf /\ result' = result /\ l \in C!PCs
    BY <1>1, <1>6, <1>7, <1>8
  <2>3. pc'[r][t] = l /\ \A u \in C!Active \ {t} : pc'[r][u] = pc[r][u]
    BY <1>1, <2>2, Goes
  <2>4. DOMAIN in' = C!Ranks /\ in'[r] = C!Expected(i) /\ \A s \in C!Ranks \ {r} : in'[s] = in[s]
    BY <1>1, <2>1
  <2>5. PhaseOf(r)'
    <3>1. CASE thread_pool_locked
      <4>1. AtThird(r, i)'
        BY <1>0, <1>1, <1>2, <1>8, <2>3, <3>1, Kept DEF AtThird, Third, C!Active
      <4> QED BY <1>1, <4>1 DEF PhaseOf
    <3>2. CASE ~ thread_pool_locked
      <4>1. ~ AtSecond(r, i)
        BY <1>8 DEF AtSecond
      <4>2. AtStart(r, n)
        BY <1>0, <1>1, <1>4, <4>1, Phase
      <4>3. l \in First(calls[n + 1].kind, t)
        BY <1>2, <1>5, <1>8, <3>2 DEF First
      <4> QED BY <1>0, <1>1, <1>5, <2>2, <4>2, <4>3, StaysIn
    <3> QED BY <3>1, <3>2
  <2>6. (given[r] = GivenBy(r, NPosted(r)))' /\ Len(given'[r]) <= Len(calls)
    BY <1>1, <2>2, GivesNothing DEF BeforeEnter
  <2>7. BufOf(r)'
    BY <1>0, <1>1, <1>2, <1>8, <2>2, <2>3, Kept DEF RankInv, BufOf
  <2>8. InOf(r)'
    BY <1>0, <1>1, <1>2, <2>3, <2>4, Kept DEF InOf
  <2>9. OutOf(r)'
    BY <1>1, <2>2, <2>3, Kept DEF RankInv, OutOf
  <2> HIDE DEF l
  <2> QED BY <1>1, <2>2, <2>4, <2>5, <2>6, <2>7, <2>8, <2>9, ThreadStep DEF C!TypeOK
<1>9. CASE calls[i].kind # "bcast"
  <2>1. ~ Exception(i) => C!Reduce(k.kind, x) = C!Expected(i)
    <3>1. \A s \in C!Ranks : given[s][i].x = C!Brought(s, i)
      <4>1. \A s \in C!Ranks : Len(given[s]) >= i
        BY <1>6, <1>7, <1>9
      <4>2. \A s \in C!Ranks : given[s][i] = Given(s, i)
        BY <1>2, <4>1, Received
      <4>3. \A s \in C!Ranks : Given(s, i).x = C!Brought(s, i)
        BY <1>9 DEF Given
      <4> QED BY <4>2, <4>3
    <3>2. x = [s \in C!Ranks |-> C!Brought(s, i)]
      BY <3>1
    <3> HIDE DEF x, k
    <3> QED BY <1>6, <1>9, <3>2 DEF C!Expected
  <2>2. CASE thread_pool_locked
    <3>1. result' = [result EXCEPT ![r][t] = C!Reduce(k.kind, x)] /\ C!Goto(r, t, "leave") /\ buf' = buf
          /\ in' = in /\ C!Active = {t}
      BY <1>2, <1>6, <1>7, <1>9, <2>2 DEF C!Active
    <3>2. pc'[r][t] = "leave"
      BY <1>1, <3>1, Goes
    <3>3. /\ DOMAIN result' = C!Ranks /\ DOMAIN result'[r] = C!Active
          /\ ~ Exception(i) => result'[r][t] = C!Expected(i)
          /\ \A s \in C!Ranks \ {r} : result'[s] = result[s]
      BY <1>1, <2>1, <3>1
    <3>4. PhaseOf(r)'
      <4>1. AtStart(r, i)'
        BY <1>0, <1>1, <3>1, <3>2, Kept DEF AtStart
      <4> QED BY <1>1, <4>1 DEF PhaseOf
    <3>5. (given[r] = GivenBy(r, NPosted(r)))' /\ Len(given'[r]) <= Len(calls)
      BY <1>1, <3>1, GivesNothing DEF BeforeEnter
    <3>6. BufOf(r)' /\ InOf(r)'
      BY <1>0, <1>1, <1>2, <3>1, <3>2, Kept DEF BufOf, InOf
    <3>7. OutOf(r)'
      BY <1>0, <1>1, <3>1, <3>2, <3>3, Kept DEF OutOf
    <3> QED BY <1>1, <3>1, <3>3, <3>4, <3>5, <3>6, <3>7, ThreadStep DEF C!TypeOK
  <2>3. CASE ~ thread_pool_locked
    <3>1. buf' = [buf EXCEPT ![r][0] = C!Reduce(k.kind, x)] /\ C!Goto(r, t, "atom") /\ result' = result
          /\ in' = in /\ ~ Exception(i)
      BY <1>6, <1>7, <1>9, <2>3 DEF Exception
    <3>2. pc'[r][t] = "atom" /\ \A u \in C!Active \ {t} : pc'[r][u] = pc[r][u]
      BY <1>1, <3>1, Goes
    <3>3. /\ DOMAIN buf' = C!Ranks /\ DOMAIN buf'[r] = C!Threads /\ buf'[r][0] = C!Expected(i)
          /\ \A u \in C!Active \ {0} : buf'[r][u] = buf[r][u]
          /\ \A s \in C!Ranks \ {r} : buf'[s] = buf[s]
      BY <1>1, <2>1, <3>1
    <3>4. AtSecond(r, i)
      BY <1>0, <1>1, <1>9, <2>3, Phase
    <3>5. PhaseOf(r)'
      BY <1>0, <1>1, <1>2, <3>1, <3>4, StaysIn DEF Second
    <3>6. (given[r] = GivenBy(r, NPosted(r)))' /\ Len(given'[r]) <= Len(calls)
      BY <1>1, <3>1, GivesNothing DEF BeforeEnter
    <3>7. BufOf(r)'
      BY <1>0, <1>1, <1>2, <3>2, <3>3, Kept DEF RankInv, BufOf
    <3>8. InOf(r)'
      BY <1>0, <1>1, <1>2, <1>9, <3>2, Kept DEF InOf
    <3>9. OutOf(r)'
      BY <1>1, <3>1, <3>2, Kept DEF RankInv, OutOf
    <3> QED BY <1>1, <3>1, <3>3, <3>5, <3>6, <3>7, <3>8, <3>9, ThreadStep DEF C!TypeOK
  <2> QED BY <2>2, <2>3
<1> QED BY <1>8, <1>9

\* All threads of a rank pass a barrier: they have all stored, and none is
\* copying any more before all have copied.
LEMMA BarrierStep ==
  ASSUME CallsInv, NEW r \in C!Ranks, C!Barrier(r)
  PROVE  CallsInv'
<1>1. /\ C!TypeOK /\ RankInv(r) /\ UNCHANGED C!env /\ UNCHANGED <<C!env, calls>>
      /\ calls' = calls
      /\ call' = call /\ buf' = buf /\ in' = in /\ result' = result /\ given' = given
      /\ \A t \in C!Active : pc[r][t] \in C!Waiting
      /\ pc' = [pc EXCEPT ![r] = [t \in C!Active |-> C!Past(pc[r][t], t)]]
      /\ 0 \in C!Active /\ Len(calls) \in Nat
  BY Basics DEF CallsInv, C!Barrier, C!TypeOK
<1>2. /\ \A t \in C!Active : pc'[r][t] = C!Past(pc[r][t], t)
      /\ \A s \in C!Ranks \ {r} : pc'[s] = pc[s]
      /\ pc' \in [C!Ranks -> [C!Active -> C!PCs]]
  <2>1. \A t \in C!Active : C!Past(pc[r][t], t) \in C!PCs
    BY <1>1 DEF C!Past, C!PCs, C!Waiting
  <2> QED BY <1>1, <2>1 DEF C!TypeOK
<1>3. C!TypeOK'
  BY <1>1, <1>2, Kept DEF C!TypeOK
<1>4. PICK n \in 0 .. MaxCalls : AtStart(r, n) \/ AtSecond(r, n) \/ AtThird(r, n)
  BY <1>1 DEF RankInv, PhaseOf
<1>5. n \in Nat /\ MaxCalls \in Nat
  BY <1>1, Basics
<1>6. CASE AtStart(r, n)
  <2>1. \A t \in C!Active : call[r][t] = n + 1 /\ pc[r][t] \in First(calls[n + 1].kind, t)
    BY <1>1, <1>6 DEF AtStart, C!Waiting
  <2>2. n + 1 \in 0 .. MaxCalls /\ n + 1 \in 1 .. Len(calls)
    BY <1>1, <1>5, <2>1, Basics DEF RankInv
  <2>3. ~ thread_pool_locked \/ calls[n + 1].kind = "bcast"
    BY <1>1, <2>1 DEF First, C!Waiting
  <2>4. CASE calls[n + 1].kind # "bcast"
    <3>1. \A t \in C!Active : pc[r][t] = "stored" /\ pc'[r][t] = (IF t = 0 THEN "gather" ELSE "atom")
      BY <1>1, <1>2, <2>1, <2>3, <2>4 DEF First, C!Past, C!Waiting
    <3>2. AtSecond(r, n + 1)'
      BY <1>1, <1>5, <2>1, <2>3, <2>4, <3>1, Kept DEF AtSecond, Second
    <3>3. PhaseOf(r)'
      BY <2>2, <3>2 DEF PhaseOf
    <3>4. (given[r] = GivenBy(r, NPosted(r)))'
      BY <1>1, <3>1, Kept DEF RankInv, NPosted, BeforeEnter
    <3>5. BufOf(r)' /\ InOf(r)' /\ OutOf(r)'
      BY <1>1, <3>1, Kept DEF RankInv, BufOf, InOf, OutOf
    <3>6. RankInv(r)'
      BY <1>1, <3>3, <3>4, <3>5, Kept DEF RankInv
    <3> QED BY <1>1, <1>2, <1>3, <3>6, OneRank
  <2>5. CASE calls[n + 1].kind = "bcast"
    <3>1. \A t \in C!Active : pc[r][t] = "atom" /\ pc'[r][t] = "copy"
      BY <1>1, <1>2, <2>1, <2>5 DEF First, C!Past, C!Waiting
    <3>2. AtThird(r, n + 1)'
      BY <1>1, <1>5, <2>1, <2>5, <3>1, Kept DEF AtThird, Third
    <3>3. PhaseOf(r)'
      BY <2>2, <3>2 DEF PhaseOf
    <3>4. (given[r] = GivenBy(r, NPosted(r)))'
      BY <1>1, <3>1, Kept DEF RankInv, NPosted, BeforeEnter
    <3>5. BufOf(r)' /\ InOf(r)' /\ OutOf(r)'
      BY <1>1, <3>1, Kept DEF RankInv, BufOf, InOf, OutOf
    <3>6. RankInv(r)'
      BY <1>1, <3>3, <3>4, <3>5, Kept DEF RankInv
    <3> QED BY <1>1, <1>2, <1>3, <3>6, OneRank
  <2> QED BY <2>4, <2>5
<1>7. CASE AtSecond(r, n)
  <2>1. \A t \in C!Active : call[r][t] = n /\ pc[r][t] = "atom" /\ pc'[r][t] = "copy"
    BY <1>1, <1>2, <1>7 DEF AtSecond, Second, C!Past, C!Waiting
  <2>2. AtThird(r, n)'
    BY <1>1, <1>7, <2>1, Kept DEF AtSecond, AtThird, Third
  <2>3. PhaseOf(r)'
    BY <2>2 DEF PhaseOf
  <2>4. (given[r] = GivenBy(r, NPosted(r)))'
    BY <1>1, <2>1, Kept DEF RankInv, NPosted, BeforeEnter
  <2>5. BufOf(r)' /\ InOf(r)' /\ OutOf(r)'
    BY <1>1, <2>1, Kept DEF RankInv, BufOf, InOf, OutOf
  <2>6. RankInv(r)'
    BY <1>1, <2>3, <2>4, <2>5, Kept DEF RankInv
  <2> QED BY <1>1, <1>2, <1>3, <2>6, OneRank
<1>8. CASE AtThird(r, n)
  <2>1. \A t \in C!Active : call[r][t] = n /\ pc[r][t] = "copied" /\ pc'[r][t] = "leave"
    BY <1>1, <1>2, <1>8 DEF AtThird, Third, C!Past, C!Waiting
  <2>2. AtStart(r, n)'
    BY <1>1, <2>1, Kept DEF AtStart
  <2>3. PhaseOf(r)'
    BY <2>2 DEF PhaseOf
  <2>4. (given[r] = GivenBy(r, NPosted(r)))'
    BY <1>1, <2>1, Kept DEF RankInv, NPosted, BeforeEnter
  <2>5. BufOf(r)' /\ InOf(r)' /\ OutOf(r)'
    BY <1>1, <2>1, Kept DEF RankInv, BufOf, InOf, OutOf
  <2>6. RankInv(r)'
    BY <1>1, <2>3, <2>4, <2>5, Kept DEF RankInv
  <2> QED BY <1>1, <1>2, <1>3, <2>6, OneRank
<1> QED BY <1>4, <1>6, <1>7, <1>8

\* No call has been made.
LEMMA InitInv == C!Init => CallsInv
<1> SUFFICES ASSUME C!Init PROVE CallsInv
  OBVIOUS
<1>1. PICK l \in Layouts : nranks_world = l[1] /\ nthreads = l[2]
  BY DEF C!Init
<1>2. /\ l = <<nranks_world, nthreads>> /\ MaxCalls \in Nat
      /\ nranks_world \in Nat \ {0} /\ nthreads \in Nat \ {0}
  BY <1>1, CallsAssumption DEF C!CollectivesAssumption
<1>3. C!TypeOK
  BY <1>1, <1>2 DEF C!Init, C!TypeOK, C!PCs, C!Active, C!Threads, C!Ranks
<1>4. ASSUME NEW r \in C!Ranks PROVE RankInv(r)
  <2>1. /\ 0 \in C!Active /\ \A t \in C!Active : call[r][t] = 0 /\ pc[r][t] = "next"
        /\ Len(calls) = 0 /\ given[r] = <<>>
    BY <1>3, Basics DEF C!Init
  <2>2. PhaseOf(r)
    <3>1. AtStart(r, 0)
      BY <2>1 DEF AtStart
    <3>2. 0 \in 0 .. MaxCalls
      BY <1>2
    <3> QED BY <3>1, <3>2 DEF PhaseOf
  <2>3. given[r] = GivenBy(r, NPosted(r))
    BY <2>1 DEF NPosted, BeforeEnter, GivenBy
  <2>4. BufOf(r) /\ InOf(r) /\ OutOf(r)
    BY <2>1 DEF BufOf, InOf, OutOf
  <2> QED BY <2>1, <2>2, <2>3, <2>4 DEF RankInv
<1> QED BY <1>3, <1>4 DEF CallsInv

\* Every step of the program.
LEMMA NextInv == CallsInv /\ [C!Next]_(C!vars) => CallsInv'
<1> SUFFICES ASSUME CallsInv, [C!Next]_(C!vars) PROVE CallsInv'
  OBVIOUS
<1>1. CASE UNCHANGED C!vars
  <2>1. /\ UNCHANGED <<C!env, calls>> /\ UNCHANGED C!env /\ calls' = calls /\ call' = call /\ pc' = pc
        /\ buf' = buf /\ in' = in /\ result' = result /\ given' = given
    BY <1>1 DEF C!vars
  <2>2. C!TypeOK' /\ Len(calls) \in Nat
    BY <2>1, Kept, Basics DEF CallsInv, C!TypeOK
  <2>3. \A s \in C!Ranks : RankInv(s)'
    BY <2>1, <2>2, Still DEF CallsInv
  <2> QED BY <2>1, <2>2, <2>3, Kept DEF CallsInv
<1>2. ASSUME NEW r \in C!Ranks, C!Barrier(r) PROVE CallsInv'
  BY <1>2, BarrierStep
<1>3. ASSUME NEW r \in C!Ranks, NEW t \in C!Active, C!Advance(r, t) PROVE CallsInv'
  BY <1>3, CallStep, ExitStep, StoreStep, GatherStep, EnterStep, AwaitStep, CopyStep, LeaveStep
  DEF C!Advance
<1> QED BY <1>1, <1>2, <1>3 DEF C!Next, C!Progress

\* What the invariant is for.
LEMMA InvRight == CallsInv => C!TypeOK /\ C!ResultsRight /\ C!NoDanglingRead
<1> SUFFICES ASSUME CallsInv PROVE C!TypeOK /\ C!ResultsRight /\ C!NoDanglingRead
  OBVIOUS
<1>1. C!TypeOK
  BY DEF CallsInv
<1>2. C!ResultsRight
  <2> SUFFICES ASSUME NEW i \in DOMAIN calls, NEW r \in C!Ranks, NEW t \in C!Active,
                      C!Returned(r, t, i), ~ (calls[i].kind = "max" /\ thread_pool_locked)
               PROVE  result[r][t] = C!Expected(i)
    BY DEF C!ResultsRight
  <2>1. i > 0 /\ call[r][t] = i /\ pc[r][t] \in {"leave", "next", "exit"} /\ ~ Exception(i)
    BY <1>1, Basics DEF C!Returned, Exception
  <2> QED BY <2>1 DEF CallsInv, RankInv, OutOf
<1>3. C!NoDanglingRead
  <2> SUFFICES ASSUME NEW r \in C!Ranks, NEW t \in C!Active,
                      pc[r][t] = "copy", C!op(r, t).kind = "bcast"
               PROVE  in[r] # C!Dead
    BY DEF C!NoDanglingRead
  <2>1. PICK i : i = call[r][t]
    OBVIOUS
  <2>2. AtThird(r, i) /\ i \in 1 .. Len(calls) /\ 0 \in C!Active
    BY <1>1, <2>1, Phase, Basics DEF CallsInv, Out
  <2>3. in[r] = C!Expected(i) /\ calls[i].kind = "bcast"
    BY <2>1, <2>2 DEF CallsInv, RankInv, InOf, AtThird, Third, C!op
  <2>4. Value(calls[i].root, 0, i) # C!Dead
    <3>1. i \in 1 .. MaxCalls /\ calls[i].root \in C!Ranks /\ 0 \in C!Threads
      <4>1. MaxCalls \in Nat /\ Len(calls) \in Nat /\ Len(calls) <= MaxCalls
        BY <1>1, Basics DEF C!TypeOK
      <4>2. calls[i].root \in C!Ranks /\ 0 \in C!Threads
        BY <1>1, <2>2, Basics
      <4> QED BY <2>2, <4>1, <4>2
    <3>2. <<nranks_world, nthreads>> \in Layouts
      BY <1>1 DEF C!TypeOK
    <3>3. \A r0 \in 0 .. nranks_world - 1, t0 \in 0 .. nthreads - 1 : Value(r0, t0, i) # C!Dead
      BY <3>1, <3>2, CallsAssumption DEF C!CollectivesAssumption
    <3> QED BY <3>1, <3>3 DEF C!Ranks, C!Threads
  <2> QED BY <2>3, <2>4 DEF C!Expected
<1> QED BY <1>1, <1>2, <1>3

\* Every thread of every rank has from each call what all of them have brought to
\* that very call, and nobody follows the pointer to a variable that is gone.
THEOREM ResultsRightHolds == MCSpec => []ResultsRight
<1> DEFINE Inv == part = "collectives" => CallsInv
<1>1. MCInit => Inv
  BY InitInv DEF MCInit
<1>2. Inv /\ [MCNext]_MCVars => Inv'
  <2> SUFFICES ASSUME Inv, [MCNext]_MCVars, part' = "collectives" PROVE CallsInv'
    OBVIOUS
  <2>1. CASE UNCHANGED MCVars
    <3>1. part = "collectives" /\ UNCHANGED C!vars
      BY <2>1 DEF MCVars, collectives_vars, C!vars, C!env
    <3> QED BY <3>1, NextInv
  <2>2. CASE MCNext
    <3>1. part = "collectives" /\ [C!Next]_(C!vars)
      BY <2>2 DEF MCNext
    <3> QED BY <3>1, NextInv
  <2> QED BY <2>1, <2>2
<1>3. Inv => ResultsRight
  BY InvRight DEF ResultsRight
<1> QED BY <1>1, <1>2, <1>3, PTL DEF MCSpec
=============================================================================
