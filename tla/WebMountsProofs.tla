-------------------------- MODULE WebMountsProofs --------------------------
(***************************************************************************)
(* Proofs about the plugins that mount routes on std.http-server: the      *)
(* types and the leases, and that the routes on the server are, between    *)
(* calls, those std.rest-server and std.rpc have recorded.                 *)
(***************************************************************************)
EXTENDS WebMounts, FiniteSetTheorems, SequenceTheorems, WellFoundedInduction, TLAPS

USE RouteTableAssumption, RestAssumption

-----------------------------------------------------------------------------
(* The invariant: types                                                    *)

State == {"off", "active", "revoking", "dropping", "faulted"}
Life == {"absent", "initialized", "active", "stopping"}
Guards == ({"rest"} \X Job) \cup ({"rpc"} \X Mount) \cup {Nobody, Gone}

Record == [ids : Seq(Nat), stamp : Nat, gen : 0 .. MaxGen]
ToDo == [res : Resource, stamp : Nat]
Adding == [op : {"add", "undo"}, res : Resource, gen : 0 .. MaxGen, of : 0 .. MaxGen, ids : Seq(Nat),
           ans : Nat, more : SUBSET ToDo, stamp : Nat]
Removing == [op : {"remove"}, res : Resource, gen : 0 .. MaxGen, id : Nat, ok : BOOLEAN]
Stopping == [op : {"undo"}, gen : 0 .. MaxGen, of : 0 .. MaxGen, ids : Seq(Nat)]

SrvTyped ==
    /\ srv \in [state : State, gen : 0 .. MaxGen]
    /\ srv.state # "off" => srv.gen >= 1
    /\ seq \in Nat /\ DOMAIN table \subseteq 1 .. seq
    /\ guard \in Guards /\ spoiled \in BOOLEAN

RackTyped ==
    /\ {watchers, telling, revoking} \subseteq Seq(Who)
    /\ leases \in Seq([by : Who, gen : 1 .. MaxGen])
    /\ life \in [Who -> Life] /\ lives \in [Who -> Nat]

RecordsTyped(M) ==
    /\ DOMAIN M \subseteq Resource /\ IsFiniteSet(DOMAIN M)
    /\ \A r \in DOMAIN M : M[r] \in Record
JobsTyped(J) ==
    /\ DOMAIN J = Job
    /\ J["invoke"] \in Adding \cup Removing \cup {Idle}
    /\ J["sink"] \in Adding \cup {Idle}
    /\ J["stop"] \in Stopping \cup {Idle}

RestTyped ==
    /\ rest \in [lease : 0 .. MaxGen, usable : BOOLEAN] /\ stamps \in 0 .. MaxMount
    /\ RecordsTyped(mounts) /\ JobsTyped(jobs)

RpcTyped ==
    /\ rpc \in [lease : 0 .. MaxGen, usable : BOOLEAN, mounted : BOOLEAN, id : Nat, of : 0 .. MaxGen,
             scheduled : BOOLEAN]
    /\ mounting \in [Mount -> [gen : 0 .. MaxGen, ans : Nat]]

Typed == SrvTyped /\ RackTyped /\ RestTyped /\ RpcTyped

-----------------------------------------------------------------------------
(* The invariant: leases and notices                                       *)

In(w, s) == \E i \in 1 .. Len(s) : s[i] = w
Once(s) == \A i, j \in 1 .. Len(s) : s[i] = s[j] => i = j
Lease == [by : Who, gen : 1 .. MaxGen]
Cached == [w \in Who |-> IF w = "rest" THEN rest.lease ELSE rpc.lease]
Watches(state) == state \in {"initialized", "active"}
Leaving(s, gen) == s.state \in {"revoking", "faulted"} /\ gen = s.gen

\* A consumer has one lease at most, the one it has cached (C); it has lost it only when
\* the instance is on its way out, or it is itself.
Fits(lease, C, lf, s) ==
    /\ lf[lease.by] # "absent" /\ lease.gen <= s.gen
    /\ C[lease.by] = lease.gen \/ Leaving(s, lease.gen) \/ lf[lease.by] = "stopping"
LeasesFit(L, C, lf, s) ==
    /\ \A i, k \in 1 .. Len(L) : L[i].by = L[k].by => i = k
    /\ \A i \in 1 .. Len(L) : Fits(L[i], C, lf, s)
    /\ \A w \in Who : C[w] # 0 => \E i \in 1 .. Len(L) : L[i] = [by |-> w, gen |-> C[w]]
LeaseInv == LeasesFit(leases, Cached, life, srv)

\* The consumers that live watch, and only they are told (T).
Heard(W, T, lf) ==
    /\ Once(W) /\ Once(T)
    /\ \A w \in Who : In(w, W) <=> Watches(lf[w])
    /\ \A w \in Who : In(w, T) => In(w, W)
TellInv ==
    /\ Heard(watchers, telling, life)
    /\ revoking # <<>> => srv.state = "revoking"
    /\ srv.state = "off" => table = <<>>

-----------------------------------------------------------------------------
(* The invariant: routes of std.rpc                                        *)

IsRpc(T, id) == id \in DOMAIN T /\ T[id] = RpcRoute
Adder == {"sink", "first"}

\* It takes its route for mounted, by an answer of this generation.
MountedHere == rpc.mounted /\ rpc.of = srv.gen

\* While std.rpc is not being stopped, its route is the one it takes for mounted, or
\* the one of the mount under way.
RpcExact ==
    /\ MountedHere => (\A m \in Adder : ~MountRuns(m)) /\ (\A id : IsRpc(table, id) <=> id = rpc.id)
    /\ ~MountedHere => \A id : IsRpc(table, id) <=>
                         id # 0 /\ \E m \in Adder : MountRuns(m) /\ mounting[m].ans = id

RpcGood ==
    /\ \A m \in Adder : MountRuns(m) /\ mounting[m].ans # 0 => mounting[m].gen = srv.gen /\ rpc.lease = srv.gen
    /\ rpc.lease # srv.gen => ~MountedHere /\ \A id : ~IsRpc(table, id)
    /\ rpc.lease = srv.gen /\ ~MountRuns("stop") => RpcExact

RpcInv ==
    /\ MountRuns("stop") <=> life["rpc"] = "stopping"
    /\ life["rpc"] \in {"absent", "initialized"} => \A m \in Mount : ~MountRuns(m)
    /\ \A m \in Adder : MountRuns(m) => mounting[m].gen <= srv.gen
    /\ ~(MountRuns("sink") /\ MountRuns("first"))
    /\ rpc.mounted => rpc.of <= srv.gen
    /\ Available /\ In("rpc", telling) => \A m \in Mount : ~MountRuns(m)
    /\ Available /\ ~spoiled => RpcGood

-----------------------------------------------------------------------------
(* The invariant: routes of std.rest-server                                *)
(* M: the records, J: the jobs, T: the table, n: the ids given so far, by  *)
(* the generation g                                                        *)

Worker == {"invoke", "sink"}
Putting(job) == job.op \in {"add", "undo"}
Taking(job) == job.op = "remove"

\* The ids a record, or a sequence of additions, answers for.
Has(rec, id) == In(id, rec.ids)
JobHas(job, id) == Putting(job) /\ (Has(job, id) \/ (job.op = "add" /\ job.ans = id /\ id # 0))

\* An id given already, and not to std.rpc.
Past(T, n, id) == id \in 1 .. n /\ ~IsRpc(T, id)
On(T, id, route) == id \in DOMAIN T /\ T[id] = route

RecordExact(T, r, rec) ==
    \A i \in 1 .. Len(rec.ids) : On(T, rec.ids[i], <<r, Size[r] - Len(rec.ids) + i>>)
AddExact(T, job) ==
    /\ Len(job.ids) < Size[job.res]
    /\ \A i \in 1 .. Len(job.ids) : On(T, job.ids[i], <<job.res, i>>)
    /\ job.ans # 0 => On(T, job.ans, <<job.res, Len(job.ids) + 1>>)
UndoExact(T, job) ==
    /\ Once(job.ids)
    /\ \A i \in 1 .. Len(job.ids) : job.ids[i] \in DOMAIN T /\ T[job.ids[i]][1] = job.res
JobExact(T, job) ==
    /\ job.op = "add" => AddExact(T, job)
    /\ job.op = "undo" => UndoExact(T, job)

\* While std.rest-server is not being stopped, the routes of resources are those that
\* the records and the jobs have, and no others.
Exact(M, J, T, g) ==
    /\ \A r \in DOMAIN M : M[r].gen = g => RecordExact(T, r, M[r])
    /\ \A j \in Worker : JobExact(T, J[j])
    /\ \A id \in DOMAIN T :
          \/ IsRpc(T, id)
          \/ \E r \in DOMAIN M : M[r].gen = g /\ Has(M[r], id)
          \/ \E j \in Worker : JobHas(J[j], id)

\* Ever: nobody has the id of std.rpc's route among its own.
Apart(M, J, T, n, g) ==
    /\ \A r \in DOMAIN M : M[r].gen = g => \A id : Has(M[r], id) => Past(T, n, id)
    /\ \A j \in Worker : \A id : JobHas(J[j], id) => Past(T, n, id)
    /\ J["stop"].op = "undo" /\ J["stop"].of = g => \A id : Has(J["stop"], id) => Past(T, n, id)

\* The record that remountAll() is at and those that are left are other ones, and
\* have the ids of another generation.
Old(M, g, m) == m.res \in DOMAIN M /\ M[m.res].stamp = m.stamp /\ M[m.res].gen # g
SinkGood(M, job, g) ==
    Putting(job) => /\ job.gen = g /\ Old(M, g, job)
                    /\ \A m \in job.more : Old(M, g, m) /\ m.res # job.res

Good(M, J, T, n, g) ==
    /\ \A j \in Worker : Putting(J[j]) => (J[j].ids # <<>> \/ J[j].ans # 0 => J[j].gen = g)
    /\ Taking(J["invoke"]) => M[J["invoke"].res].gen = g
    /\ SinkGood(M, J["sink"], g)
    /\ Apart(M, J, T, n, g)
    /\ J["stop"].op = "idle" => Exact(M, J, T, g)

\* A resource that is being mounted has no record, one that is being unmounted has.
Paired(M, J) ==
    /\ Putting(J["invoke"]) => J["invoke"].res \notin DOMAIN M /\ J["invoke"].more = {}
    /\ Taking(J["invoke"]) => J["invoke"].res \in DOMAIN M
    /\ \A j \in Worker : J[j].op = "undo" => J[j].ans = 0

Being(r) == Taking(jobs["invoke"]) /\ jobs["invoke"].res = r

\* Whether or not something was spoiled.
RestSteady ==
    /\ Running("stop") <=> life["rest"] = "stopping"
    /\ \A id \in DOMAIN table : IsRpc(table, id) \/ table[id][1] \in Resource
    /\ \A r \in DOMAIN mounts : mounts[r].gen <= srv.gen
    /\ ~spoiled => \A r \in DOMAIN mounts : Being(r) \/ Len(mounts[r].ids) = Size[r]
    /\ Taking(jobs["invoke"]) => jobs["invoke"].ok \/ spoiled
    /\ \A j \in Worker : Putting(jobs[j]) => jobs[j].of = jobs[j].gen /\ jobs[j].gen <= srv.gen
    /\ Available /\ In("rest", telling) => \A j \in Job : ~Running(j)
    /\ Available /\ life["rest"] \in {"initialized", "active"} /\ ~In("rest", telling) => rest.usable /\ rest.lease # 0

RestGood ==
    /\ In("rest", telling) => \A r \in DOMAIN mounts : mounts[r].gen # srv.gen
    /\ Good(mounts, jobs, table, seq, srv.gen)

RestInv == Paired(mounts, jobs) /\ RestSteady /\ (Available /\ ~spoiled => RestGood)

MountsInv == Typed /\ LeaseInv /\ TellInv /\ RpcInv /\ RestInv
-----------------------------------------------------------------------------
(* Sequences: induction, what is kept of one, what is joined               *)

LEMMA LessIsWellFounded == IsWellFoundedOn(OpToRel(<, Nat), Nat)
  BY NatLessThanWellFounded

\* Induction over a set of numbers.
LEMMA Induction ==
    ASSUME NEW T, 0 \in T, \A n \in Nat : n \in T => n + 1 \in T
    PROVE  \A n \in Nat : n \in T
  <1> SUFFICES ASSUME Nat \ T # {}
               PROVE  FALSE
    OBVIOUS
  <1>1. \E n \in Nat \ T : \A k \in Nat \ T : ~(k < n)
    <2>1. \E n \in Nat \ T : \A k \in Nat \ T : ~(<<k, n>> \in OpToRel(<, Nat))
      BY LessIsWellFounded, WFMin
    <2> QED
      BY <2>1 DEF OpToRel
  <1>2. PICK n \in Nat \ T : \A k \in Nat \ T : ~(k < n)
    BY <1>1
  <1>3. n # 0 /\ n - 1 \in Nat /\ n - 1 < n
    BY <1>2
  <1>4. n - 1 \in T
    BY <1>2, <1>3
  <1> QED
    BY <1>2, <1>3, <1>4

Below(K, i) == {k \in K : k < i}

LEMMA BelowGrows ==
    ASSUME NEW K, K \subseteq Nat, NEW i \in K, NEW k \in K, i < k
    PROVE  Below(K, i) \subseteq Below(K, k) /\ i \in Below(K, k) /\ i \notin Below(K, i)
  <1>1. \A x \in K : x < i => x < k
    OBVIOUS
  <1>2. ~(i < i)
    OBVIOUS
  <1> QED
    BY <1>1, <1>2 DEF Below

KeptFacts(s, K, t) ==
    /\ \A n \in 1 .. Len(t) : \E i \in K : t[n] = s[i]
    /\ \A i \in K : \E n \in 1 .. Len(t) : t[n] = s[i]
    /\ \A m, n \in 1 .. Len(t) : m # n => \E i, k \in K : i # k /\ t[m] = s[i] /\ t[n] = s[k]

LEMMA KeptIs ==
    ASSUME NEW S, NEW s \in Seq(S), NEW K, K \subseteq 1 .. Len(s)
    PROVE  Kept(s, K) \in Seq(S) /\ KeptFacts(s, K, Kept(s, K))
  <1> DEFINE c == Cardinality(K)
             rank == [i \in K |-> Cardinality(Below(K, i)) + 1]
             ith(n) == CHOOSE i \in K : Cardinality(Below(K, i)) = n - 1
  <1>1. Len(s) \in Nat /\ IsFiniteSet(1 .. Len(s))
    BY FS_Interval
  <1>2. IsFiniteSet(K) /\ c \in Nat
    BY <1>1, FS_Subset, FS_CardinalityType
  <1>3. \A i \in K : i \in Nat
    OBVIOUS
  <1>4. ASSUME NEW i \in K
        PROVE  IsFiniteSet(Below(K, i)) /\ Cardinality(Below(K, i)) \in 0 .. c - 1
    <2>1. Below(K, i) \subseteq K /\ i \notin Below(K, i)
      BY <1>3 DEF Below
    <2>2. IsFiniteSet(Below(K, i)) /\ Cardinality(Below(K, i)) <= c /\ Cardinality(Below(K, i)) # c
      BY <1>2, <2>1, FS_Subset
    <2>3. Cardinality(Below(K, i)) \in Nat
      BY <2>2, FS_CardinalityType
    <2> QED
      BY <1>2, <2>2, <2>3
  <1>5. ASSUME NEW i \in K, NEW k \in K, i < k
        PROVE  Cardinality(Below(K, i)) < Cardinality(Below(K, k))
    <2>1. Below(K, i) \subseteq Below(K, k) /\ i \in Below(K, k) /\ i \notin Below(K, i)
      BY <1>3, <1>5, BelowGrows
    <2>2. /\ Cardinality(Below(K, i)) <= Cardinality(Below(K, k))
          /\ Cardinality(Below(K, i)) # Cardinality(Below(K, k))
      BY <1>4, <2>1, FS_Subset
    <2> QED
      BY <1>4, <2>2
  <1>6. ASSUME NEW i \in K, NEW k \in K, rank[i] = rank[k]
        PROVE  i = k
    <2>1. Cardinality(Below(K, i)) = Cardinality(Below(K, k))
      BY <1>4, <1>6
    <2> QED
      BY <1>3, <1>4, <1>5, <2>1
  <1>7. rank \in Injection(K, 1 .. c)
    BY <1>2, <1>4, <1>6 DEF Injection, IsInjective
  <1>8. IsFiniteSet(1 .. c) /\ Cardinality(1 .. c) = c
    BY <1>2, FS_Interval
  <1>9. rank \in Surjection(K, 1 .. c)
    BY <1>7, <1>8, <1>2, FS_Injection
  <1>10. \A n \in 1 .. c : \E i \in K : rank[i] = n
    BY <1>9 DEF Surjection
  <1>11. ASSUME NEW n \in 1 .. c
         PROVE  ith(n) \in K /\ rank[ith(n)] = n
    <2>1. PICK i \in K : rank[i] = n
      BY <1>10
    <2>2. Cardinality(Below(K, i)) = n - 1
      BY <1>4, <2>1
    <2>3. ith(n) \in K /\ Cardinality(Below(K, ith(n))) = n - 1
      BY <2>2
    <2> QED
      BY <2>3
  <1>12. ASSUME NEW i \in K
         PROVE  rank[i] \in 1 .. c /\ ith(rank[i]) = i
    <2>1. rank[i] \in 1 .. c
      BY <1>2, <1>4
    <2> QED
      BY <1>6, <1>11, <2>1
  <1>13. PICK t : t = Kept(s, K)
    OBVIOUS
  <1>14. t = [n \in 1 .. c |-> s[ith(n)]]
    BY <1>13 DEF Kept, Below
  <1> HIDE DEF c, rank, ith
  <1>15. t \in Seq(S) /\ Len(t) = c /\ \A n \in 1 .. c : t[n] = s[ith(n)]
    <2>1. \A i \in K : s[i] \in S
      OBVIOUS
    <2>2. \A n \in 1 .. c : s[ith(n)] \in S
      BY <1>11, <2>1
    <2> QED
      BY <1>2, <1>14, <2>2
  <1>16. \A m, n \in 1 .. c : m # n => ith(m) # ith(n)
    BY <1>11
  <1>17. \A i \in K : \E n \in 1 .. c : t[n] = s[i]
    BY <1>12, <1>15
  <1>18. \A n \in 1 .. c : \E i \in K : t[n] = s[i]
    BY <1>11, <1>15
  <1>19. ASSUME NEW m \in 1 .. c, NEW n \in 1 .. c, m # n
         PROVE  \E i, k \in K : i # k /\ t[m] = s[i] /\ t[n] = s[k]
    <2>1. ith(m) \in K /\ ith(n) \in K /\ ith(m) # ith(n)
      BY <1>11, <1>16, <1>19
    <2>2. t[m] = s[ith(m)] /\ t[n] = s[ith(n)]
      BY <1>15
    <2> QED
      BY <2>1, <2>2
  <1>20. KeptFacts(s, K, t)
    BY <1>15, <1>17, <1>18, <1>19 DEF KeptFacts
  <1> QED
    BY <1>13, <1>15, <1>20

\* What FlattenSeq joins consists of the members of its parts.
LEMMA FlattenIs ==
    ASSUME NEW S, NEW n \in Nat, NEW ss, ss = [i \in 1 .. n |-> ss[i]],
           \A i \in 1 .. n : ss[i] \in Seq(S)
    PROVE  FlattenSeq(ss) \in Seq(S)
  <1> DEFINE Joins(g, k) == g = [i \in 1 .. k |-> IF i = 1 THEN ss[i] ELSE g[i - 1] \o ss[i]]
             Joined == {k \in Nat : \E g : Joins(g, k)}
  <1>1. Len(ss) = n
    OBVIOUS
  <1>2. CASE n = 0
    <2>1. FlattenSeq(ss) = ss
      BY <1>1, <1>2 DEF FlattenSeq
    <2>2. ss \in [1 .. n -> S]
      BY <1>2
    <2> QED
      BY <2>1, <2>2
  <1>3. CASE n # 0
    <2>1. 0 \in Joined
      <3>1. Joins(<<>>, 0)
        OBVIOUS
      <3> QED
        BY <3>1
    <2>2. ASSUME NEW k \in Nat, k \in Joined
          PROVE  k + 1 \in Joined
      <3>1. PICK g : Joins(g, k)
        BY <2>2
      <3>2. PICK last : last = (IF k = 0 THEN ss[1] ELSE g[k] \o ss[k + 1])
        OBVIOUS
      <3>3. PICK h : h = [i \in 1 .. k + 1 |-> IF i = k + 1 THEN last ELSE g[i]]
        OBVIOUS
      <3>4. ASSUME NEW i \in 1 .. k + 1
            PROVE  h[i] = IF i = 1 THEN ss[i] ELSE h[i - 1] \o ss[i]
        <4>1. CASE i = k + 1
          <5>1. h[i] = last
            BY <3>3, <4>1
          <5>2. i # 1 => i - 1 \in 1 .. k /\ i - 1 # k + 1 /\ i - 1 \in 1 .. k + 1
            BY <4>1
          <5>3. i # 1 => h[i - 1] = g[i - 1]
            BY <3>3, <5>2
          <5>4. i - 1 = k /\ (i = 1 <=> k = 0)
            BY <4>1
          <5>5. i # 1 => h[i - 1] = g[k]
            BY <5>3, <5>4
          <5>6. last = IF i = 1 THEN ss[i] ELSE g[k] \o ss[i]
            BY <3>2, <4>1, <5>4
          <5> QED
            BY <5>1, <5>5, <5>6
        <4>2. CASE i # k + 1
          <5>1. i \in 1 .. k /\ (i # 1 => i - 1 \in 1 .. k + 1 /\ i - 1 # k + 1)
            BY <4>2
          <5>2. h[i] = g[i] /\ (i # 1 => h[i - 1] = g[i - 1])
            BY <3>3, <4>2, <5>1
          <5>3. g[i] = IF i = 1 THEN ss[i] ELSE g[i - 1] \o ss[i]
            BY <3>1, <5>1
          <5> QED
            BY <5>2, <5>3
        <4> QED
          BY <4>1, <4>2
      <3>5. Joins(h, k + 1)
        BY <3>3, <3>4
      <3> HIDE DEF Joins
      <3> QED
        BY <3>5
    <2>3. n \in Joined
      BY <2>1, <2>2, Induction
    <2>4. PICK f : f = CHOOSE g : Joins(g, n)
      OBVIOUS
    <2>5. Joins(f, n)
      BY <2>3, <2>4
    <2>6. FlattenSeq(ss) = f[n]
      BY <1>1, <1>3, <2>4 DEF FlattenSeq
    <2> DEFINE Fine == {k \in Nat : k \in 1 .. n => f[k] \in Seq(S)}
    <2>7. 0 \in Fine
      OBVIOUS
    <2>8. ASSUME NEW k \in Nat, k \in Fine
          PROVE  k + 1 \in Fine
      <3> SUFFICES ASSUME k + 1 \in 1 .. n
                   PROVE  f[k + 1] \in Seq(S)
        OBVIOUS
      <3>1. f[k + 1] = IF k + 1 = 1 THEN ss[k + 1] ELSE f[k] \o ss[k + 1]
        <4>1. \A i \in 1 .. n : f[i] = IF i = 1 THEN ss[i] ELSE f[i - 1] \o ss[i]
          BY <2>5
        <4>2. PICK x : x = k + 1 /\ x \in 1 .. n /\ x - 1 = k
          OBVIOUS
        <4>3. f[x] = IF x = 1 THEN ss[x] ELSE f[x - 1] \o ss[x]
          BY <4>1, <4>2
        <4> QED
          BY <4>2, <4>3
      <3>2. CASE k = 0
        BY <3>1, <3>2
      <3>3. CASE k # 0
        <4>1. f[k] \in Seq(S) /\ ss[k + 1] \in Seq(S)
          BY <2>8, <3>3
        <4> QED
          BY <3>1, <3>3, <4>1
      <3> QED
        BY <3>2, <3>3
    <2>9. n \in Fine
      BY <2>7, <2>8, Induction
    <2> QED
      BY <1>3, <2>6, <2>9
  <1> QED
    BY <1>2, <1>3

-----------------------------------------------------------------------------
(* What the parts of the invariant say when the table, a record or a job   *)
(* changes                                                                 *)

Shape(M, J, T, n) == RecordsTyped(M) /\ JobsTyped(J) /\ Paired(M, J) /\ n \in Nat /\ DOMAIN T \subseteq 1 .. n

\* Every route of r is kept.
Keeps(T, U, r) == \A id \in DOMAIN T : T[id][1] = r => id \in DOMAIN U /\ U[id] = T[id]

\* The job j becomes another one.
Sets(J, K, j, job) == K[j] = job /\ \A k \in Job \ {j} : K[k] = J[k]

LEMMA RecordExactKept ==
    ASSUME NEW T, NEW U, NEW r, NEW rec, Keeps(T, U, r), RecordExact(T, r, rec)
    PROVE  RecordExact(U, r, rec)
  <1>1. ASSUME NEW id, NEW i, On(T, id, <<r, i>>)
        PROVE  On(U, id, <<r, i>>)
    BY <1>1 DEF Keeps, On
  <1> QED
    BY <1>1 DEF RecordExact

LEMMA JobExactKept ==
    ASSUME NEW T, NEW U, NEW job, Keeps(T, U, job.res), JobExact(T, job)
    PROVE  JobExact(U, job)
  <1>1. ASSUME AddExact(T, job)
        PROVE  AddExact(U, job)
    BY <1>1 DEF Keeps, AddExact, On
  <1>2. ASSUME UndoExact(T, job)
        PROVE  UndoExact(U, job)
    BY <1>2 DEF Keeps, UndoExact
  <1> QED
    BY <1>1, <1>2 DEF JobExact

LEMMA JobTypes ==
    ASSUME NEW J, JobsTyped(J)
    PROVE  /\ \A j \in Worker : Putting(J[j]) => J[j] \in Adding
           /\ Taking(J["invoke"]) => J["invoke"] \in Removing
           /\ ~Taking(J["sink"])
           /\ \A j \in Worker : J[j].op = "idle" => J[j] = Idle
           /\ J["stop"].op # "idle" => J["stop"] \in Stopping
           /\ J["stop"].op \in {"undo", "idle"}
  <1>1. \A job \in Adding : job.op \in {"add", "undo"}
    BY DEF Adding
  <1>2. \A job \in Removing : job.op = "remove"
    BY DEF Removing
  <1>3. \A job \in Stopping : job.op = "undo"
    BY DEF Stopping
  <1>4. Idle.op = "idle"
    BY DEF Idle
  <1> QED
    BY <1>1, <1>2, <1>3, <1>4 DEF JobsTyped, Worker, Putting, Taking

\* The resources of the records in use and of the jobs are different ones.
LEMMA OwnersDiffer ==
    ASSUME NEW M, NEW J, NEW T, NEW n, NEW g, Shape(M, J, T, n), Good(M, J, T, n, g)
    PROVE  /\ \A j \in Worker : Putting(J[j]) => \A r \in DOMAIN M : M[r].gen = g => J[j].res # r
           /\ \A j, k \in Worker : Putting(J[j]) /\ Putting(J[k]) /\ j # k => J[j].res # J[k].res
  BY DEF Shape, Paired, Good, SinkGood, Old, Worker

\* The table grows, or is changed by std.rpc.
LEMMA TableMoves ==
    ASSUME NEW M, NEW J, NEW T, NEW n, NEW g, NEW U, NEW m \in Nat,
           Shape(M, J, T, n), Good(M, J, T, n, g), n <= m,
           \A id : IsRpc(U, id) => IsRpc(T, id) \/ id > n,
           J["stop"].op = "idle" =>
              /\ \A r \in Resource : Keeps(T, U, r)
              /\ \A id \in DOMAIN U : IsRpc(U, id) \/ (id \in DOMAIN T /\ ~IsRpc(T, id))
    PROVE  Good(M, J, U, m, g)
  <1>1. n \in Nat
    BY DEF Shape
  <1>2. ASSUME NEW id, Past(T, n, id)
        PROVE  Past(U, m, id)
    BY <1>1, <1>2 DEF Past
  <1>3. Apart(M, J, U, m, g)
    BY <1>2 DEF Good, Apart
  <1>4. ASSUME J["stop"].op = "idle"
        PROVE  Exact(M, J, U, g)
    <2>1. Exact(M, J, T, g)
      BY <1>4 DEF Good
    <2>2. ASSUME NEW r \in DOMAIN M, M[r].gen = g
          PROVE  RecordExact(U, r, M[r])
      BY <1>4, <2>1, <2>2, RecordExactKept DEF Exact, Shape, RecordsTyped
    <2>3. ASSUME NEW j \in Worker
          PROVE  JobExact(U, J[j])
      <3>1. CASE Putting(J[j])
        <4>1. J[j].res \in Resource
          BY <3>1, JobTypes DEF Shape, Adding
        <4> QED
          BY <1>4, <2>1, <4>1, JobExactKept DEF Exact
      <3>2. CASE ~Putting(J[j])
        BY <3>2 DEF JobExact, Putting
      <3> QED
        BY <3>1, <3>2
    <2>4. ASSUME NEW id \in DOMAIN U, ~IsRpc(U, id)
          PROVE  \/ \E r \in DOMAIN M : M[r].gen = g /\ Has(M[r], id)
                 \/ \E j \in Worker : JobHas(J[j], id)
      BY <1>4, <2>1, <2>4 DEF Exact
    <2> QED
      BY <2>2, <2>3, <2>4 DEF Exact
  <1> QED
    BY <1>3, <1>4 DEF Good

\* A job that has nothing begins or ends, or an addition turns into its undoing.
LEMMA JobTurns ==
    ASSUME NEW M, NEW J, NEW T, NEW n, NEW g, NEW j \in Worker, NEW K,
           Shape(M, J, T, n), Good(M, J, T, n, g), Sets(J, K, j, K[j]), ~Taking(K[j]),
           Putting(J[j]) => J[j].ans = 0,
           Putting(K[j]) => K[j].ans = 0 /\ (K[j].op = "add" => K[j].ids = <<>> /\ K[j].res \in Resource),
           \/ (Putting(J[j]) => J[j].ids = <<>>) /\ (Putting(K[j]) => K[j].ids = <<>>)
           \/ J[j].op = "add" /\ K[j] = [J[j] EXCEPT !.op = "undo"],
           j = "sink" => SinkGood(M, K[j], g)
    PROVE  Good(M, K, T, n, g)
  <1> USE DEF Sets
  <1>1. "stop" # j /\ K["stop"] = J["stop"] /\ Worker \subseteq Job /\ "stop" \in Job
    BY DEF Worker, Job
  <1>2. \A k \in Worker : k # j => K[k] = J[k]
    BY <1>1
  <1>3. Putting(J[j]) => J[j] \in Adding
    BY JobTypes DEF Shape
  <1>4. J[j].op = "add" /\ K[j] = [J[j] EXCEPT !.op = "undo"]
          => Putting(J[j]) /\ K[j].ids = J[j].ids /\ K[j].res = J[j].res /\ K[j].gen = J[j].gen /\ K[j].op = "undo"
    BY <1>3 DEF Putting, Adding
  <1>5. \A id : JobHas(K[j], id) <=> JobHas(J[j], id)
    <2>1. CASE J[j].op = "add" /\ K[j] = [J[j] EXCEPT !.op = "undo"]
      BY <1>4, <2>1 DEF JobHas, Has, Putting
    <2>2. CASE (Putting(J[j]) => J[j].ids = <<>>) /\ (Putting(K[j]) => K[j].ids = <<>>)
      <3>1. \A id : ~In(id, <<>>)
        BY DEF In
      <3> QED
        BY <2>2, <3>1 DEF JobHas, Has, Putting
    <2> QED
      BY <2>1, <2>2
  <1>6. \A k \in Worker : Putting(K[k]) => (K[k].ids # <<>> \/ K[k].ans # 0 => K[k].gen = g)
    BY <1>2, <1>4 DEF Good
  <1>7. Taking(K["invoke"]) => M[K["invoke"].res].gen = g
    BY <1>1, <1>2 DEF Good, Worker
  <1>8. SinkGood(M, K["sink"], g)
    BY <1>1, <1>2 DEF Good, Worker
  <1>9. Apart(M, K, T, n, g)
    BY <1>1, <1>2, <1>5 DEF Good, Apart
  <1>10. ASSUME J["stop"].op = "idle"
         PROVE  Exact(M, K, T, g)
    <2>1. Exact(M, J, T, g)
      BY <1>10 DEF Good
    <2>2. JobExact(T, K[j])
      <3>1. CASE J[j].op = "add" /\ K[j] = [J[j] EXCEPT !.op = "undo"]
        <4>1. AddExact(T, J[j])
          BY <2>1, <3>1 DEF Exact, JobExact
        <4>2. \A i \in 1 .. Len(J[j].ids) : J[j].ids[i] \in DOMAIN T /\ T[J[j].ids[i]] = <<J[j].res, i>>
          BY <4>1 DEF AddExact, On
        <4>3. Once(J[j].ids)
          BY <4>2 DEF Once
        <4>4. UndoExact(T, J[j])
          BY <4>2, <4>3 DEF UndoExact
        <4> QED
          BY <1>4, <3>1, <4>4 DEF JobExact, UndoExact
      <3>2. CASE (Putting(J[j]) => J[j].ids = <<>>) /\ (Putting(K[j]) => K[j].ids = <<>>)
        <4>1. K[j].op = "add" => AddExact(T, K[j])
          <5>1. K[j].op = "add" => Size[K[j].res] \in Nat \ {0} /\ Len(K[j].ids) = 0 /\ K[j].ans = 0
            BY <3>2 DEF Putting
          <5> QED
            BY <5>1 DEF AddExact
        <4>2. K[j].op = "undo" => UndoExact(T, K[j])
          BY <3>2 DEF UndoExact, Once, Putting
        <4> QED
          BY <4>1, <4>2 DEF JobExact
      <3> QED
        BY <3>1, <3>2
    <2> QED
      BY <1>2, <1>5, <2>1, <2>2 DEF Exact
  <1> QED
    BY <1>1, <1>6, <1>7, <1>8, <1>9, <1>10 DEF Good

LEMMA OneMore ==
    ASSUME NEW l \in Nat
    PROVE  1 .. l + 1 = 1 .. l \cup {l + 1}
  OBVIOUS

AppendFacts(ids, a, s) ==
    /\ s \in Seq(Nat) /\ s # <<>> /\ Len(s) = Len(ids) + 1 /\ Len(ids) \in Nat
    /\ \A i \in 1 .. Len(s) : (i \in 1 .. Len(ids) /\ s[i] = ids[i]) \/ (i = Len(ids) + 1 /\ s[i] = a)
    /\ \A i \in 1 .. Len(ids) : s[i] = ids[i]
    /\ s[Len(ids) + 1] = a
    /\ \A id : In(id, s) <=> In(id, ids) \/ id = a

LEMMA AppendIs ==
    ASSUME NEW ids \in Seq(Nat), NEW a \in Nat
    PROVE  AppendFacts(ids, a, Append(ids, a))
  <1> DEFINE s == Append(ids, a)
  <1>1. s \in Seq(Nat) /\ s # <<>> /\ Len(s) = Len(ids) + 1 /\ Len(ids) \in Nat
    BY AppendProperties
  <1>2. 1 .. Len(s) = 1 .. Len(ids) \cup {Len(ids) + 1}
    BY <1>1, OneMore
  <1>3. \A i \in 1 .. Len(ids) : s[i] = ids[i]
    OBVIOUS
  <1>4. s[Len(ids) + 1] = a
    OBVIOUS
  <1> HIDE DEF s
  <1>5. \A id : In(id, s) <=> In(id, ids) \/ id = a
    BY <1>2, <1>3, <1>4 DEF In
  <1>6. AppendFacts(ids, a, s)
    BY <1>1, <1>2, <1>3, <1>4, <1>5 DEF AppendFacts
  <1> QED
    BY <1>6 DEF s

TailFacts(ids, t) ==
    /\ t \in Seq(Nat) /\ Len(t) = Len(ids) - 1 /\ Len(ids) \in Nat \ {0} /\ Head(ids) = ids[1]
    /\ 1 \in 1 .. Len(ids) /\ ids[1] \in Nat
    /\ \A i \in 1 .. Len(t) : i + 1 \in 1 .. Len(ids) /\ i + 1 # 1 /\ t[i] = ids[i + 1]
    /\ \A id : In(id, ids) <=> In(id, t) \/ id = ids[1]

LEMMA TailIs ==
    ASSUME NEW ids \in Seq(Nat), ids # <<>>
    PROVE  TailFacts(ids, Tail(ids))
  <1>1. PICK t : t = Tail(ids)
    OBVIOUS
  <1>2. t \in Seq(Nat) /\ Len(t) = Len(ids) - 1 /\ Len(ids) \in Nat \ {0} /\ Head(ids) = ids[1]
    BY <1>1, HeadTailProperties
  <1>3. 1 \in 1 .. Len(ids) /\ ids[1] \in Nat
    BY <1>2
  <1>4. ASSUME NEW i \in 1 .. Len(t)
        PROVE  i + 1 \in 1 .. Len(ids) /\ i + 1 # 1 /\ t[i] = ids[i + 1]
    BY <1>1, <1>2
  <1>5. ASSUME NEW i \in 1 .. Len(ids), i # 1
        PROVE  i - 1 \in 1 .. Len(t) /\ t[i - 1] = ids[i]
    <2>1. i - 1 \in 1 .. Len(t) /\ (i - 1) + 1 = i
      BY <1>2, <1>5
    <2> QED
      BY <1>4, <2>1
  <1>6. \A id : In(id, ids) <=> In(id, t) \/ id = ids[1]
    BY <1>3, <1>4, <1>5 DEF In
  <1>7. TailFacts(ids, t)
    BY <1>2, <1>3, <1>4, <1>6 DEF TailFacts
  <1> QED
    BY <1>1, <1>7

Grows(T, U, id, route) ==
    DOMAIN U = DOMAIN T \cup {id} /\ U[id] = route /\ \A i \in DOMAIN T : U[i] = T[i]
Shrinks(T, U, id) ==
    id \in DOMAIN T /\ DOMAIN U = DOMAIN T \ {id} /\ \A i \in DOMAIN T \ {id} : U[i] = T[i]

\* What remountAll() still has before it is told by these fields of its job.
LEMMA SinkGoodKept ==
    ASSUME NEW M, NEW g, NEW job, NEW next, SinkGood(M, job, g), Putting(job),
           next.gen = job.gen, next.res = job.res, next.stamp = job.stamp, next.more = job.more
    PROVE  SinkGood(M, next, g)
  <1>1. job.gen = g /\ Old(M, g, job) /\ \A m \in job.more : Old(M, g, m) /\ m.res # job.res
    BY DEF SinkGood
  <1>2. Old(M, g, next)
    BY <1>1 DEF Old
  <1> QED
    BY <1>1, <1>2 DEF SinkGood

\* The next route.add of a job: refused, or its route has the new id.
LEMMA JobCalls ==
    ASSUME NEW M, NEW J, NEW T, NEW n, NEW g, NEW j \in Worker, NEW K, NEW U, NEW m, NEW a,
           Shape(M, J, T, n), Good(M, J, T, n, g), J[j].op = "add", J[j].ans = 0,
           Sets(J, K, j, K[j]), K[j] = [J[j] EXCEPT !.ans = a],
           \/ a = 0 /\ U = T /\ m = n
           \/ a = n + 1 /\ m = n + 1 /\ J[j].gen = g /\ Grows(T, U, n + 1, <<J[j].res, Len(J[j].ids) + 1>>)
    PROVE  Good(M, K, U, m, g)
  <1> USE DEF Sets
  <1>1. "stop" # j /\ K["stop"] = J["stop"] /\ Worker \subseteq Job /\ "stop" \in Job /\ n \in Nat /\ m \in Nat /\ n <= m
    BY DEF Worker, Job, Shape
  <1>2. \A k \in Worker : k # j => K[k] = J[k]
    BY <1>1
  <1>3. Putting(J[j]) /\ J[j] \in Adding
    BY JobTypes DEF Shape, Putting
  <1>4. /\ K[j].op = "add" /\ K[j].ans = a /\ K[j].ids = J[j].ids /\ K[j].res = J[j].res
        /\ K[j].gen = J[j].gen /\ K[j].more = J[j].more /\ K[j].stamp = J[j].stamp
    BY <1>3 DEF Adding
  <1>5. \A id : JobHas(K[j], id) <=> JobHas(J[j], id) \/ (id = a /\ id # 0)
    BY <1>4 DEF JobHas, Has, Putting
  <1>6. n + 1 \notin DOMAIN T /\ J[j].res # "rpc" /\ J[j].res \in Resource
    BY <1>1, <1>3 DEF Shape, Adding
  <1>7. \A id \in DOMAIN T : id \in DOMAIN U /\ U[id] = T[id]
    BY <1>6 DEF Grows
  <1>8. \A id \in DOMAIN U : id \in DOMAIN T \/ (id = a /\ id # 0)
    BY <1>1 DEF Grows
  <1>9. \A id : IsRpc(U, id) => IsRpc(T, id)
    <2>1. <<J[j].res, Len(J[j].ids) + 1>> # RpcRoute
      BY <1>6 DEF RpcRoute
    <2> QED
      BY <2>1, <1>7, <1>8 DEF IsRpc, Grows
  <1>10. \A id : Past(T, n, id) => Past(U, m, id)
    BY <1>1, <1>9 DEF Past
  <1>11. a # 0 => Past(U, m, a)
    BY <1>1, <1>6, <1>9 DEF Past, IsRpc
  <1>12. \A k \in Worker : Putting(K[k]) => (K[k].ids # <<>> \/ K[k].ans # 0 => K[k].gen = g)
    BY <1>2, <1>3, <1>4 DEF Good
  <1>13. Taking(K["invoke"]) => M[K["invoke"].res].gen = g
    BY <1>1, <1>2, <1>4 DEF Good, Worker, Taking
  <1>14. SinkGood(M, K["sink"], g)
    <2>1. SinkGood(M, J["sink"], g) /\ "sink" \in Worker
      BY DEF Good, Worker
    <2>2. CASE j = "sink"
      BY <1>3, <1>4, <2>1, <2>2, SinkGoodKept
    <2>3. CASE j # "sink"
      BY <1>2, <2>1, <2>3
    <2> QED
      BY <2>2, <2>3
  <1>15. Apart(M, K, U, m, g)
    <2>1. Apart(M, J, T, n, g)
      BY DEF Good
    <2>2. \A r \in DOMAIN M : M[r].gen = g => \A id : Has(M[r], id) => Past(U, m, id)
      BY <1>10, <2>1 DEF Apart
    <2>3. \A k \in Worker : \A id : JobHas(J[k], id) => Past(U, m, id)
      BY <1>10, <2>1 DEF Apart
    <2>4. \A k \in Worker : \A id : JobHas(K[k], id) => Past(U, m, id)
      <3> SUFFICES ASSUME NEW k \in Worker, NEW id, JobHas(K[k], id)
                   PROVE  Past(U, m, id)
        OBVIOUS
      <3>1. CASE k # j
        BY <1>2, <2>3, <3>1
      <3>2. CASE k = j
        <4>1. JobHas(J[j], id) \/ (id = a /\ id # 0)
          BY <1>5, <3>2
        <4> QED
          BY <1>11, <2>3, <4>1
      <3> QED
        BY <3>1, <3>2
    <2>5. K["stop"].op = "undo" /\ K["stop"].of = g => \A id : Has(K["stop"], id) => Past(U, m, id)
      BY <1>1, <1>10, <2>1 DEF Apart
    <2> QED
      BY <2>2, <2>4, <2>5 DEF Apart
  <1>16. ASSUME J["stop"].op = "idle"
         PROVE  Exact(M, K, U, g)
    <2>1. Exact(M, J, T, g)
      BY <1>16 DEF Good
    <2>2. \A r : Keeps(T, U, r)
      BY <1>7 DEF Keeps
    <2>3. \A r \in DOMAIN M : M[r].gen = g => RecordExact(U, r, M[r])
      BY <2>1, <2>2, RecordExactKept DEF Exact
    <2>4. \A k \in Worker : JobExact(U, J[k])
      BY <2>1, <2>2, JobExactKept DEF Exact
    <2>5. JobExact(U, K[j])
      <3>1. AddExact(U, J[j])
        BY <2>4 DEF JobExact
      <3>2. a # 0 => On(U, a, <<J[j].res, Len(J[j].ids) + 1>>)
        BY DEF On, Grows
      <3>3. AddExact(U, K[j])
        BY <1>4, <3>1, <3>2 DEF AddExact
      <3> QED
        BY <1>4, <3>3 DEF JobExact
    <2>6. ASSUME NEW id \in DOMAIN U, ~IsRpc(U, id)
          PROVE  \/ \E r \in DOMAIN M : M[r].gen = g /\ Has(M[r], id)
                 \/ \E k \in Worker : JobHas(K[k], id)
      <3>1. CASE id = a /\ id # 0
        BY <1>5, <3>1
      <3>2. CASE id \in DOMAIN T
        <4>1. ~IsRpc(T, id)
          BY <1>7, <2>6, <3>2 DEF IsRpc
        <4>2. \/ \E r \in DOMAIN M : M[r].gen = g /\ Has(M[r], id)
              \/ \E k \in Worker : JobHas(J[k], id)
          BY <2>1, <3>2, <4>1 DEF Exact
        <4> QED
          BY <1>2, <1>5, <4>2
      <3> QED
        BY <1>8, <3>1, <3>2
    <2> QED
      BY <1>2, <2>3, <2>4, <2>5, <2>6 DEF Exact
  <1> QED
    BY <1>1, <1>12, <1>13, <1>14, <1>15, <1>16 DEF Good

\* The answer of a route.add is kept with the ids before it.
LEMMA JobCollects ==
    ASSUME NEW M, NEW J, NEW T, NEW n, NEW g, NEW j \in Worker, NEW K,
           Shape(M, J, T, n), Good(M, J, T, n, g), J[j].op = "add", J[j].ans # 0, Len(J[j].ids) + 1 < Size[J[j].res],
           Sets(J, K, j, K[j]), K[j] = [J[j] EXCEPT !.ids = Append(J[j].ids, J[j].ans), !.ans = 0]
    PROVE  Good(M, K, T, n, g)
  <1> USE DEF Sets
  <1>1. "stop" # j /\ K["stop"] = J["stop"] /\ Worker \subseteq Job /\ "stop" \in Job
    BY DEF Worker, Job, Shape
  <1>2. \A k \in Worker : k # j => K[k] = J[k]
    BY <1>1
  <1>3. Putting(J[j]) /\ J[j] \in Adding /\ J[j].ids \in Seq(Nat) /\ J[j].ans \in Nat /\ Len(J[j].ids) \in Nat
    BY JobTypes DEF Shape, Putting, Adding
  <1>4. /\ K[j].op = "add" /\ K[j].ans = 0 /\ K[j].ids = Append(J[j].ids, J[j].ans) /\ K[j].res = J[j].res
        /\ K[j].gen = J[j].gen /\ K[j].more = J[j].more /\ K[j].stamp = J[j].stamp
    BY <1>3 DEF Adding
  <1>5. AppendFacts(J[j].ids, J[j].ans, K[j].ids)
    BY <1>3, <1>4, AppendIs
  <1>6. \A id : JobHas(K[j], id) <=> JobHas(J[j], id)
    <2>1. \A id : In(id, K[j].ids) <=> In(id, J[j].ids) \/ id = J[j].ans
      BY <1>5 DEF AppendFacts
    <2> QED
      BY <1>3, <1>4, <2>1 DEF JobHas, Has, Putting
  <1>7. \A k \in Worker : Putting(K[k]) => (K[k].ids # <<>> \/ K[k].ans # 0 => K[k].gen = g)
    BY <1>2, <1>3, <1>4 DEF Good
  <1>8. Taking(K["invoke"]) => M[K["invoke"].res].gen = g
    BY <1>1, <1>2, <1>4 DEF Good, Worker, Taking
  <1>9. SinkGood(M, K["sink"], g)
    <2>1. SinkGood(M, J["sink"], g) /\ "sink" \in Worker
      BY DEF Good, Worker
    <2>2. CASE j = "sink"
      BY <1>3, <1>4, <2>1, <2>2, SinkGoodKept
    <2>3. CASE j # "sink"
      BY <1>2, <2>1, <2>3
    <2> QED
      BY <2>2, <2>3
  <1>10. Apart(M, K, T, n, g)
    BY <1>1, <1>2, <1>6 DEF Good, Apart
  <1>11. ASSUME J["stop"].op = "idle"
         PROVE  Exact(M, K, T, g)
    <2>1. Exact(M, J, T, g)
      BY <1>11 DEF Good
    <2>2. AddExact(T, J[j])
      BY <2>1 DEF Exact, JobExact
    <2>3. AddExact(T, K[j])
      <3>1. \A i \in 1 .. Len(J[j].ids) : On(T, J[j].ids[i], <<J[j].res, i>>)
        BY <2>2 DEF AddExact
      <3>2. On(T, J[j].ans, <<J[j].res, Len(J[j].ids) + 1>>)
        BY <2>2 DEF AddExact
      <3>3. \A i \in 1 .. Len(K[j].ids) : On(T, K[j].ids[i], <<J[j].res, i>>)
        BY <1>5, <3>1, <3>2 DEF AppendFacts
      <3>4. Len(K[j].ids) < Size[K[j].res]
        BY <1>4, <1>5 DEF AppendFacts
      <3> QED
        BY <1>4, <3>3, <3>4 DEF AddExact
    <2>4. JobExact(T, K[j])
      BY <1>4, <2>3 DEF JobExact
    <2> QED
      BY <1>2, <1>6, <2>1, <2>4 DEF Exact
  <1> QED
    BY <1>1, <1>7, <1>8, <1>9, <1>10, <1>11 DEF Good

\* A job whose last route is added leaves its ids to the record.
LEMMA JobRecords ==
    ASSUME NEW M, NEW J, NEW T, NEW n, NEW g, NEW j \in Worker, NEW K, NEW N, NEW res,
           Shape(M, J, T, n), Good(M, J, T, n, g), J[j].op = "add", J[j].ans # 0, Len(J[j].ids) + 1 = Size[J[j].res],
           Sets(J, K, j, Idle), res = J[j].res, DOMAIN N = DOMAIN M \cup {res}, \A r \in DOMAIN M \ {res} : N[r] = M[r],
           N[res].ids = Append(J[j].ids, J[j].ans), N[res].gen = J[j].gen
    PROVE  Good(N, K, T, n, g)
  <1> USE DEF Sets
  <1>1. "stop" # j /\ K["stop"] = J["stop"] /\ Worker \subseteq Job /\ "stop" \in Job /\ Idle.op = "idle" /\ K[j] = Idle
    BY DEF Worker, Job, Idle
  <1>2. \A k \in Worker : k # j => K[k] = J[k]
    BY <1>1
  <1>3. Putting(J[j]) /\ J[j] \in Adding /\ J[j].ids \in Seq(Nat) /\ J[j].ans \in Nat /\ res \in Resource
    BY JobTypes DEF Shape, Putting, Adding
  <1>4. J[j].gen = g
    BY <1>3 DEF Good
  <1> DEFINE ids == N[res].ids
  <1>5. /\ ids \in Seq(Nat) /\ Len(ids) = Len(J[j].ids) + 1 /\ Len(J[j].ids) \in Nat
        /\ \A i \in 1 .. Len(ids) :
              (i \in 1 .. Len(J[j].ids) /\ ids[i] = J[j].ids[i]) \/ (i = Len(J[j].ids) + 1 /\ ids[i] = J[j].ans)
        /\ \A id : In(id, ids) <=> In(id, J[j].ids) \/ id = J[j].ans
    <2>1. AppendFacts(J[j].ids, J[j].ans, ids)
      BY <1>3, AppendIs
    <2> QED
      BY <2>1 DEF AppendFacts
  <1>6. \A id : Has(N[res], id) <=> JobHas(J[j], id)
    BY <1>3, <1>5 DEF Has, JobHas
  <1>7. \A id : ~JobHas(K[j], id)
    BY <1>1 DEF JobHas, Putting
  <1>8. \A k \in Worker : Putting(K[k]) => (K[k].ids # <<>> \/ K[k].ans # 0 => K[k].gen = g)
    BY <1>1, <1>2 DEF Good, Putting
  <1>9. Taking(K["invoke"]) => N[K["invoke"].res].gen = g
    <2> SUFFICES ASSUME Taking(K["invoke"])
                 PROVE  N[K["invoke"].res].gen = g
      OBVIOUS
    <2>1. j # "invoke" /\ "invoke" \in Worker
      BY <1>1 DEF Taking, Worker
    <2>2. K["invoke"] = J["invoke"] /\ Taking(J["invoke"])
      BY <1>2, <2>1
    <2>3. M[J["invoke"].res].gen = g /\ J["invoke"].res \in DOMAIN M
      BY <2>2 DEF Good, Shape, Paired
    <2> QED
      BY <1>4, <2>2, <2>3
  <1>10. SinkGood(N, K["sink"], g)
    <2>1. CASE j = "sink"
      BY <1>1, <2>1 DEF SinkGood, Putting
    <2>2. CASE j = "invoke"
      <3>1. K["sink"] = J["sink"]
        BY <1>2, <2>2 DEF Worker
      <3>2. res \notin DOMAIN M
        BY <1>3, <2>2 DEF Shape, Paired
      <3>3. \A m : Old(M, g, m) => Old(N, g, m)
        BY <3>2 DEF Old
      <3> QED
        BY <3>1, <3>3 DEF Good, SinkGood
    <2> QED
      BY <2>1, <2>2 DEF Worker
  <1>11. Apart(M, J, T, n, g)
    BY DEF Good
  <1>12. Apart(N, K, T, n, g)
    <2>1. \A id : JobHas(J[j], id) => Past(T, n, id)
      BY <1>11 DEF Apart
    <2>2. \A r \in DOMAIN N : N[r].gen = g => \A id : Has(N[r], id) => Past(T, n, id)
      <3> SUFFICES ASSUME NEW r \in DOMAIN N, N[r].gen = g, NEW id, Has(N[r], id)
                   PROVE  Past(T, n, id)
        OBVIOUS
      <3>1. CASE r = res
        BY <1>6, <2>1, <3>1
      <3>2. CASE r # res
        BY <1>11, <3>2 DEF Apart
      <3> QED
        BY <3>1, <3>2
    <2>3. \A k \in Worker : \A id : JobHas(K[k], id) => Past(T, n, id)
      BY <1>2, <1>7, <1>11 DEF Apart
    <2>4. K["stop"].op = "undo" /\ K["stop"].of = g => \A id : Has(K["stop"], id) => Past(T, n, id)
      BY <1>1, <1>11 DEF Apart
    <2> QED
      BY <2>2, <2>3, <2>4 DEF Apart
  <1>13. ASSUME J["stop"].op = "idle"
         PROVE  Exact(N, K, T, g)
    <2>1. Exact(M, J, T, g)
      BY <1>13 DEF Good
    <2>2. AddExact(T, J[j])
      BY <2>1 DEF Exact, JobExact
    <2>3. RecordExact(T, res, N[res])
      <3> SUFFICES ASSUME NEW i \in 1 .. Len(ids)
                   PROVE  On(T, ids[i], <<res, Size[res] - Len(ids) + i>>)
        BY DEF RecordExact
      <3>1. Size[res] - Len(ids) + i = i
        BY <1>3, <1>5
      <3>2. On(T, ids[i], <<res, i>>)
        BY <1>5, <2>2 DEF AddExact
      <3> QED
        BY <3>1, <3>2
    <2>4. ASSUME NEW r \in DOMAIN N, N[r].gen = g
          PROVE  RecordExact(T, r, N[r])
      <3>1. CASE r = res
        BY <2>3, <3>1
      <3>2. CASE r # res
        BY <2>1, <2>4, <3>2 DEF Exact
      <3> QED
        BY <3>1, <3>2
    <2>5. \A k \in Worker : JobExact(T, K[k])
      BY <1>1, <1>2, <2>1 DEF Exact, JobExact
    <2>6. ASSUME NEW id \in DOMAIN T, ~IsRpc(T, id)
          PROVE  \/ \E r \in DOMAIN N : N[r].gen = g /\ Has(N[r], id)
                 \/ \E k \in Worker : JobHas(K[k], id)
      <3>1. CASE JobHas(J[j], id)
        BY <1>4, <1>6, <3>1
      <3>2. CASE \E k \in Worker \ {j} : JobHas(J[k], id)
        BY <1>2, <3>2
      <3>3. CASE \E r \in DOMAIN M : M[r].gen = g /\ Has(M[r], id)
        <4>1. PICK r \in DOMAIN M : M[r].gen = g /\ Has(M[r], id)
          BY <3>3
        <4>2. r # res
          BY <1>3, <4>1, OwnersDiffer
        <4> QED
          BY <4>1, <4>2
      <3> QED
        BY <2>1, <2>6, <3>1, <3>2, <3>3 DEF Exact
    <2> QED
      BY <2>4, <2>5, <2>6 DEF Exact
  <1> QED
    BY <1>1, <1>8, <1>9, <1>10, <1>12, <1>13 DEF Good

\* A job that undoes its additions removes the next one.
LEMMA JobRemoves ==
    ASSUME NEW M, NEW J, NEW T, NEW n, NEW g, NEW j \in Worker, NEW K, NEW U,
           Shape(M, J, T, n), Good(M, J, T, n, g), J[j].op = "undo", J[j].ids # <<>>,
           Sets(J, K, j, [J[j] EXCEPT !.ids = Tail(J[j].ids)]), Shrinks(T, U, Head(J[j].ids))
    PROVE  Good(M, K, U, n, g)
  <1> USE DEF Sets
  <1>1. "stop" # j /\ K["stop"] = J["stop"] /\ Worker \subseteq Job /\ "stop" \in Job
    BY DEF Worker, Job
  <1>2. \A k \in Worker : k # j => K[k] = J[k]
    BY <1>1
  <1>3. Putting(J[j]) /\ J[j] \in Adding /\ J[j].ids \in Seq(Nat) /\ J[j].ans = 0
    BY JobTypes DEF Shape, Putting, Adding, Paired
  <1>4. /\ K[j].op = "undo" /\ K[j].ans = 0 /\ K[j].ids = Tail(J[j].ids) /\ K[j].res = J[j].res
        /\ K[j].gen = J[j].gen /\ K[j].more = J[j].more /\ K[j].stamp = J[j].stamp
    BY <1>3 DEF Adding
  <1> DEFINE x == J[j].ids[1]
             t == K[j].ids
  <1>5. /\ Head(J[j].ids) = x /\ x \in Nat /\ 1 \in 1 .. Len(J[j].ids)
        /\ \A i \in 1 .. Len(t) : i + 1 \in 1 .. Len(J[j].ids) /\ i + 1 # 1 /\ t[i] = J[j].ids[i + 1]
        /\ \A id : In(id, J[j].ids) <=> In(id, t) \/ id = x
        /\ t \in Seq(Nat) /\ Len(t) \in Nat
    <2>1. TailFacts(J[j].ids, t)
      BY <1>3, <1>4, TailIs
    <2> HIDE DEF t
    <2> QED
      BY <2>1 DEF TailFacts
  <1>6. \A id : JobHas(J[j], id) <=> JobHas(K[j], id) \/ id = x
    BY <1>3, <1>4, <1>5 DEF JobHas, Has, Putting
  <1>7. x \in DOMAIN T /\ DOMAIN U = DOMAIN T \ {x} /\ \A i \in DOMAIN T \ {x} : U[i] = T[i]
    BY <1>5 DEF Shrinks
  <1>8. \A id : Past(T, n, id) => Past(U, n, id)
    BY <1>7 DEF Past, IsRpc
  <1> HIDE DEF x, t
  <1>9. \A k \in Worker : Putting(K[k]) => (K[k].ids # <<>> \/ K[k].ans # 0 => K[k].gen = g)
    BY <1>2, <1>3, <1>4 DEF Good
  <1>10. Taking(K["invoke"]) => M[K["invoke"].res].gen = g
    BY <1>1, <1>2, <1>4 DEF Good, Worker, Taking
  <1>11. SinkGood(M, K["sink"], g)
    <2>1. SinkGood(M, J["sink"], g) /\ "sink" \in Worker
      BY DEF Good, Worker
    <2>2. CASE j = "sink"
      BY <1>3, <1>4, <2>1, <2>2, SinkGoodKept
    <2>3. CASE j # "sink"
      BY <1>2, <2>1, <2>3
    <2> QED
      BY <2>2, <2>3
  <1>12. Apart(M, K, U, n, g)
    <2>1. Apart(M, J, T, n, g)
      BY DEF Good
    <2>2. \A r \in DOMAIN M : M[r].gen = g => \A id : Has(M[r], id) => Past(U, n, id)
      BY <1>8, <2>1 DEF Apart
    <2>3. \A k \in Worker : \A id : JobHas(J[k], id) => Past(U, n, id)
      BY <1>8, <2>1 DEF Apart
    <2>4. \A k \in Worker : \A id : JobHas(K[k], id) => Past(U, n, id)
      BY <1>2, <1>6, <2>3
    <2>5. K["stop"].op = "undo" /\ K["stop"].of = g => \A id : Has(K["stop"], id) => Past(U, n, id)
      BY <1>1, <1>8, <2>1 DEF Apart
    <2> QED
      BY <2>2, <2>4, <2>5 DEF Apart
  <1>13. ASSUME J["stop"].op = "idle"
         PROVE  Exact(M, K, U, g)
    <2>1. Exact(M, J, T, g)
      BY <1>13 DEF Good
    <2>2. UndoExact(T, J[j])
      BY <2>1 DEF Exact, JobExact
    <2>3. T[x][1] = J[j].res
      BY <1>5, <2>2 DEF UndoExact, x
    <2>4. \A r : r # J[j].res => Keeps(T, U, r)
      BY <1>7, <2>3 DEF Keeps
    <2>5. ASSUME NEW r \in DOMAIN M, M[r].gen = g
          PROVE  RecordExact(U, r, M[r])
      <3>1. r # J[j].res
        BY <1>3, <2>5, OwnersDiffer
      <3> QED
        BY <2>1, <2>4, <2>5, <3>1, RecordExactKept DEF Exact
    <2>6. ASSUME NEW k \in Worker, k # j
          PROVE  JobExact(U, K[k])
      <3>1. CASE Putting(J[k])
        <4>1. J[k].res # J[j].res
          BY <1>3, <2>6, <3>1, OwnersDiffer
        <4> QED
          BY <1>2, <2>1, <2>4, <2>6, <4>1, JobExactKept DEF Exact
      <3>2. CASE ~Putting(J[k])
        BY <1>2, <2>6, <3>2 DEF JobExact, Putting
      <3> QED
        BY <3>1, <3>2
    <2>7. UndoExact(U, K[j])
      <3>1. ASSUME NEW i \in 1 .. Len(t)
            PROVE  t[i] \in DOMAIN U /\ U[t[i]][1] = K[j].res
        <4>1. t[i] = J[j].ids[i + 1] /\ i + 1 \in 1 .. Len(J[j].ids) /\ i + 1 # 1
          BY <1>5
        <4>2. J[j].ids[i + 1] # x
          BY <1>5, <2>2, <4>1 DEF UndoExact, Once, x
        <4>3. J[j].ids[i + 1] \in DOMAIN T /\ T[J[j].ids[i + 1]][1] = J[j].res
          BY <2>2, <4>1 DEF UndoExact
        <4> QED
          BY <1>4, <1>7, <4>1, <4>2, <4>3
      <3>2. ASSUME NEW i \in 1 .. Len(t), NEW k \in 1 .. Len(t), t[i] = t[k]
            PROVE  i = k
        <4>1. i + 1 = k + 1
          <5>1. i + 1 \in 1 .. Len(J[j].ids) /\ k + 1 \in 1 .. Len(J[j].ids)
            BY <1>5
          <5>2. J[j].ids[i + 1] = J[j].ids[k + 1]
            BY <1>5, <3>2
          <5> QED
            BY <2>2, <5>1, <5>2 DEF UndoExact, Once
        <4> QED
          BY <4>1
      <3> QED
        BY <3>1, <3>2 DEF UndoExact, Once, t
    <2>8. JobExact(U, K[j])
      BY <1>4, <2>7 DEF JobExact
    <2>9. ASSUME NEW id \in DOMAIN U, ~IsRpc(U, id)
          PROVE  \/ \E r \in DOMAIN M : M[r].gen = g /\ Has(M[r], id)
                 \/ \E k \in Worker : JobHas(K[k], id)
      <3>1. id \in DOMAIN T /\ ~IsRpc(T, id) /\ id # x
        BY <1>7, <2>9 DEF IsRpc
      <3>2. \/ \E r \in DOMAIN M : M[r].gen = g /\ Has(M[r], id)
            \/ \E k \in Worker : JobHas(J[k], id)
        BY <2>1, <3>1 DEF Exact
      <3> QED
        BY <1>2, <1>6, <3>1, <3>2
    <2> QED
      BY <2>5, <2>6, <2>8, <2>9 DEF Exact
  <1> QED
    BY <1>1, <1>9, <1>10, <1>11, <1>12, <1>13 DEF Good

\* An id of a record is removed with its route.
LEMMA RecordRemoves ==
    ASSUME NEW M, NEW J, NEW T, NEW n, NEW g, NEW K, NEW N, NEW U, NEW r \in DOMAIN M,
           Shape(M, J, T, n), Good(M, J, T, n, g), ~Putting(J["invoke"]), M[r].gen = g, M[r].ids # <<>>,
           Sets(J, K, "invoke", K["invoke"]), Taking(K["invoke"]), K["invoke"].res = r,
           N = [M EXCEPT ![r].ids = Tail(M[r].ids)], Shrinks(T, U, Head(M[r].ids))
    PROVE  Good(N, K, U, n, g)
  <1> USE DEF Sets
  <1>1. /\ K["stop"] = J["stop"] /\ K["sink"] = J["sink"] /\ Worker = {"invoke", "sink"}
        /\ "stop" \in Job /\ "sink" \in Job /\ "invoke" \in Job
    BY DEF Worker, Job
  <1>2. M[r] \in Record /\ M[r].ids \in Seq(Nat)
    BY DEF Shape, RecordsTyped, Record
  <1>3. /\ DOMAIN N = DOMAIN M /\ \A q \in DOMAIN M : q # r => N[q] = M[q]
        /\ N[r] = [M[r] EXCEPT !.ids = Tail(M[r].ids)]
    OBVIOUS
  <1>4. N[r].ids = Tail(M[r].ids) /\ N[r].gen = M[r].gen /\ N[r].stamp = M[r].stamp
    BY <1>2, <1>3 DEF Record
  <1> DEFINE x == M[r].ids[1]
             t == N[r].ids
  <1>5. /\ Head(M[r].ids) = x /\ x \in Nat /\ 1 \in 1 .. Len(M[r].ids)
        /\ \A i \in 1 .. Len(t) : i + 1 \in 1 .. Len(M[r].ids) /\ i + 1 # 1 /\ t[i] = M[r].ids[i + 1]
        /\ \A id : In(id, M[r].ids) <=> In(id, t) \/ id = x
        /\ t \in Seq(Nat) /\ Len(t) = Len(M[r].ids) - 1 /\ Len(M[r].ids) \in Nat
    <2>1. TailFacts(M[r].ids, t)
      BY <1>2, <1>4, TailIs
    <2> HIDE DEF t
    <2> QED
      BY <2>1 DEF TailFacts
  <1>6. \A id : Has(M[r], id) <=> Has(N[r], id) \/ id = x
    BY <1>5 DEF Has
  <1>7. x \in DOMAIN T /\ DOMAIN U = DOMAIN T \ {x} /\ \A i \in DOMAIN T \ {x} : U[i] = T[i]
    BY <1>5 DEF Shrinks
  <1>8. \A id : Past(T, n, id) => Past(U, n, id)
    BY <1>7 DEF Past, IsRpc
  <1> HIDE DEF x, t
  <1>9. ~Putting(K["invoke"]) /\ ~JobHas(K["invoke"], x) /\ \A id : ~JobHas(K["invoke"], id) /\ ~JobHas(J["invoke"], id)
    BY DEF Putting, Taking, JobHas
  <1>10. \A k \in Worker : Putting(K[k]) => (K[k].ids # <<>> \/ K[k].ans # 0 => K[k].gen = g)
    BY <1>1, <1>9 DEF Good
  <1>11. N[K["invoke"].res].gen = g
    BY <1>4
  <1>12. SinkGood(N, K["sink"], g)
    <2>1. \A m : Old(M, g, m) => Old(N, g, m)
      BY <1>3 DEF Old
    <2> QED
      BY <1>1, <2>1 DEF Good, SinkGood
  <1>13. Apart(N, K, U, n, g)
    <2>1. Apart(M, J, T, n, g)
      BY DEF Good
    <2>2. \A q \in DOMAIN M : M[q].gen = g => \A id : Has(M[q], id) => Past(U, n, id)
      BY <1>8, <2>1 DEF Apart
    <2>3. \A q \in DOMAIN N : N[q].gen = g => \A id : Has(N[q], id) => Past(U, n, id)
      BY <1>3, <1>4, <1>6, <2>2
    <2>4. \A k \in Worker : \A id : JobHas(J[k], id) => Past(U, n, id)
      BY <1>8, <2>1 DEF Apart
    <2>5. \A k \in Worker : \A id : JobHas(K[k], id) => Past(U, n, id)
      BY <1>1, <1>9, <2>4
    <2>6. K["stop"].op = "undo" /\ K["stop"].of = g => \A id : Has(K["stop"], id) => Past(U, n, id)
      BY <1>1, <1>8, <2>1 DEF Apart
    <2> QED
      BY <2>3, <2>5, <2>6 DEF Apart
  <1>14. ASSUME J["stop"].op = "idle"
         PROVE  Exact(N, K, U, g)
    <2>1. Exact(M, J, T, g)
      BY <1>14 DEF Good
    <2>2. \A i \in 1 .. Len(M[r].ids) : On(T, M[r].ids[i], <<r, Size[r] - Len(M[r].ids) + i>>)
      BY <2>1 DEF Exact, RecordExact
    <2>3. T[x][1] = r
      BY <1>5, <2>2 DEF On, x
    <2>4. \A q : q # r => Keeps(T, U, q)
      BY <1>7, <2>3 DEF Keeps
    <2>5. RecordExact(U, r, N[r])
      <3> SUFFICES ASSUME NEW i \in 1 .. Len(t)
                   PROVE  On(U, t[i], <<r, Size[r] - Len(t) + i>>)
        BY DEF RecordExact, t
      <3>1. t[i] = M[r].ids[i + 1] /\ i + 1 \in 1 .. Len(M[r].ids) /\ i + 1 # 1
        BY <1>5
      <3>2. Size[r] \in Nat
        BY DEF Shape, RecordsTyped
      <3>3. Size[r] - Len(t) + i = Size[r] - Len(M[r].ids) + (i + 1)
        <4>1. \A a, b \in Nat : \A k \in 1 .. b - 1 : a - (b - 1) + k = a - b + (k + 1)
          OBVIOUS
        <4>2. i \in 1 .. Len(M[r].ids) - 1 /\ Len(t) = Len(M[r].ids) - 1
          BY <1>5
        <4>3. Size[r] - (Len(M[r].ids) - 1) + i = Size[r] - Len(M[r].ids) + (i + 1)
          BY <1>5, <3>2, <4>1, <4>2
        <4> QED
          BY <4>2, <4>3
      <3>4. On(T, t[i], <<r, Size[r] - Len(M[r].ids) + (i + 1)>>)
        BY <2>2, <3>1
      <3>5. On(T, x, <<r, Size[r] - Len(M[r].ids) + 1>>)
        BY <1>5, <2>2 DEF x
      <3>6. Size[r] - Len(M[r].ids) + (i + 1) # Size[r] - Len(M[r].ids) + 1
        BY <1>5, <3>1, <3>2
      <3>7. t[i] # x
        BY <3>4, <3>5, <3>6 DEF On
      <3> QED
        BY <1>7, <3>3, <3>4, <3>7 DEF On
    <2>6. ASSUME NEW q \in DOMAIN N, N[q].gen = g
          PROVE  RecordExact(U, q, N[q])
      <3>1. CASE q = r
        BY <2>5, <3>1
      <3>2. CASE q # r
        <4>1. N[q] = M[q] /\ RecordExact(T, q, M[q])
          BY <1>3, <2>1, <2>6, <3>2 DEF Exact
        <4> QED
          BY <2>4, <3>2, <4>1, RecordExactKept
      <3> QED
        BY <3>1, <3>2
    <2>7. JobExact(U, K["sink"])
      <3>1. CASE Putting(J["sink"])
        <4>1. J["sink"].res # r
          BY <1>1, <3>1, OwnersDiffer
        <4> QED
          BY <1>1, <2>1, <2>4, <4>1, JobExactKept DEF Exact
      <3>2. CASE ~Putting(J["sink"])
        BY <1>1, <3>2 DEF JobExact, Putting
      <3> QED
        BY <3>1, <3>2
    <2>8. JobExact(U, K["invoke"])
      BY <1>9 DEF JobExact, Putting
    <2>9. ASSUME NEW id \in DOMAIN U, ~IsRpc(U, id)
          PROVE  \/ \E q \in DOMAIN N : N[q].gen = g /\ Has(N[q], id)
                 \/ \E k \in Worker : JobHas(K[k], id)
      <3>1. id \in DOMAIN T /\ ~IsRpc(T, id) /\ id # x
        BY <1>7, <2>9 DEF IsRpc
      <3>2. \/ \E q \in DOMAIN M : M[q].gen = g /\ Has(M[q], id)
            \/ \E k \in Worker : JobHas(J[k], id)
        BY <2>1, <3>1 DEF Exact
      <3>3. CASE \E q \in DOMAIN M : M[q].gen = g /\ Has(M[q], id)
        BY <1>3, <1>4, <1>6, <3>1, <3>3
      <3>4. CASE \E k \in Worker : JobHas(J[k], id)
        BY <1>1, <1>9, <3>4
      <3> QED
        BY <3>2, <3>3, <3>4
    <2> QED
      BY <1>1, <2>6, <2>7, <2>8, <2>9 DEF Exact
  <1> QED
    BY <1>1, <1>10, <1>11, <1>12, <1>13, <1>14 DEF Good

\* A record without ids is dropped.
LEMMA RecordDrops ==
    ASSUME NEW M, NEW J, NEW T, NEW n, NEW g, NEW K, NEW N, NEW r \in DOMAIN M,
           Shape(M, J, T, n), Good(M, J, T, n, g), ~Putting(J["invoke"]), M[r].gen = g, M[r].ids = <<>>,
           Sets(J, K, "invoke", Idle), N = [q \in DOMAIN M \ {r} |-> M[q]]
    PROVE  Good(N, K, T, n, g)
  <1> USE DEF Sets
  <1>1. /\ K["stop"] = J["stop"] /\ K["sink"] = J["sink"] /\ Worker = {"invoke", "sink"}
        /\ "stop" \in Job /\ "sink" \in Job /\ "invoke" \in Job
    BY DEF Worker, Job
  <1>2. DOMAIN N = DOMAIN M \ {r} /\ \A q \in DOMAIN N : q \in DOMAIN M /\ N[q] = M[q]
    OBVIOUS
  <1>3. K["invoke"].op = "idle"
    BY DEF Idle
  <1>4. ~Putting(K["invoke"]) /\ ~Taking(K["invoke"]) /\ \A id : ~JobHas(K["invoke"], id) /\ ~JobHas(J["invoke"], id)
    BY <1>3 DEF Putting, Taking, JobHas
  <1>5. \A id : ~Has(M[r], id)
    BY DEF Has, In
  <1>6. \A k \in Worker : Putting(K[k]) => (K[k].ids # <<>> \/ K[k].ans # 0 => K[k].gen = g)
    BY <1>1, <1>4 DEF Good
  <1>7. SinkGood(N, K["sink"], g)
    <2>1. \A m : Old(M, g, m) => Old(N, g, m)
      BY <1>2 DEF Old
    <2> QED
      BY <1>1, <2>1 DEF Good, SinkGood
  <1>8. Apart(N, K, T, n, g)
    BY <1>1, <1>2, <1>4 DEF Good, Apart
  <1>9. ASSUME J["stop"].op = "idle"
         PROVE  Exact(N, K, T, g)
    <2>1. Exact(M, J, T, g)
      BY <1>9 DEF Good
    <2>2. \A q \in DOMAIN N : N[q].gen = g => RecordExact(T, q, N[q])
      BY <1>2, <2>1 DEF Exact
    <2>3. \A k \in Worker : JobExact(T, K[k])
      BY <1>1, <1>3, <2>1 DEF Exact, JobExact
    <2>4. ASSUME NEW id \in DOMAIN T, ~IsRpc(T, id)
          PROVE  \/ \E q \in DOMAIN N : N[q].gen = g /\ Has(N[q], id)
                 \/ \E k \in Worker : JobHas(K[k], id)
      <3>1. CASE \E q \in DOMAIN M : M[q].gen = g /\ Has(M[q], id)
        BY <1>2, <1>5, <3>1
      <3>2. CASE \E k \in Worker : JobHas(J[k], id)
        BY <1>1, <1>4, <3>2
      <3> QED
        BY <2>1, <2>4, <3>1, <3>2 DEF Exact
    <2> QED
      BY <2>2, <2>3, <2>4 DEF Exact
  <1> QED
    BY <1>1, <1>4, <1>6, <1>7, <1>8, <1>9 DEF Good

\* stop() begins or removes the next route.
LEMMA StopTurns ==
    ASSUME NEW M, NEW J, NEW T, NEW n, NEW g, NEW K, NEW U,
           Shape(M, J, T, n), Good(M, J, T, n, g), Sets(J, K, "stop", K["stop"]), K["stop"].op = "undo",
           \A id : IsRpc(U, id) => IsRpc(T, id),
           K["stop"].of = g => \A id : Has(K["stop"], id) => Past(T, n, id)
    PROVE  Good(M, K, U, n, g)
  <1>1. \A k \in Worker : K[k] = J[k]
    BY DEF Sets, Worker, Job
  <1>2. \A id : Past(T, n, id) => Past(U, n, id)
    BY DEF Past
  <1>3. Apart(M, K, U, n, g)
    BY <1>1, <1>2 DEF Good, Apart
  <1>4. SinkGood(M, K["sink"], g) /\ (Taking(K["invoke"]) => M[K["invoke"].res].gen = g)
    BY <1>1 DEF Good, Worker
  <1> QED
    BY <1>1, <1>3, <1>4 DEF Good

LEMMA AllIdsAre ==
    ASSUME RecordsTyped(mounts), NEW S, \A r \in DOMAIN mounts : mounts[r].ids \in Seq(S)
    PROVE  AllIds \in Seq(S)
  <1> DEFINE D == DOMAIN mounts
             n == Cardinality(D)
             f == SetToSeq(D)
             ss == [i \in 1 .. n |-> mounts[f[i]].ids]
  <1>1. n \in Nat /\ ExistsBijection(1 .. n, D)
    BY FS_CardinalityType DEF RecordsTyped
  <1>2. \E h \in [1 .. n -> D] : IsInjective(h)
    BY <1>1 DEF ExistsBijection, Bijection, Injection
  <1>3. f \in [1 .. n -> D]
    BY <1>2 DEF SetToSeq
  <1> HIDE DEF f
  <1>4. \A i \in 1 .. n : ss[i] \in Seq(S)
    BY <1>3
  <1>5. ss = [i \in 1 .. n |-> ss[i]]
    OBVIOUS
  <1>6. AllIds = FlattenSeq(ss)
    BY DEF AllIds, f
  <1> HIDE DEF ss, n
  <1>7. FlattenSeq(ss) \in Seq(S)
    BY <1>1, <1>4, <1>5, FlattenIs
  <1> QED
    BY <1>6, <1>7

-----------------------------------------------------------------------------
(* The two methods                                                         *)

\* A route is added under a new id, or nothing changes.
LEMMA RouteAddIs ==
    ASSUME SrvTyped, NEW task \in Guards, NEW w, NEW g, NEW route, RouteAdd(task, w, g, route)
    PROVE  /\ SrvTyped' /\ srv' = srv /\ spoiled' = spoiled /\ AddAnswer(w, g, route) \in Nat
           /\ \/ AddAnswer(w, g, route) = 0 /\ table' = table /\ seq' = seq
              \/ /\ AddAnswer(w, g, route) = seq + 1 /\ seq' = seq + 1 /\ Available /\ g = srv.gen
                 /\ ~Duplicate(route) /\ Grows(table, table', seq + 1, route)
  <1>1. seq \in Nat /\ DOMAIN table \subseteq 1 .. seq /\ seq + 1 \notin DOMAIN table
    BY DEF SrvTyped
  <1>2. srv' = srv /\ spoiled' = spoiled /\ guard' \in Guards
    BY DEF RouteAdd, SrvTyped
  <1>3. CASE ~Admits(w, g) \/ Duplicate(route)
    <2>1. table' = table /\ seq' = seq /\ AddAnswer(w, g, route) = 0
      BY <1>3 DEF RouteAdd, AddAnswer
    <2> QED
      BY <1>2, <2>1 DEF SrvTyped
  <1>4. CASE ~(~Admits(w, g) \/ Duplicate(route))
    <2>1. /\ seq' = seq + 1 /\ AddAnswer(w, g, route) = seq + 1 /\ Available /\ g = srv.gen /\ ~Duplicate(route)
          /\ table' = [id \in DOMAIN table \cup {seq + 1} |-> IF id = seq + 1 THEN route ELSE table[id]]
      BY <1>4 DEF RouteAdd, AddAnswer, NewId, Admits
    <2>2. Grows(table, table', seq + 1, route)
      BY <1>1, <2>1 DEF Grows
    <2>3. DOMAIN table' \subseteq 1 .. seq + 1
      BY <1>1, <2>2 DEF Grows
    <2>4. SrvTyped'
      BY <1>1, <1>2, <2>1, <2>3 DEF SrvTyped
    <2> QED
      BY <1>1, <1>2, <2>1, <2>2, <2>4
  <1> QED
    BY <1>3, <1>4

\* An id is taken out of the table, or the call is refused.
LEMMA RouteRemoveIs ==
    ASSUME SrvTyped, NEW task \in Guards, NEW w, NEW g, NEW x, NEW of, RouteRemove(task, w, g, x, of)
    PROVE  /\ SrvTyped' /\ srv' = srv /\ seq' = seq /\ (spoiled => spoiled') /\ (~Available => table' = table)
           /\ \A id \in DOMAIN table' : id \in DOMAIN table /\ table'[id] = table[id]
           /\ ~RemoveAnswer(w, g, x) => spoiled'
           /\ ~spoiled' => /\ Available /\ g = srv.gen /\ of = srv.gen
                           /\ Shrinks(table, table', x)
  <1>1. /\ srv' = srv /\ seq' = seq /\ guard' \in Guards
        /\ spoiled' = (spoiled \/ ~RemoveAnswer(w, g, x) \/ of # srv.gen)
    BY DEF RouteRemove, SrvTyped
  <1>2. spoiled' \in BOOLEAN
    BY <1>1 DEF SrvTyped
  <1>3. CASE Admits(w, g)
    <2>1. table' = [i \in DOMAIN table \ {x} |-> table[i]] /\ Available /\ g = srv.gen
      BY <1>3 DEF RouteRemove, Admits
    <2>2. SrvTyped'
      BY <1>1, <1>2, <2>1 DEF SrvTyped
    <2>3. ~spoiled' => x \in DOMAIN table
      BY <1>1 DEF RemoveAnswer
    <2>4. ~spoiled' => Shrinks(table, table', x)
      BY <2>1, <2>3 DEF Shrinks
    <2>5. \A id \in DOMAIN table' : id \in DOMAIN table /\ table'[id] = table[id]
      BY <2>1
    <2> QED
      BY <1>1, <2>1, <2>2, <2>4, <2>5
  <1>4. CASE ~Admits(w, g)
    <2>1. table' = table
      BY <1>4 DEF RouteRemove
    <2>2. SrvTyped'
      BY <1>1, <1>2, <2>1 DEF SrvTyped
    <2> QED
      BY <1>1, <1>4, <2>1, <2>2 DEF RemoveAnswer
  <1> QED
    BY <1>3, <1>4

OfSomeone(T) == \A id \in DOMAIN T : IsRpc(T, id) \/ T[id][1] \in Resource

\* What a call of std.rest-server leaves alone.
CallKeeps ==
    /\ SrvTyped' /\ srv' = srv /\ (spoiled => spoiled') /\ (~Available => table' = table)
    /\ OfSomeone(table')
    /\ Available /\ ~spoiled' => \A id : IsRpc(table', id) <=> IsRpc(table, id)

LEMMA NothingCalled ==
    ASSUME SrvTyped, OfSomeone(table), UNCHANGED srvVars
    PROVE  CallKeeps
  <1>1. srv' = srv /\ table' = table /\ seq' = seq /\ guard' = guard /\ spoiled' = spoiled
    BY DEF srvVars
  <1>2. SrvTyped'
    BY <1>1 DEF SrvTyped
  <1> QED
    BY <1>1, <1>2 DEF CallKeeps

LEMMA TaskTyped ==
    ASSUME NEW j \in Job
    PROVE  Task(j) \in Guards
  BY DEF Task, Guards

LEMMA BecomesSets ==
    ASSUME JobsTyped(jobs), NEW j \in Job, NEW job, Becomes(j, job)
    PROVE  /\ Sets(jobs, jobs', j, job) /\ DOMAIN jobs' = Job
           /\ job \in Adding \cup {Idle} \/ (j = "invoke" /\ job \in Removing) => (j \in Worker => JobsTyped(jobs'))
           /\ job \in Stopping \cup {Idle} => (j = "stop" => JobsTyped(jobs'))
  <1>1. DOMAIN jobs = Job
    BY DEF JobsTyped
  <1>2. jobs' = [jobs EXCEPT ![j] = job]
    BY DEF Becomes
  <1>3. jobs'[j] = job /\ (\A k \in Job \ {j} : jobs'[k] = jobs[k]) /\ DOMAIN jobs' = Job
    BY <1>1, <1>2
  <1>4. Job = {"invoke", "sink", "stop"} /\ Worker = {"invoke", "sink"}
    BY DEF Job, Worker
  <1> QED
    BY <1>3, <1>4 DEF JobsTyped, Sets

Answers(j, a, route) ==
    \/ a = 0 /\ table' = table /\ seq' = seq
    \/ a = seq + 1 /\ seq' = seq + 1 /\ Available /\ Grows(table, table', seq + 1, route)

\* The next route.add of a job.
LEMMA AddsIs ==
    ASSUME Typed, OfSomeone(table), NEW j \in Worker, NEW job \in Adding, Len(job.ids) < Size[job.res], Adds(j, job)
    PROVE  /\ CallKeeps /\ JobsTyped(jobs') /\ spoiled' = spoiled
           /\ \E a \in Nat : /\ Sets(jobs, jobs', j, [job EXCEPT !.ans = a])
                             /\ a # 0 => job.gen = srv.gen
                             /\ Answers(j, a, <<job.res, Len(job.ids) + 1>>)
  <1> DEFINE route == Routes(job.res)[Len(job.ids) + 1]
             a == AddAnswer("rest", job.gen, route)
             next == [job EXCEPT !.ans = a]
  <1>1. job.res \in Resource /\ job.ids \in Seq(Nat) /\ Len(job.ids) \in Nat /\ Size[job.res] \in Nat
    BY DEF Adding
  <1>2. route = <<job.res, Len(job.ids) + 1>>
    <2>1. Len(job.ids) + 1 \in 1 .. Size[job.res]
      BY <1>1
    <2> QED
      BY <2>1 DEF Routes
  <1>3. SrvTyped /\ JobsTyped(jobs) /\ j \in Job /\ Task(j) \in Guards
    BY TaskTyped DEF Typed, RestTyped, Worker, Job
  <1>4. RouteAdd(Task(j), "rest", job.gen, route) /\ Becomes(j, next)
    BY DEF Adds
  <1>5. /\ SrvTyped' /\ srv' = srv /\ spoiled' = spoiled /\ a \in Nat
        /\ \/ a = 0 /\ table' = table /\ seq' = seq
           \/ /\ a = seq + 1 /\ seq' = seq + 1 /\ Available /\ job.gen = srv.gen
              /\ Grows(table, table', seq + 1, route)
    BY <1>3, <1>4, RouteAddIs
  <1> HIDE DEF a, route
  <1>6. Answers(j, a, <<job.res, Len(job.ids) + 1>>) /\ (a # 0 => job.gen = srv.gen)
    BY <1>2, <1>5 DEF Answers
  <1>7. next \in Adding
    BY <1>5 DEF Adding
  <1>8. Sets(jobs, jobs', j, next) /\ JobsTyped(jobs')
    BY <1>3, <1>4, <1>7, BecomesSets
  <1>9. route # RpcRoute /\ route[1] \in Resource
    BY <1>1, <1>2 DEF RpcRoute
  <1>10. seq + 1 \notin DOMAIN table
    BY <1>3 DEF SrvTyped
  <1>11. OfSomeone(table') /\ \A id : IsRpc(table', id) <=> IsRpc(table, id)
    <2>1. CASE table' = table
      BY <2>1
    <2>2. CASE Grows(table, table', seq + 1, route)
      BY <1>9, <1>10, <2>2 DEF Grows, IsRpc, OfSomeone
    <2> QED
      BY <1>5, <2>1, <2>2
  <1>12. CallKeeps
    BY <1>5, <1>11 DEF CallKeeps
  <1> QED
    BY <1>5, <1>6, <1>8, <1>12

\* What NextRecord and the other calls are proved from: the job is set to K0's and has no answer.
LEMMA AddsGood ==
    ASSUME Typed, OfSomeone(table), NEW j \in Worker, NEW job \in Adding, Len(job.ids) < Size[job.res], Adds(j, job),
           job.op = "add", NEW M, NEW K, Shape(M, K, table, seq), Good(M, K, table, seq, srv.gen),
           Sets(jobs, K, j, [job EXCEPT !.ans = 0])
    PROVE  Good(M, jobs', table', seq', srv.gen)
  <1>1. PICK a \in Nat : /\ Sets(jobs, jobs', j, [job EXCEPT !.ans = a])
                         /\ a # 0 => job.gen = srv.gen
                         /\ Answers(j, a, <<job.res, Len(job.ids) + 1>>)
    BY AddsIs
  <1>2. Sets(K, jobs', j, [K[j] EXCEPT !.ans = a])
    BY <1>1 DEF Sets, Adding
  <1>3. K[j].op = "add" /\ K[j].ans = 0 /\ K[j].res = job.res /\ K[j].ids = job.ids /\ K[j].gen = job.gen
    BY DEF Sets, Adding
  <1>4. jobs'[j] = [K[j] EXCEPT !.ans = a] /\ Sets(K, jobs', j, jobs'[j])
    BY <1>2 DEF Sets
  <1>5. \/ a = 0 /\ table' = table /\ seq' = seq
        \/ /\ a = seq + 1 /\ seq' = seq + 1 /\ K[j].gen = srv.gen
           /\ Grows(table, table', seq + 1, <<K[j].res, Len(K[j].ids) + 1>>)
    <2>1. seq + 1 # 0
      BY DEF Shape
    <2> QED
      BY <1>1, <1>3, <2>1 DEF Answers
  <1> QED
    BY <1>3, <1>4, <1>5, JobCalls

\* remountAll() takes the next record, or the job ends.
LEMMA NextRecordIs ==
    ASSUME Typed, OfSomeone(table), NEW j \in Worker, NEW g \in 0 .. MaxGen, NEW more \in SUBSET ToDo, NextRecord(j, g, more)
    PROVE  /\ CallKeeps /\ JobsTyped(jobs') /\ spoiled' = spoiled /\ Sets(jobs, jobs', j, jobs'[j])
           /\ \/ jobs'[j] = Idle /\ more = {}
              \/ more # {} /\ jobs'[j].op = "add" /\ jobs'[j].of = g /\ jobs'[j].gen = g
  <1>1. SrvTyped /\ JobsTyped(jobs) /\ j \in Job
    BY DEF Typed, RestTyped, Worker, Job
  <1>2. CASE more = {}
    <2>1. Becomes(j, Idle) /\ UNCHANGED srvVars
      BY <1>2 DEF NextRecord
    <2>2. CallKeeps /\ spoiled' = spoiled
      BY <1>1, <2>1, NothingCalled DEF srvVars
    <2>3. Sets(jobs, jobs', j, Idle) /\ JobsTyped(jobs')
      BY <1>1, <2>1, BecomesSets
    <2> QED
      BY <1>2, <2>2, <2>3 DEF Sets
  <1>3. CASE more # {}
    <2>1. PICK m \in more : Adds(j, [AddJob(m.res, g, more \ {m}) EXCEPT !.stamp = m.stamp])
      BY <1>3 DEF NextRecord
    <2> DEFINE job == [AddJob(m.res, g, more \ {m}) EXCEPT !.stamp = m.stamp]
    <2>2. m \in ToDo /\ more \ {m} \in SUBSET ToDo
      OBVIOUS
    <2>3. job \in Adding /\ job.op = "add" /\ job.of = g /\ job.gen = g /\ job.ids = <<>> /\ job.res = m.res
      <3>1. job = [op |-> "add", res |-> m.res, gen |-> g, of |-> g, ids |-> <<>>, ans |-> 0, more |-> more \ {m},
                   stamp |-> m.stamp]
        <4>1. PICK s : s = stamps + 1
          OBVIOUS
        <4>2. PICK b : b = [op |-> "add", res |-> m.res, gen |-> g, of |-> g, ids |-> <<>>, ans |-> 0,
                            more |-> more \ {m}, stamp |-> s]
          OBVIOUS
        <4>3. AddJob(m.res, g, more \ {m}) = b
          BY <4>1, <4>2 DEF AddJob
        <4>4. job = [b EXCEPT !.stamp = m.stamp]
          BY <4>3
        <4> HIDE DEF job
        <4> QED
          BY <4>2, <4>4
      <3>2. m.res \in Resource /\ m.stamp \in Nat /\ <<>> \in Seq(Nat)
        BY <2>2, EmptySeq DEF ToDo
      <3> HIDE DEF job
      <3> QED
        BY <2>2, <3>1, <3>2 DEF Adding
    <2>4. Len(job.ids) < Size[job.res]
      BY <2>2, <2>3 DEF ToDo
    <2> HIDE DEF job
    <2>5. /\ CallKeeps /\ JobsTyped(jobs') /\ spoiled' = spoiled
          /\ \E a \in Nat : Sets(jobs, jobs', j, [job EXCEPT !.ans = a])
      BY <2>1, <2>3, <2>4, AddsIs DEF job
    <2>6. PICK a \in Nat : Sets(jobs, jobs', j, [job EXCEPT !.ans = a])
      BY <2>5
    <2>7. jobs'[j].op = "add" /\ jobs'[j].of = g /\ jobs'[j].gen = g /\ Sets(jobs, jobs', j, jobs'[j])
      BY <2>3, <2>6 DEF Sets, Adding
    <2> QED
      BY <1>3, <2>5, <2>7
  <1> QED
    BY <1>2, <1>3

LEMMA NextRecordGood ==
    ASSUME Typed, OfSomeone(table), NEW j \in Worker, NEW g \in 0 .. MaxGen, NEW more \in SUBSET ToDo, NextRecord(j, g, more),
           NEW M, NEW K, Shape(M, K, table, seq), Good(M, K, table, seq, srv.gen), Sets(jobs, K, j, Idle), DOMAIN K = Job,
           j = "invoke" => more = {},
           j = "sink" => g = srv.gen /\ \A m \in more : Old(M, srv.gen, m)
    PROVE  Good(M, jobs', table', seq', srv.gen)
  <1>1. j \in Job /\ JobsTyped(jobs) /\ K[j] = Idle /\ Idle.op = "idle" /\ ~Putting(Idle) /\ ~Taking(Idle)
    BY DEF Typed, RestTyped, Worker, Job, Idle, Sets, Putting, Taking
  <1>2. CASE more = {}
    <2>1. Becomes(j, Idle) /\ UNCHANGED srvVars
      BY <1>2 DEF NextRecord
    <2>2. Sets(jobs, jobs', j, Idle)
      BY <1>1, <2>1, BecomesSets
    <2>3. Sets(K, jobs', j, jobs'[j]) /\ jobs'[j] = Idle
      BY <2>2 DEF Sets
    <2>4. j = "sink" => SinkGood(M, jobs'[j], srv.gen)
      BY <1>1, <2>3 DEF SinkGood
    <2>5. Good(M, jobs', table, seq, srv.gen)
      BY <1>1, <2>3, <2>4, JobTurns
    <2> QED
      BY <2>1, <2>5 DEF srvVars
  <1>3. CASE more # {}
    <2>1. PICK m \in more : Adds(j, [AddJob(m.res, g, more \ {m}) EXCEPT !.stamp = m.stamp])
      BY <1>3 DEF NextRecord
    <2>2. j = "sink"
      BY <1>3 DEF Worker
    <2> DEFINE job == [AddJob(m.res, g, more \ {m}) EXCEPT !.stamp = m.stamp]
    <2>3. m \in ToDo /\ more \ {m} \in SUBSET ToDo
      OBVIOUS
    <2>4. /\ job \in Adding /\ job.op = "add" /\ job.of = g /\ job.gen = g /\ job.ids = <<>> /\ job.res = m.res
          /\ job.stamp = m.stamp /\ job.more = more \ {m} /\ job.ans = 0
      <3>1. PICK s : s = stamps + 1
        OBVIOUS
      <3>2. PICK b : b = [op |-> "add", res |-> m.res, gen |-> g, of |-> g, ids |-> <<>>, ans |-> 0,
                          more |-> more \ {m}, stamp |-> s]
        OBVIOUS
      <3>3. AddJob(m.res, g, more \ {m}) = b
        BY <3>1, <3>2 DEF AddJob
      <3>4. job = [b EXCEPT !.stamp = m.stamp]
        BY <3>3
      <3>5. m.res \in Resource /\ m.stamp \in Nat /\ <<>> \in Seq(Nat)
        BY <2>3, EmptySeq DEF ToDo
      <3> HIDE DEF job
      <3> QED
        BY <2>3, <3>2, <3>4, <3>5 DEF Adding
    <2>5. Len(job.ids) < Size[job.res]
      BY <2>3, <2>4 DEF ToDo
    <2> HIDE DEF job
    <2> DEFINE L == [K EXCEPT ![j] = job]
    <2>6. [job EXCEPT !.ans = 0] = job
      BY <2>4 DEF Adding
    <2>7. Sets(jobs, L, j, [job EXCEPT !.ans = 0]) /\ Sets(K, L, j, L[j]) /\ L[j] = job /\ DOMAIN L = Job
      BY <1>1, <2>6 DEF Sets
    <2> HIDE DEF L
    <2>8. L["invoke"] = K["invoke"] /\ L["stop"] = K["stop"] /\ L["sink"] = job
      BY <2>2, <2>7 DEF Sets, Job
    <2>9. Shape(M, L, table, seq)
      <3>1. JobsTyped(L)
        BY <2>4, <2>7, <2>8 DEF Shape, JobsTyped
      <3>2. Paired(M, L)
        BY <2>4, <2>8 DEF Shape, Paired, Worker
      <3> QED
        BY <3>1, <3>2 DEF Shape
    <2>10. SinkGood(M, job, srv.gen)
      <3>1. Old(M, srv.gen, job)
        BY <2>2, <2>4 DEF Old
      <3>2. ASSUME NEW k \in more \ {m}
            PROVE  Old(M, srv.gen, k) /\ k.res # m.res
        <4>1. Old(M, srv.gen, k) /\ Old(M, srv.gen, m)
          BY <2>2
        <4>2. k.res = m.res => k.stamp = m.stamp
          BY <4>1 DEF Old
        <4>3. k \in ToDo /\ m \in ToDo /\ k # m
          OBVIOUS
        <4>4. k.res = m.res => k = m
          BY <4>2, <4>3 DEF ToDo
        <4> QED
          BY <4>1, <4>3, <4>4
      <3> QED
        BY <2>2, <2>4, <3>1, <3>2 DEF SinkGood
    <2>11. Good(M, L, table, seq, srv.gen)
      <3>1. ~Taking(L[j]) /\ ~Putting(K[j]) /\ L[j].ans = 0 /\ L[j].ids = <<>> /\ L[j].res \in Resource
        BY <1>1, <2>4, <2>7 DEF Taking, Adding
      <3> QED
        BY <2>7, <2>10, <3>1, JobTurns
    <2> QED
      BY <2>1, <2>4, <2>5, <2>7, <2>9, <2>11, AddsGood DEF job
  <1> QED
    BY <1>2, <1>3

\* The next route.remove of an undoing job or of stop().
LEMMA UndoesIs ==
    ASSUME Typed, OfSomeone(table), NEW j \in Job, NEW job, job.ids \in Seq(Nat), Undoes(j, job),
           Available /\ ~spoiled /\ job.of = srv.gen => \A id : Has(job, id) => Past(table, seq, id)
    PROVE  /\ CallKeeps /\ seq' = seq
           /\ \/ job.ids = <<>> /\ Becomes(j, job) /\ UNCHANGED srvVars
              \/ /\ job.ids # <<>> /\ Becomes(j, [job EXCEPT !.ids = Tail(job.ids)])
                 /\ ~spoiled' => job.gen = srv.gen /\ job.of = srv.gen /\ Shrinks(table, table', Head(job.ids))
  <1>1. SrvTyped
    BY DEF Typed
  <1>2. CASE job.ids = <<>>
    <2>1. Becomes(j, job) /\ UNCHANGED srvVars
      BY <1>2 DEF Undoes
    <2>2. CallKeeps
      BY <1>1, <2>1, NothingCalled
    <2> QED
      BY <1>2, <2>1, <2>2 DEF srvVars
  <1>3. CASE job.ids # <<>>
    <2> DEFINE x == Head(job.ids)
    <2>1. RouteRemove(Task(j), "rest", job.gen, x, job.of) /\ Becomes(j, [job EXCEPT !.ids = Tail(job.ids)])
      BY <1>3 DEF Undoes
    <2>2. Has(job, x)
      <3>1. TailFacts(job.ids, Tail(job.ids))
        BY <1>3, TailIs
      <3> QED
        BY <3>1 DEF TailFacts, Has, In
    <2> HIDE DEF x
    <2>3. /\ SrvTyped' /\ srv' = srv /\ seq' = seq /\ (spoiled => spoiled') /\ (~Available => table' = table)
          /\ \A id \in DOMAIN table' : id \in DOMAIN table /\ table'[id] = table[id]
          /\ ~spoiled' => /\ Available /\ job.gen = srv.gen /\ job.of = srv.gen
                          /\ Shrinks(table, table', x)
      BY <1>1, <2>1, TaskTyped, RouteRemoveIs
    <2>4. OfSomeone(table')
      BY <2>3 DEF OfSomeone, IsRpc
    <2>5. Available /\ ~spoiled' => \A id : IsRpc(table', id) <=> IsRpc(table, id)
      <3> SUFFICES ASSUME Available, ~spoiled'
                   PROVE  \A id : IsRpc(table', id) <=> IsRpc(table, id)
        OBVIOUS
      <3>1. ~IsRpc(table, x) /\ Shrinks(table, table', x)
        BY <2>2, <2>3 DEF Past
      <3> QED
        BY <3>1 DEF Shrinks, IsRpc
    <2> QED
      BY <1>3, <2>1, <2>3, <2>4, <2>5 DEF CallKeeps, x
  <1> QED
    BY <1>2, <1>3

\* The next route.remove of resource.unmount.
LEMMA RemovesIs ==
    ASSUME Typed, OfSomeone(table), NEW r \in DOMAIN mounts, mounts[r].ids # <<>>, NEW g \in 0 .. MaxGen, Removes(r, g),
           Available /\ ~spoiled /\ mounts[r].gen = srv.gen => \A id : Has(mounts[r], id) => Past(table, seq, id)
    PROVE  /\ CallKeeps /\ seq' = seq /\ RecordsTyped(mounts') /\ JobsTyped(jobs')
           /\ mounts' = [mounts EXCEPT ![r].ids = Tail(mounts[r].ids)]
           /\ Sets(jobs, jobs', "invoke", jobs'["invoke"]) /\ jobs'["invoke"].op = "remove" /\ jobs'["invoke"].res = r
           /\ ~jobs'["invoke"].ok => spoiled'
           /\ ~spoiled' => mounts[r].gen = srv.gen /\ Shrinks(table, table', Head(mounts[r].ids))
  <1> DEFINE x == Head(mounts[r].ids)
             job == [op |-> "remove", res |-> r, gen |-> g, id |-> x, ok |-> RemoveAnswer("rest", g, x)]
  <1>1. SrvTyped /\ JobsTyped(jobs) /\ RecordsTyped(mounts) /\ mounts[r] \in Record /\ "invoke" \in Job /\ r \in Resource
    BY DEF Typed, RestTyped, RecordsTyped, Job
  <1>2. RouteRemove(Task("invoke"), "rest", g, x, mounts[r].gen) /\ Becomes("invoke", job)
        /\ mounts' = [mounts EXCEPT ![r].ids = Tail(mounts[r].ids)]
    BY DEF Removes
  <1>3. TailFacts(mounts[r].ids, Tail(mounts[r].ids))
    BY <1>1, TailIs DEF Record
  <1>4. Has(mounts[r], x) /\ x \in Nat /\ Tail(mounts[r].ids) \in Seq(Nat)
    BY <1>3 DEF TailFacts, Has, In
  <1> HIDE DEF x
  <1>5. /\ SrvTyped' /\ srv' = srv /\ seq' = seq /\ (spoiled => spoiled') /\ (~Available => table' = table)
        /\ \A id \in DOMAIN table' : id \in DOMAIN table /\ table'[id] = table[id]
        /\ ~RemoveAnswer("rest", g, x) => spoiled'
        /\ ~spoiled' => /\ Available /\ g = srv.gen /\ mounts[r].gen = srv.gen
                        /\ Shrinks(table, table', x)
    BY <1>1, <1>2, TaskTyped, RouteRemoveIs
  <1>6. OfSomeone(table')
    BY <1>5 DEF OfSomeone, IsRpc
  <1>7. Available /\ ~spoiled' => \A id : IsRpc(table', id) <=> IsRpc(table, id)
    <2> SUFFICES ASSUME Available, ~spoiled'
                 PROVE  \A id : IsRpc(table', id) <=> IsRpc(table, id)
      OBVIOUS
    <2>1. ~IsRpc(table, x) /\ Shrinks(table, table', x)
      BY <1>4, <1>5 DEF Past
    <2> QED
      BY <2>1 DEF Shrinks, IsRpc
  <1>8. job \in Removing
    BY <1>1, <1>4 DEF Removing, RemoveAnswer
  <1>9. Sets(jobs, jobs', "invoke", job) /\ JobsTyped(jobs')
    BY <1>1, <1>2, <1>8, BecomesSets DEF Worker
  <1>10. jobs'["invoke"] = job
    BY <1>9 DEF Sets
  <1>11. RecordsTyped(mounts')
    BY <1>1, <1>2, <1>4 DEF RecordsTyped, Record
  <1> QED
    BY <1>2, <1>5, <1>6, <1>7, <1>9, <1>10, <1>11 DEF CallKeeps, x

-----------------------------------------------------------------------------
(* The jobs of std.rest-server                                             *)

LEMMA ShapeIs ==
    ASSUME MountsInv
    PROVE  /\ Typed /\ Shape(mounts, jobs, table, seq) /\ OfSomeone(table)
           /\ Available /\ ~spoiled => Good(mounts, jobs, table, seq, srv.gen)
  BY DEF MountsInv, Typed, SrvTyped, RestTyped, RestInv, RestSteady, RestGood, Shape, OfSomeone

LEMMA NobodyTold ==
    ASSUME Calm
    PROVE  \A w : ~In(w, telling)
  BY DEF Calm, In

\* A continuation keeps the invariant if it keeps these parts.
LEMMA StepSteady ==
    ASSUME MountsInv, CallKeeps, Calm, UNCHANGED <<rest, rackVars>>, stamps' = stamps \/ stamps' \in 0 .. MaxMount,
           RecordsTyped(mounts'), JobsTyped(jobs'), Paired(mounts', jobs'),
           jobs'["stop"].op = "idle" <=> jobs["stop"].op = "idle",
           \A r \in DOMAIN mounts' :
              /\ mounts'[r].gen <= srv.gen
              /\ ~spoiled' => (Taking(jobs'["invoke"]) /\ jobs'["invoke"].res = r) \/ Len(mounts'[r].ids) = Size[r],
           Taking(jobs'["invoke"]) => jobs'["invoke"].ok \/ spoiled',
           \A j \in Worker : Putting(jobs'[j]) => jobs'[j].of = jobs'[j].gen /\ jobs'[j].gen <= srv.gen,
           Available /\ ~spoiled' => Good(mounts', jobs', table', seq', srv.gen)
    PROVE  RestTyped' /\ RestInv'
  <1>1. RestTyped'
    BY DEF MountsInv, Typed, RestTyped
  <1>2. srv' = srv /\ (spoiled => spoiled') /\ life' = life /\ telling' = telling /\ rest' = rest
    BY DEF CallKeeps, rackVars
  <1>3. \A w : ~In(w, telling')
    BY <1>2, NobodyTold
  <1>4. RestSteady'
    BY <1>2, <1>3 DEF MountsInv, RestInv, RestSteady, Running, Being, CallKeeps, OfSomeone, Available
  <1>5. Available' /\ ~spoiled' => RestGood'
    BY <1>2, <1>3 DEF RestGood, Available
  <1> QED
    BY <1>1, <1>4, <1>5 DEF RestInv

\* The same for a step of an addition or its undoing that leaves the records alone.
LEMMA WorkerSteady ==
    ASSUME MountsInv, CallKeeps, Calm, UNCHANGED <<rest, mounts, stamps, rackVars>>, NEW j \in Worker,
           Sets(jobs, jobs', j, jobs'[j]), JobsTyped(jobs'), Putting(jobs[j]),
           \/ jobs'[j] = Idle
           \/ /\ Putting(jobs'[j]) /\ jobs'[j].of = jobs'[j].gen /\ jobs'[j].gen <= srv.gen
              /\ jobs'[j].op = "undo" => jobs'[j].ans = 0
              /\ j = "invoke" => jobs'[j].res = jobs[j].res /\ jobs'[j].more = jobs[j].more,
           Available /\ ~spoiled' => Good(mounts, jobs', table', seq', srv.gen)
    PROVE  RestTyped' /\ RestInv'
  <1>1. \A k \in Job \ {j} : jobs'[k] = jobs[k]
    BY DEF Sets
  <1>2. jobs'["stop"] = jobs["stop"] /\ \A k \in Worker \ {j} : jobs'[k] = jobs[k]
    BY <1>1 DEF Worker, Job
  <1>3. Idle.op = "idle"
    BY DEF Idle
  <1>4. Taking(jobs'["invoke"]) => j # "invoke" /\ jobs'["invoke"] = jobs["invoke"]
    BY <1>2, <1>3 DEF Taking, Putting, Worker
  <1>5. Taking(jobs["invoke"]) => j # "invoke" /\ jobs'["invoke"] = jobs["invoke"]
    BY <1>2 DEF Taking, Putting, Worker
  <1>6. Paired(mounts, jobs) /\ RestSteady /\ RecordsTyped(mounts) /\ (spoiled => spoiled')
    BY DEF MountsInv, RestInv, Typed, RestTyped, CallKeeps
  <1>7. Putting(jobs'["invoke"]) => jobs'["invoke"].res \notin DOMAIN mounts /\ jobs'["invoke"].more = {}
    <2>1. CASE j = "invoke"
      BY <1>3, <1>6, <2>1 DEF Paired, Putting
    <2>2. CASE j # "invoke"
      BY <1>2, <1>6, <2>2 DEF Paired, Worker
    <2> QED
      BY <2>1, <2>2
  <1>8. \A k \in Worker : jobs'[k].op = "undo" => jobs'[k].ans = 0
    BY <1>2, <1>3, <1>6 DEF Paired
  <1>9. Paired(mounts', jobs')
    BY <1>4, <1>6, <1>7, <1>8 DEF Paired
  <1>10. \A r \in DOMAIN mounts' :
            /\ mounts'[r].gen <= srv.gen
            /\ ~spoiled' => (Taking(jobs'["invoke"]) /\ jobs'["invoke"].res = r) \/ Len(mounts'[r].ids) = Size[r]
    BY <1>5, <1>6 DEF RestSteady, Being
  <1>11. Taking(jobs'["invoke"]) => jobs'["invoke"].ok \/ spoiled'
    BY <1>4, <1>6 DEF RestSteady
  <1>12. \A k \in Worker : Putting(jobs'[k]) => jobs'[k].of = jobs'[k].gen /\ jobs'[k].gen <= srv.gen
    BY <1>2, <1>3, <1>6 DEF RestSteady, Putting
  <1> QED
    BY <1>2, <1>6, <1>9, <1>10, <1>11, <1>12, StepSteady

\* The job set to another one, for which the parts of the invariant hold.
LEMMA ShapeSets ==
    ASSUME NEW M, NEW J, NEW T, NEW n, Shape(M, J, T, n), NEW j \in Worker, NEW job \in Adding \cup {Idle},
           Putting(job) /\ j = "invoke" => job.res \notin DOMAIN M /\ job.more = {},
           job.op = "undo" => job.ans = 0
    PROVE  Shape(M, [J EXCEPT ![j] = job], T, n)
  <1> DEFINE K == [J EXCEPT ![j] = job]
  <1>1. DOMAIN J = Job /\ Worker \subseteq Job /\ Job = {"invoke", "sink", "stop"} /\ Worker = {"invoke", "sink"}
    BY DEF Shape, JobsTyped, Job, Worker
  <1>2. K[j] = job /\ DOMAIN K = Job /\ \A k \in Job \ {j} : K[k] = J[k]
    BY <1>1
  <1>3. ~Taking(job)
    BY DEF Taking, Adding, Idle
  <1> HIDE DEF K
  <1>4. JobsTyped(K)
    BY <1>1, <1>2 DEF Shape, JobsTyped
  <1>5. Paired(M, K)
    BY <1>1, <1>2, <1>3 DEF Shape, Paired
  <1> QED
    BY <1>4, <1>5 DEF Shape, K

LEMMA PuttingIs ==
    ASSUME MountsInv, NEW j \in Worker, Putting(jobs[j])
    PROVE  /\ jobs[j] \in Adding /\ jobs[j].res \in Resource /\ jobs[j].ids \in Seq(Nat) /\ Len(jobs[j].ids) \in Nat
           /\ jobs[j].ans \in Nat /\ jobs[j].of = jobs[j].gen /\ jobs[j].gen <= srv.gen /\ jobs[j].gen \in 0 .. MaxGen
           /\ jobs[j].more \in SUBSET ToDo
           /\ jobs[j].op = "undo" => jobs[j].ans = 0
           /\ j = "invoke" => jobs[j].res \notin DOMAIN mounts /\ jobs[j].more = {}
  <1>1. jobs[j] \in Adding
    BY JobTypes DEF MountsInv, Typed, RestTyped
  <1> QED
    BY <1>1 DEF MountsInv, RestInv, RestSteady, Paired, Adding

LEMMA AddGoesOnKeeps ==
    ASSUME MountsInv, NEW j \in Worker, AddGoesOn(j)
    PROVE  CallKeeps /\ RestTyped' /\ RestInv'
  <1> DEFINE old == jobs[j]
             job == [old EXCEPT !.ids = Append(old.ids, old.ans)]
             next == [job EXCEPT !.ans = 0]
             K == [jobs EXCEPT ![j] = next]
  <1>1. /\ Calm /\ old.op = "add" /\ old.ans # 0 /\ Len(old.ids) + 1 < Size[old.res] /\ Adds(j, job)
        /\ UNCHANGED <<rest, mounts, stamps, rackVars>>
    BY DEF AddGoesOn, Answered
  <1>2. /\ Putting(old) /\ old \in Adding /\ old.res \in Resource /\ old.ids \in Seq(Nat) /\ Len(old.ids) \in Nat
        /\ old.ans \in Nat /\ old.of = old.gen /\ old.gen <= srv.gen
        /\ j = "invoke" => old.res \notin DOMAIN mounts /\ old.more = {}
    BY <1>1, PuttingIs DEF Putting
  <1>3. Typed /\ Shape(mounts, jobs, table, seq) /\ OfSomeone(table)
    BY ShapeIs
  <1>4. AppendFacts(old.ids, old.ans, Append(old.ids, old.ans))
    BY <1>2, AppendIs
  <1>5. /\ job \in Adding /\ job.op = "add" /\ Len(job.ids) < Size[job.res] /\ job.res = old.res /\ job.more = old.more
        /\ job.of = old.of /\ job.gen = old.gen
    BY <1>1, <1>2, <1>4 DEF AppendFacts, Adding
  <1>6. next \in Adding /\ next = [old EXCEPT !.ids = Append(old.ids, old.ans), !.ans = 0] /\ next.op = "add" /\ next.res = old.res /\ next.more = old.more
    BY <1>2, <1>5 DEF Adding
  <1> HIDE DEF job, next
  <1>7. /\ CallKeeps /\ JobsTyped(jobs') /\ spoiled' = spoiled
        /\ \E a \in Nat : Sets(jobs, jobs', j, [job EXCEPT !.ans = a])
    BY <1>1, <1>3, <1>5, AddsIs DEF job
  <1>8. PICK a \in Nat : Sets(jobs, jobs', j, [job EXCEPT !.ans = a])
    BY <1>7
  <1>9. /\ Sets(jobs, jobs', j, jobs'[j]) /\ Putting(jobs'[j]) /\ jobs'[j].of = jobs'[j].gen /\ jobs'[j].gen <= srv.gen
        /\ jobs'[j].op # "undo" /\ jobs'[j].res = old.res /\ jobs'[j].more = old.more
    BY <1>2, <1>5, <1>8 DEF Sets, Putting, Adding
  <1>10. K[j] = next /\ Sets(jobs, K, j, K[j])
    BY <1>3 DEF Shape, JobsTyped, Sets, Worker, Job
  <1>11. Shape(mounts, K, table, seq)
    BY <1>2, <1>3, <1>6, ShapeSets
  <1> HIDE DEF K
  <1>12. ASSUME Available, ~spoiled'
         PROVE  Good(mounts, jobs', table', seq', srv.gen)
    <2>1. Good(mounts, jobs, table, seq, srv.gen)
      BY <1>7, <1>12, ShapeIs
    <2>2. Good(mounts, K, table, seq, srv.gen)
      BY <1>1, <1>3, <1>6, <1>10, <2>1, JobCollects
    <2>3. Sets(jobs, K, j, [job EXCEPT !.ans = 0])
      BY <1>10 DEF next
    <2> QED
      BY <1>1, <1>3, <1>5, <1>11, <2>2, <2>3, AddsGood DEF job
  <1> QED
    BY <1>1, <1>2, <1>7, <1>9, <1>12, WorkerSteady

LEMMA WorkerUndoes ==
    ASSUME MountsInv, Calm, UNCHANGED <<rest, mounts, stamps, rackVars>>, NEW j \in Worker, Putting(jobs[j]), jobs[j].ans = 0,
           Undoes(j, [jobs[j] EXCEPT !.op = "undo"])
    PROVE  CallKeeps /\ RestTyped' /\ RestInv'
  <1> DEFINE old == jobs[j]
             job == [old EXCEPT !.op = "undo"]
             next == [job EXCEPT !.ids = Tail(job.ids)]
  <1>1. /\ old \in Adding /\ old.res \in Resource /\ old.ids \in Seq(Nat) /\ old.of = old.gen /\ old.gen <= srv.gen
        /\ j = "invoke" => old.res \notin DOMAIN mounts /\ old.more = {}
    BY PuttingIs
  <1>2. Typed /\ Shape(mounts, jobs, table, seq) /\ OfSomeone(table) /\ JobsTyped(jobs)
    BY ShapeIs DEF Shape
  <1>3. /\ job \in Adding /\ job.op = "undo" /\ job.ids = old.ids /\ job.res = old.res /\ job.more = old.more
        /\ job.of = old.of /\ job.gen = old.gen /\ job.ans = 0
    BY <1>1 DEF Adding
  <1>4. old.op = "undo" => job = old
    BY <1>1 DEF Adding
  <1>5. Undoes(j, job)
    OBVIOUS
  <1> HIDE DEF job
  <1>6. job.ids # <<>> => Tail(job.ids) \in Seq(Nat)
    BY <1>1, <1>3, TailIs DEF TailFacts
  <1>7. job.ids # <<>> => /\ next \in Adding /\ next.op = "undo" /\ next.ids = Tail(job.ids) /\ next.res = old.res
                          /\ next.more = old.more /\ next.of = next.gen /\ next.gen = old.gen /\ next.ans = 0
    BY <1>1, <1>3, <1>6 DEF Adding
  <1>8. j \in Job
    BY DEF Worker, Job
  <1>9. Available /\ ~spoiled => \A id : Has(job, id) => Past(table, seq, id)
    <2>1. \A id : Has(job, id) => JobHas(old, id)
      BY <1>3 DEF JobHas, Has
    <2> QED
      BY <2>1, ShapeIs DEF Good, Apart
  <1>10. /\ CallKeeps /\ seq' = seq
         /\ \/ job.ids = <<>> /\ Becomes(j, job) /\ UNCHANGED srvVars
            \/ /\ job.ids # <<>> /\ Becomes(j, next)
               /\ ~spoiled' => Shrinks(table, table', Head(job.ids))
    BY <1>1, <1>2, <1>3, <1>5, <1>8, <1>9, UndoesIs
  <1>11. PICK K : Sets(jobs, K, j, job) /\ Shape(mounts, K, table, seq)
                  /\ (Available /\ ~spoiled => Good(mounts, K, table, seq, srv.gen))
    <2>1. CASE old.op = "undo"
      BY <1>2, <1>4, <2>1, ShapeIs DEF Sets
    <2>2. CASE old.op = "add"
      <3> DEFINE L == [jobs EXCEPT ![j] = job]
      <3>1. Sets(jobs, L, j, job) /\ L[j] = job
        BY <1>2, <1>8 DEF JobsTyped, Sets
      <3>2. Shape(mounts, L, table, seq)
        BY <1>1, <1>2, <1>3, ShapeSets
      <3> HIDE DEF L
      <3>3. ~Taking(job)
        BY <1>3 DEF Taking
      <3>4. ASSUME Good(mounts, jobs, table, seq, srv.gen)
            PROVE  Good(mounts, L, table, seq, srv.gen)
        <4>1. j = "sink" => SinkGood(mounts, job, srv.gen)
          BY <1>3, <3>4 DEF Good, SinkGood, Old, Adding, job
        <4>2. L[j] = [jobs[j] EXCEPT !.op = "undo"]
          BY <3>1 DEF job
        <4>3. Sets(jobs, L, j, L[j]) /\ ~Taking(L[j]) /\ L[j].ans = 0 /\ L[j].op = "undo"
          BY <1>3, <3>1, <3>3
        <4>4. j = "sink" => SinkGood(mounts, L[j], srv.gen)
          BY <3>1, <4>1
        <4> QED
          BY <1>2, <2>2, <3>4, <4>2, <4>3, <4>4, JobTurns
      <3> QED
        BY <3>1, <3>2, <3>4, ShapeIs
    <2> QED
      BY <2>1, <2>2 DEF Putting
  <1> HIDE DEF next
  <1>12. CASE job.ids = <<>>
    <2>1. Sets(jobs, jobs', j, job) /\ JobsTyped(jobs') /\ UNCHANGED srvVars
      BY <1>2, <1>3, <1>8, <1>10, <1>12, BecomesSets
    <2>2. ASSUME Available, ~spoiled'
          PROVE  Good(mounts, jobs', table', seq', srv.gen)
      <3>1. Good(mounts, K, table, seq, srv.gen)
        BY <1>10, <1>11, <2>2 DEF CallKeeps
      <3>2. Sets(K, jobs', j, jobs'[j]) /\ K[j] = job /\ jobs'[j] = job
        BY <1>11, <2>1 DEF Sets
      <3>3. ~Taking(job) /\ K[j].ids = <<>>
        BY <1>3, <1>12, <3>2 DEF Taking
      <3>4. j = "sink" => SinkGood(mounts, job, srv.gen)
        BY <3>1, <3>2 DEF Good
      <3>5. Good(mounts, jobs', table, seq, srv.gen)
        BY <1>3, <1>11, <3>1, <3>2, <3>3, <3>4, JobTurns
      <3> QED
        BY <2>1, <3>5 DEF srvVars
    <2> QED
      BY <1>1, <1>3, <1>10, <2>1, <2>2, WorkerSteady DEF Putting, Sets
  <1>13. CASE job.ids # <<>>
    <2>1. Sets(jobs, jobs', j, next) /\ JobsTyped(jobs')
      BY <1>2, <1>7, <1>8, <1>10, <1>13, BecomesSets
    <2>2. ASSUME Available, ~spoiled'
          PROVE  Good(mounts, jobs', table', seq', srv.gen)
      <3>1. Good(mounts, K, table, seq, srv.gen)
        BY <1>10, <1>11, <2>2 DEF CallKeeps
      <3>2. Sets(K, jobs', j, [K[j] EXCEPT !.ids = Tail(K[j].ids)]) /\ K[j] = job
        BY <1>11, <2>1 DEF Sets, next
      <3>3. Shrinks(table, table', Head(K[j].ids))
        BY <1>10, <1>13, <2>2, <3>2
      <3>4. Good(mounts, jobs', table', seq, srv.gen)
        BY <1>3, <1>11, <1>13, <3>1, <3>2, <3>3, JobRemoves
      <3> QED
        BY <1>10, <3>4
    <2> QED
      BY <1>1, <1>7, <1>10, <1>13, <2>1, <2>2, WorkerSteady DEF Putting, Sets
  <1> QED
    BY <1>12, <1>13

LEMMA AddFailsKeeps ==
    ASSUME MountsInv, NEW j \in Worker, AddFails(j)
    PROVE  CallKeeps /\ RestTyped' /\ RestInv'
  <1>1. Calm /\ jobs[j].op = "add" /\ jobs[j].ans = 0 /\ UNCHANGED <<rest, mounts, stamps, rackVars>>
    BY DEF AddFails, Answered
  <1>2. jobs[j] \in Adding
    BY <1>1, PuttingIs DEF Putting
  <1>3. UndoJob(jobs[j]) = [jobs[j] EXCEPT !.op = "undo"]
    BY <1>2 DEF UndoJob, Undone, Adding
  <1>4. Undoes(j, [jobs[j] EXCEPT !.op = "undo"])
    <2>1. [jobs[j] EXCEPT !.op = "undo"].ids = jobs[j].ids
      BY <1>2 DEF Adding
    <2>2. CASE jobs[j].ids = <<>>
      BY <2>1, <2>2 DEF AddFails, Undoes
    <2>3. CASE jobs[j].ids # <<>>
      BY <1>3, <2>3 DEF AddFails
    <2> QED
      BY <2>2, <2>3
  <1> QED
    BY <1>1, <1>4, WorkerUndoes DEF Putting

LEMMA UndoGoesOnKeeps ==
    ASSUME MountsInv, NEW j \in Worker, UndoGoesOn(j)
    PROVE  CallKeeps /\ RestTyped' /\ RestInv'
  <1>1. Calm /\ jobs[j].op = "undo" /\ UNCHANGED <<rest, mounts, stamps, rackVars>> /\ Undoes(j, jobs[j])
    BY DEF UndoGoesOn, Answered
  <1>2. jobs[j] \in Adding /\ jobs[j].ans = 0 /\ Putting(jobs[j])
    BY <1>1, PuttingIs DEF Putting
  <1>3. [jobs[j] EXCEPT !.op = "undo"] = jobs[j]
    BY <1>1, <1>2 DEF Adding
  <1> QED
    BY <1>1, <1>2, <1>3, WorkerUndoes

LEMMA AddGivenUpKeeps ==
    ASSUME MountsInv, NEW j \in Worker, AddGivenUp(j)
    PROVE  CallKeeps /\ RestTyped' /\ RestInv'
  <1> DEFINE old == jobs[j]
             K == [jobs EXCEPT ![j] = Idle]
  <1>1. /\ Calm /\ old.op = "undo" /\ old.ids = <<>> /\ UNCHANGED <<rest, mounts, stamps, rackVars>>
        /\ NextRecord(j, old.gen, old.more)
    BY DEF AddGivenUp, Answered
  <1>2. /\ Putting(old) /\ old \in Adding /\ old.ans = 0 /\ old.gen \in 0 .. MaxGen /\ old.more \in SUBSET ToDo /\ old.gen <= srv.gen
        /\ j = "invoke" => old.more = {}
    BY <1>1, PuttingIs DEF Putting
  <1>3. Typed /\ Shape(mounts, jobs, table, seq) /\ OfSomeone(table) /\ JobsTyped(jobs)
    BY ShapeIs DEF Shape
  <1>4. /\ CallKeeps /\ JobsTyped(jobs') /\ spoiled' = spoiled /\ Sets(jobs, jobs', j, jobs'[j])
        /\ \/ jobs'[j] = Idle
           \/ old.more # {} /\ jobs'[j].op = "add" /\ jobs'[j].of = old.gen /\ jobs'[j].gen = old.gen
    BY <1>1, <1>2, <1>3, NextRecordIs
  <1>5. Sets(jobs, K, j, Idle) /\ K[j] = Idle /\ DOMAIN K = Job
    BY <1>3 DEF JobsTyped, Sets, Worker, Job
  <1>6. Idle.op = "idle" /\ ~Putting(Idle) /\ ~Taking(Idle)
    BY DEF Idle, Putting, Taking
  <1>7. Shape(mounts, K, table, seq)
    BY <1>3, <1>6, ShapeSets
  <1> HIDE DEF K
  <1>8. ASSUME Available, ~spoiled'
        PROVE  Good(mounts, jobs', table', seq', srv.gen)
    <2>1. Good(mounts, jobs, table, seq, srv.gen)
      BY <1>4, <1>8, ShapeIs
    <2>2. Good(mounts, K, table, seq, srv.gen)
      BY <1>1, <1>2, <1>3, <1>5, <1>6, <2>1, JobTurns DEF SinkGood
    <2>3. j = "sink" => old.gen = srv.gen /\ \A m \in old.more : Old(mounts, srv.gen, m)
      BY <1>2, <2>1 DEF Good, SinkGood
    <2> QED
      BY <1>1, <1>2, <1>3, <1>5, <1>7, <2>2, <2>3, NextRecordGood
  <1> QED
    BY <1>1, <1>2, <1>4, <1>8, WorkerSteady DEF Putting

LEMMA AddDoneKeeps ==
    ASSUME MountsInv, NEW j \in Worker, AddDone(j)
    PROVE  CallKeeps /\ RestTyped' /\ RestInv'
  <1> DEFINE old == jobs[j]
             r == old.res
             K == [jobs EXCEPT ![j] = Idle]
             ids == Append(old.ids, old.ans)
  <1>1. /\ Calm /\ old.op = "add" /\ old.ans # 0 /\ Len(old.ids) + 1 = Size[r]
        /\ UNCHANGED <<rest, stamps, rackVars>>
        /\ NextRecord(j, old.gen, old.more)
    BY DEF AddDone, Answered
  <1>2. \/ j = "invoke" /\ mounts' = [x \in DOMAIN mounts \cup {r} |->
                                        IF x = r THEN [ids |-> ids, stamp |-> old.stamp, gen |-> old.gen] ELSE mounts[x]]
        \/ j = "sink" /\ mounts' = [x \in DOMAIN mounts |->
                                      IF x = r /\ mounts[x].stamp = old.stamp
                                      THEN [mounts[x] EXCEPT !.ids = ids, !.gen = old.gen] ELSE mounts[x]]
    BY DEF AddDone
  <1>3. /\ Putting(old) /\ old \in Adding /\ old.gen \in 0 .. MaxGen /\ old.more \in SUBSET ToDo /\ old.gen <= srv.gen
        /\ old.ids \in Seq(Nat) /\ old.ans \in Nat /\ r \in Resource /\ Size[r] \in Nat /\ old.stamp \in Nat
        /\ j = "invoke" => r \notin DOMAIN mounts /\ old.more = {}
    BY <1>1, PuttingIs DEF Putting, Adding
  <1>4. Typed /\ Shape(mounts, jobs, table, seq) /\ OfSomeone(table) /\ JobsTyped(jobs) /\ RecordsTyped(mounts) /\ Paired(mounts, jobs)
    BY ShapeIs DEF Shape
  <1>5. /\ CallKeeps /\ JobsTyped(jobs') /\ spoiled' = spoiled /\ Sets(jobs, jobs', j, jobs'[j])
        /\ \/ jobs'[j] = Idle
           \/ old.more # {} /\ jobs'[j].op = "add" /\ jobs'[j].of = old.gen /\ jobs'[j].gen = old.gen
    BY <1>1, <1>3, <1>4, NextRecordIs
  <1>6. AppendFacts(old.ids, old.ans, ids)
    BY <1>3, AppendIs
  <1> HIDE DEF ids
  <1>7. ids \in Seq(Nat) /\ Len(ids) = Size[r]
    BY <1>1, <1>6 DEF AppendFacts
  <1>8. /\ \A x \in DOMAIN mounts \ {r} : x \in DOMAIN mounts' /\ mounts'[x] = mounts[x]
        /\ DOMAIN mounts' \subseteq DOMAIN mounts \cup {r} /\ DOMAIN mounts \subseteq DOMAIN mounts'
        /\ j = "sink" => DOMAIN mounts' = DOMAIN mounts
        /\ r \in DOMAIN mounts' => mounts'[r] \in Record /\
              ((mounts'[r].ids = ids /\ mounts'[r].gen = old.gen) \/ (r \in DOMAIN mounts /\ mounts'[r] = mounts[r]))
    <2>1. CASE j = "invoke"
      <3>1. mounts' = [x \in DOMAIN mounts \cup {r} |->
                                        IF x = r THEN [ids |-> ids, stamp |-> old.stamp, gen |-> old.gen] ELSE mounts[x]]
        BY <1>2, <2>1
      <3>2. [ids |-> ids, stamp |-> old.stamp, gen |-> old.gen] \in Record
        BY <1>3, <1>7 DEF Record
      <3> QED
        BY <2>1, <3>1, <3>2
    <2>2. CASE j = "sink"
      <3>1. mounts' = [x \in DOMAIN mounts |->
                                      IF x = r /\ mounts[x].stamp = old.stamp
                                      THEN [mounts[x] EXCEPT !.ids = ids, !.gen = old.gen] ELSE mounts[x]]
        BY <1>2, <2>2
      <3>2. \A x \in DOMAIN mounts : mounts[x] \in Record
        BY <1>4 DEF RecordsTyped
      <3>3. \A rec \in Record : /\ [rec EXCEPT !.ids = ids, !.gen = old.gen] \in Record
                                /\ [rec EXCEPT !.ids = ids, !.gen = old.gen].ids = ids
                                /\ [rec EXCEPT !.ids = ids, !.gen = old.gen].gen = old.gen
        BY <1>3, <1>7 DEF Record
      <3> QED
        BY <3>1, <3>2, <3>3
    <2> QED
      BY <2>1, <2>2 DEF Worker
  <1>9. RecordsTyped(mounts')
    <2>1. IsFiniteSet(DOMAIN mounts \cup {r})
      BY <1>4, FS_AddElement DEF RecordsTyped
    <2>2. IsFiniteSet(DOMAIN mounts')
      BY <1>8, <2>1, FS_Subset
    <2>3. \A x \in DOMAIN mounts' : x \in Resource /\ mounts'[x] \in Record
      BY <1>3, <1>4, <1>8 DEF RecordsTyped
    <2> QED
      BY <2>2, <2>3 DEF RecordsTyped
  <1>10. j \in Job /\ "stop" # j /\ "stop" \in Job /\ Worker = {"invoke", "sink"} /\ Worker \subseteq Job
    BY DEF Worker, Job
  <1>11. jobs'["stop"] = jobs["stop"] /\ \A k \in Worker \ {j} : jobs'[k] = jobs[k]
    BY <1>5, <1>10 DEF Sets
  <1>12. Idle.op = "idle" /\ ~Putting(Idle) /\ ~Taking(Idle) /\ ~Taking(old)
    BY <1>1 DEF Idle, Putting, Taking
  <1>13. j = "invoke" => jobs'[j] = Idle
    BY <1>3, <1>5
  <1>14. ~Taking(jobs'[j]) /\ jobs'[j].op # "undo"
    BY <1>5, <1>12 DEF Taking
  <1>15. Paired(mounts', jobs')
    <2>1. CASE j = "invoke"
      BY <1>4, <1>10, <1>11, <1>12, <1>13, <2>1 DEF Paired
    <2>2. CASE j = "sink"
      BY <1>4, <1>8, <1>10, <1>11, <1>14, <2>2 DEF Paired
    <2> QED
      BY <1>10, <2>1, <2>2
  <1>16. RestSteady /\ (spoiled => spoiled')
    BY <1>5 DEF MountsInv, RestInv
  <1>17. \A x \in DOMAIN mounts' :
            /\ mounts'[x].gen <= srv.gen
            /\ ~spoiled' => (Taking(jobs'["invoke"]) /\ jobs'["invoke"].res = x) \/ Len(mounts'[x].ids) = Size[x]
    <2> SUFFICES ASSUME NEW x \in DOMAIN mounts'
                 PROVE  /\ mounts'[x].gen <= srv.gen
                        /\ ~spoiled' => (Taking(jobs'["invoke"]) /\ jobs'["invoke"].res = x) \/ Len(mounts'[x].ids) = Size[x]
      OBVIOUS
    <2>1. Taking(jobs["invoke"]) => jobs'["invoke"] = jobs["invoke"]
      BY <1>10, <1>11, <1>12
    <2>2. CASE x \in DOMAIN mounts /\ mounts'[x] = mounts[x]
      BY <1>16, <2>1, <2>2 DEF RestSteady, Being
    <2>3. CASE x = r /\ mounts'[x].ids = ids /\ mounts'[x].gen = old.gen
      BY <1>3, <1>7, <2>3
    <2> QED
      BY <1>8, <2>2, <2>3
  <1>18. Taking(jobs'["invoke"]) => jobs'["invoke"].ok \/ spoiled'
    BY <1>10, <1>11, <1>14, <1>16 DEF RestSteady
  <1>19. \A k \in Worker : Putting(jobs'[k]) => jobs'[k].of = jobs'[k].gen /\ jobs'[k].gen <= srv.gen
    BY <1>3, <1>5, <1>11, <1>12, <1>16 DEF RestSteady
  <1>20. Sets(jobs, K, j, Idle) /\ K[j] = Idle /\ DOMAIN K = Job
    BY <1>4, <1>10 DEF JobsTyped, Sets
  <1>21. Shape(mounts, K, table, seq)
    BY <1>4, <1>12, ShapeSets
  <1> HIDE DEF K
  <1>22. ASSUME Available, ~spoiled'
         PROVE  Good(mounts', jobs', table', seq', srv.gen)
    <2>1. Good(mounts, jobs, table, seq, srv.gen)
      BY <1>5, <1>22, ShapeIs
    <2>2. /\ DOMAIN mounts' = DOMAIN mounts \cup {r} /\ \A x \in DOMAIN mounts \ {r} : mounts'[x] = mounts[x]
          /\ mounts'[r].ids = ids /\ mounts'[r].gen = old.gen
      <3>1. CASE j = "invoke"
        BY <1>2, <3>1
      <3>2. CASE j = "sink"
        <4>1. r \in DOMAIN mounts /\ mounts[r].stamp = old.stamp
          BY <1>3, <2>1, <3>2 DEF Good, SinkGood, Old
        <4>2. mounts[r] \in Record
          BY <1>4, <4>1 DEF RecordsTyped
        <4>3. mounts'[r] = [mounts[r] EXCEPT !.ids = ids, !.gen = old.gen]
          BY <1>2, <3>2, <4>1
        <4> QED
          BY <1>8, <3>2, <4>1, <4>2, <4>3 DEF Record
      <3> QED
        BY <1>10, <3>1, <3>2
    <2>3. Good(mounts', K, table, seq, srv.gen)
      BY <1>1, <1>4, <1>20, <2>1, <2>2, JobRecords DEF ids
    <2>4. Shape(mounts', K, table, seq)
      <3>1. Paired(mounts', K)
        <4>1. CASE j = "invoke"
          BY <1>10, <1>12, <1>20, <1>21, <4>1 DEF Shape, Paired, Sets
        <4>2. CASE j = "sink"
          BY <1>8, <1>21, <4>2 DEF Shape, Paired
        <4> QED
          BY <1>10, <4>1, <4>2
      <3> QED
        BY <1>9, <1>21, <3>1 DEF Shape
    <2>5. j = "sink" => old.gen = srv.gen /\ \A m \in old.more : Old(mounts', srv.gen, m)
      <3> SUFFICES ASSUME j = "sink"
                   PROVE  old.gen = srv.gen /\ \A m \in old.more : Old(mounts', srv.gen, m)
        OBVIOUS
      <3>1. old.gen = srv.gen /\ \A m \in old.more : Old(mounts, srv.gen, m) /\ m.res # r
        BY <1>3, <2>1 DEF Good, SinkGood
      <3> QED
        BY <2>2, <3>1 DEF Old
    <2> QED
      BY <1>1, <1>3, <1>4, <1>20, <2>3, <2>4, <2>5, NextRecordGood
  <1> QED
    BY <1>1, <1>5, <1>9, <1>11, <1>15, <1>17, <1>18, <1>19, <1>22, StepSteady

LEMMA CachedTyped ==
    ASSUME MountsInv
    PROVE  Cached \in [Who -> 0 .. MaxGen] /\ Cached["rest"] = rest.lease /\ Cached["rpc"] = rpc.lease
  <1>1. rest.lease \in 0 .. MaxGen
    BY DEF MountsInv, Typed, RestTyped
  <1>2. rpc.lease \in 0 .. MaxGen
    BY DEF MountsInv, Typed, RpcTyped
  <1> QED
    BY <1>1, <1>2 DEF Cached, Who

LEMMA LeaseBound ==
    ASSUME MountsInv, NEW w \in Who
    PROVE  Cached[w] \in 0 .. MaxGen /\ Cached[w] <= srv.gen
  <1>1. Cached[w] \in 0 .. MaxGen /\ srv.gen \in 0 .. MaxGen
    BY CachedTyped DEF MountsInv, Typed, SrvTyped
  <1>2. CASE Cached[w] # 0
    <2>1. PICK i \in 1 .. Len(leases) : leases[i] = [by |-> w, gen |-> Cached[w]]
      BY <1>2 DEF MountsInv, LeaseInv, LeasesFit
    <2>2. leases[i].gen <= srv.gen /\ leases[i].gen = Cached[w]
      BY <2>1 DEF MountsInv, LeaseInv, LeasesFit, Fits
    <2> QED
      BY <1>1, <2>2
  <1>3. CASE Cached[w] = 0
    BY <1>1, <1>3
  <1> QED
    BY <1>2, <1>3

LEMMA MountBeginsKeeps ==
    ASSUME MountsInv, NEW r \in Resource, MountBegins(r)
    PROVE  CallKeeps /\ RestTyped' /\ RestInv'
  <1> DEFINE job == AddJob(r, rest.lease, {})
             K == [jobs EXCEPT !["invoke"] = job]
  <1>1. /\ Calm /\ jobs["invoke"].op = "idle" /\ stamps < MaxMount /\ r \notin DOMAIN mounts
        /\ stamps' = stamps + 1 /\ Adds("invoke", job) /\ UNCHANGED <<rest, mounts, rackVars>>
    BY DEF MountBegins, Invoked, Running
  <1>2. Typed /\ Shape(mounts, jobs, table, seq) /\ OfSomeone(table) /\ JobsTyped(jobs) /\ RecordsTyped(mounts) /\ Paired(mounts, jobs)
    BY ShapeIs DEF Shape
  <1>3. rest.lease \in 0 .. MaxGen /\ rest.lease <= srv.gen
    BY LeaseBound, CachedTyped DEF Who
  <1>4. stamps \in 0 .. MaxMount /\ stamps + 1 \in 0 .. MaxMount /\ stamps + 1 \in Nat
    BY <1>1, <1>2 DEF Typed, RestTyped
  <1>5. /\ job \in Adding /\ job.op = "add" /\ job.of = rest.lease /\ job.gen = rest.lease /\ job.ids = <<>> /\ job.res = r
        /\ job.more = {} /\ job.ans = 0
    <2>1. PICK s \in Nat : s = stamps + 1
      BY <1>4
    <2>2. job = [op |-> "add", res |-> r, gen |-> rest.lease, of |-> rest.lease, ids |-> <<>>, ans |-> 0, more |-> {},
                 stamp |-> s]
      BY <2>1 DEF AddJob
    <2>3. <<>> \in Seq(Nat)
      BY EmptySeq
    <2> HIDE DEF job
    <2> QED
      BY <1>3, <2>2, <2>3 DEF Adding
  <1>6. Len(job.ids) < Size[job.res]
    BY <1>5
  <1> HIDE DEF job
  <1>7. "invoke" \in Worker /\ "invoke" \in Job /\ Worker \subseteq Job /\ "stop" \in Job /\ "stop" # "invoke"
    BY DEF Worker, Job
  <1>8. /\ CallKeeps /\ JobsTyped(jobs') /\ spoiled' = spoiled
        /\ \E a \in Nat : Sets(jobs, jobs', "invoke", [job EXCEPT !.ans = a])
    BY <1>1, <1>2, <1>5, <1>6, <1>7, AddsIs
  <1>9. PICK a \in Nat : Sets(jobs, jobs', "invoke", [job EXCEPT !.ans = a])
    BY <1>8
  <1>10. /\ jobs'["invoke"].op = "add" /\ jobs'["invoke"].of = rest.lease /\ jobs'["invoke"].gen = rest.lease
         /\ jobs'["invoke"].res = r /\ jobs'["invoke"].more = {}
    BY <1>5, <1>9 DEF Sets, Adding
  <1>11. jobs'["stop"] = jobs["stop"] /\ jobs'["sink"] = jobs["sink"]
    BY <1>9 DEF Sets, Job
  <1>12. ~Taking(jobs'["invoke"]) /\ ~Taking(jobs["invoke"]) /\ ~Putting(jobs["invoke"])
    BY <1>1, <1>10 DEF Taking, Putting
  <1>13. Paired(mounts', jobs')
    BY <1>1, <1>2, <1>10, <1>11, <1>12 DEF Paired, Worker
  <1>14. RestSteady /\ (spoiled => spoiled')
    BY <1>8 DEF MountsInv, RestInv
  <1>15. \A x \in DOMAIN mounts' :
            /\ mounts'[x].gen <= srv.gen
            /\ ~spoiled' => (Taking(jobs'["invoke"]) /\ jobs'["invoke"].res = x) \/ Len(mounts'[x].ids) = Size[x]
    BY <1>1, <1>12, <1>14 DEF RestSteady, Being
  <1>16. \A k \in Worker : Putting(jobs'[k]) => jobs'[k].of = jobs'[k].gen /\ jobs'[k].gen <= srv.gen
    BY <1>3, <1>10, <1>11, <1>14 DEF RestSteady, Worker
  <1>17. Sets(jobs, K, "invoke", job) /\ K["invoke"] = job
    BY <1>2, <1>7 DEF JobsTyped, Sets
  <1>18. Shape(mounts, K, table, seq)
    BY <1>1, <1>2, <1>5, <1>7, ShapeSets
  <1> HIDE DEF K
  <1>19. ASSUME Available, ~spoiled'
         PROVE  Good(mounts', jobs', table', seq', srv.gen)
    <2>1. Good(mounts, jobs, table, seq, srv.gen)
      BY <1>8, <1>19, ShapeIs
    <2>2. Sets(jobs, K, "invoke", K["invoke"]) /\ ~Taking(K["invoke"])
      BY <1>5, <1>17 DEF Sets, Taking
    <2>3. Good(mounts, K, table, seq, srv.gen)
      BY <1>2, <1>5, <1>7, <1>12, <1>17, <2>1, <2>2, JobTurns
    <2>4. [job EXCEPT !.ans = 0] = job
      BY <1>5 DEF Adding
    <2>5. Good(mounts, jobs', table', seq', srv.gen)
      BY <1>1, <1>2, <1>5, <1>6, <1>7, <1>17, <1>18, <2>3, <2>4, AddsGood
    <2> QED
      BY <1>1, <2>5
  <1> QED
    BY <1>1, <1>2, <1>4, <1>8, <1>11, <1>12, <1>13, <1>15, <1>16, <1>19, StepSteady

\* resource.unmount removes an id of its record and the route that has it.
LEMMA RemovesKeeps ==
    ASSUME MountsInv, Calm, UNCHANGED <<rest, stamps, rackVars>>, NEW r \in DOMAIN mounts, mounts[r].ids # <<>>,
           NEW g \in 0 .. MaxGen, Removes(r, g), ~Putting(jobs["invoke"]), \A x : Being(x) => x = r
    PROVE  CallKeeps /\ RestTyped' /\ RestInv'
  <1>1. Typed /\ Shape(mounts, jobs, table, seq) /\ OfSomeone(table) /\ JobsTyped(jobs) /\ RecordsTyped(mounts) /\ Paired(mounts, jobs)
    BY ShapeIs DEF Shape
  <1>2. Available /\ ~spoiled /\ mounts[r].gen = srv.gen => \A id : Has(mounts[r], id) => Past(table, seq, id)
    BY ShapeIs DEF Good, Apart
  <1>3. /\ CallKeeps /\ seq' = seq /\ RecordsTyped(mounts') /\ JobsTyped(jobs')
        /\ mounts' = [mounts EXCEPT ![r].ids = Tail(mounts[r].ids)]
        /\ Sets(jobs, jobs', "invoke", jobs'["invoke"]) /\ jobs'["invoke"].op = "remove" /\ jobs'["invoke"].res = r
        /\ ~jobs'["invoke"].ok => spoiled'
        /\ ~spoiled' => mounts[r].gen = srv.gen /\ Shrinks(table, table', Head(mounts[r].ids))
    BY <1>1, <1>2, RemovesIs
  <1>4. jobs'["stop"] = jobs["stop"] /\ jobs'["sink"] = jobs["sink"]
    BY <1>3 DEF Sets, Job
  <1>5. Taking(jobs'["invoke"]) /\ ~Putting(jobs'["invoke"])
    BY <1>3 DEF Taking, Putting
  <1>6. /\ DOMAIN mounts' = DOMAIN mounts /\ (\A x \in DOMAIN mounts : x # r => mounts'[x] = mounts[x])
        /\ mounts'[r].gen = mounts[r].gen
    <2>1. mounts[r] \in Record
      BY <1>1 DEF RecordsTyped
    <2>2. mounts'[r] = [mounts[r] EXCEPT !.ids = Tail(mounts[r].ids)]
      BY <1>3
    <2> QED
      BY <1>3, <2>1, <2>2 DEF Record
  <1>7. Paired(mounts', jobs')
    <2>1. jobs'["invoke"].op # "undo"
      BY <1>3
    <2> QED
      BY <1>1, <1>3, <1>4, <1>5, <1>6, <2>1 DEF Paired, Worker
  <1>8. RestSteady /\ (spoiled => spoiled')
    BY <1>3 DEF MountsInv, RestInv, CallKeeps
  <1>9. \A x \in DOMAIN mounts' :
            /\ mounts'[x].gen <= srv.gen
            /\ ~spoiled' => (Taking(jobs'["invoke"]) /\ jobs'["invoke"].res = x) \/ Len(mounts'[x].ids) = Size[x]
    <2> SUFFICES ASSUME NEW x \in DOMAIN mounts
                 PROVE  /\ mounts'[x].gen <= srv.gen
                        /\ ~spoiled' => (Taking(jobs'["invoke"]) /\ jobs'["invoke"].res = x) \/ Len(mounts'[x].ids) = Size[x]
      BY <1>6
    <2>1. mounts'[x].gen = mounts[x].gen
      BY <1>6
    <2>2. CASE x = r
      BY <1>3, <1>5, <1>8, <2>1, <2>2 DEF RestSteady
    <2>3. CASE x # r
      BY <1>6, <1>8, <2>3 DEF RestSteady
    <2> QED
      BY <2>2, <2>3
  <1>10. \A k \in Worker : Putting(jobs'[k]) => jobs'[k].of = jobs'[k].gen /\ jobs'[k].gen <= srv.gen
    BY <1>4, <1>5, <1>8 DEF RestSteady, Worker
  <1>11. ASSUME Available, ~spoiled'
         PROVE  Good(mounts', jobs', table', seq', srv.gen)
    <2>1. Good(mounts, jobs, table, seq, srv.gen)
      BY <1>8, <1>11, ShapeIs
    <2> QED
      BY <1>1, <1>3, <1>5, <1>11, <2>1, RecordRemoves
  <1> QED
    BY <1>3, <1>4, <1>7, <1>9, <1>10, <1>11, StepSteady

\* resource.unmount drops the record, or its job just ends.
LEMMA UnmountEnds ==
    ASSUME MountsInv, Calm, UNCHANGED <<rest, stamps, rackVars, srvVars>>, NEW r \in DOMAIN mounts,
           Sets(jobs, jobs', "invoke", Idle), DOMAIN jobs' = Job, ~Putting(jobs["invoke"]), \A x : Being(x) => x = r,
           RecordsTyped(mounts'), DOMAIN mounts' \subseteq DOMAIN mounts, \A x \in DOMAIN mounts' : x # r => mounts'[x] = mounts[x],
           \/ Dropped(r)
           \/ spoiled /\ \A x \in DOMAIN mounts' : mounts'[x].gen = mounts[x].gen,
           Available /\ ~spoiled => Taking(jobs["invoke"]) /\ mounts[r].ids = <<>> /\ jobs["invoke"].res = r
    PROVE  CallKeeps /\ RestTyped' /\ RestInv'
  <1>1. Typed /\ Shape(mounts, jobs, table, seq) /\ OfSomeone(table) /\ JobsTyped(jobs) /\ RecordsTyped(mounts) /\ Paired(mounts, jobs)
    BY ShapeIs DEF Shape
  <1>2. CallKeeps /\ spoiled' = spoiled /\ table' = table /\ seq' = seq
    BY <1>1, NothingCalled DEF Typed, srvVars
  <1>3. jobs'["stop"] = jobs["stop"] /\ jobs'["sink"] = jobs["sink"] /\ jobs'["invoke"] = Idle
    BY DEF Sets, Job
  <1>4. Idle.op = "idle" /\ ~Putting(Idle) /\ ~Taking(Idle)
    BY DEF Idle, Putting, Taking
  <1>5. JobsTyped(jobs')
    BY <1>1, <1>3 DEF JobsTyped
  <1>6. Paired(mounts', jobs')
    BY <1>1, <1>3, <1>4 DEF Paired, Worker
  <1>7. RestSteady
    BY DEF MountsInv, RestInv
  <1>8. \A x \in DOMAIN mounts' :
            /\ mounts'[x].gen <= srv.gen
            /\ ~spoiled' => (Taking(jobs'["invoke"]) /\ jobs'["invoke"].res = x) \/ Len(mounts'[x].ids) = Size[x]
    <2> SUFFICES ASSUME NEW x \in DOMAIN mounts'
                 PROVE  /\ mounts'[x].gen <= srv.gen
                        /\ ~spoiled => Len(mounts'[x].ids) = Size[x]
      BY <1>2
    <2>1. CASE Dropped(r)
      <3>1. x # r /\ mounts'[x] = mounts[x] /\ x \in DOMAIN mounts
        BY <2>1 DEF Dropped
      <3> QED
        BY <1>7, <3>1 DEF RestSteady
    <2>2. CASE spoiled /\ mounts'[x].gen = mounts[x].gen
      BY <1>7, <2>2 DEF RestSteady
    <2> QED
      BY <2>1, <2>2
  <1>9. \A k \in Worker : Putting(jobs'[k]) => jobs'[k].of = jobs'[k].gen /\ jobs'[k].gen <= srv.gen
    BY <1>3, <1>4, <1>7 DEF RestSteady, Worker
  <1>10. ASSUME Available, ~spoiled'
         PROVE  Good(mounts', jobs', table', seq', srv.gen)
    <2>1. Good(mounts, jobs, table, seq, srv.gen)
      BY <1>2, <1>10, ShapeIs
    <2>2. mounts[r].gen = srv.gen /\ mounts[r].ids = <<>>
      BY <1>2, <1>10, <2>1 DEF Good
    <2>3. mounts' = [q \in DOMAIN mounts \ {r} |-> mounts[q]]
      BY <1>2, <1>10 DEF Dropped
    <2> QED
      BY <1>1, <1>2, <2>1, <2>2, <2>3, RecordDrops
  <1> QED
    BY <1>2, <1>3, <1>4, <1>5, <1>6, <1>8, <1>9, <1>10, StepSteady

LEMMA UnmountBeginsKeeps ==
    ASSUME MountsInv, NEW r \in Resource, UnmountBegins(r)
    PROVE  CallKeeps /\ RestTyped' /\ RestInv'
  <1>1. /\ Calm /\ life["rest"] = "active" /\ jobs["invoke"].op = "idle" /\ r \in DOMAIN mounts
        /\ UNCHANGED <<rest, stamps, rackVars>>
    BY DEF UnmountBegins, Invoked, Running
  <1>2. JobsTyped(jobs) /\ RecordsTyped(mounts) /\ RestSteady /\ rest.lease \in 0 .. MaxGen
    BY DEF MountsInv, RestInv, Typed, RestTyped
  <1>3. ~Putting(jobs["invoke"]) /\ ~Taking(jobs["invoke"]) /\ \A x : ~Being(x)
    BY <1>1 DEF Putting, Taking, Being
  <1>4. CASE Usable /\ mounts[r].ids # <<>> /\ Removes(r, rest.lease)
    BY <1>1, <1>2, <1>3, <1>4, RemovesKeeps
  <1>5. CASE Dropped(r) /\ UNCHANGED <<srvVars, jobs>> /\ (~Usable \/ mounts[r].ids = <<>>)
    <2>1. ~(Available /\ ~spoiled)
      <3> SUFFICES ASSUME Available, ~spoiled
                   PROVE  FALSE
        OBVIOUS
      <3>1. Usable
        BY <1>1, <1>2, NobodyTold DEF RestSteady, Usable
      <3>2. Len(mounts[r].ids) = Size[r] /\ r \in Resource
        BY <1>1, <1>2, <1>3 DEF RestSteady
      <3>3. Size[r] # 0
        OBVIOUS
      <3> QED
        BY <1>5, <3>1, <3>2, <3>3
    <2>2. mounts' = [x \in DOMAIN mounts \ {r} |-> mounts[x]]
      BY <1>5 DEF Dropped
    <2>3. IsFiniteSet(DOMAIN mounts \ {r})
      BY <1>2, FS_RemoveElement DEF RecordsTyped
    <2>4. RecordsTyped(mounts') /\ DOMAIN mounts' \subseteq DOMAIN mounts /\ \A x \in DOMAIN mounts' : x # r => mounts'[x] = mounts[x]
      BY <1>2, <2>2, <2>3 DEF RecordsTyped
    <2>5. jobs["invoke"] = Idle
      BY <1>1, <1>2, JobTypes DEF Worker
    <2>6. Sets(jobs, jobs', "invoke", Idle) /\ DOMAIN jobs' = Job
      BY <1>2, <1>5, <2>5 DEF Sets, JobsTyped
    <2> QED
      BY <1>1, <1>3, <1>5, <2>1, <2>4, <2>6, UnmountEnds
  <1> QED
    BY <1>4, <1>5 DEF UnmountBegins

LEMMA UnmountGoesOnKeeps ==
    ASSUME MountsInv, UnmountGoesOn
    PROVE  CallKeeps /\ RestTyped' /\ RestInv'
  <1> DEFINE job == jobs["invoke"]
             r == job.res
  <1>1. Calm /\ job.op = "remove" /\ UNCHANGED <<rest, stamps, rackVars>>
    BY DEF UnmountGoesOn, Answered
  <1>2. Taking(job) /\ ~Putting(job)
    BY <1>1 DEF Taking, Putting
  <1>3. JobsTyped(jobs) /\ RecordsTyped(mounts) /\ RestSteady /\ Paired(mounts, jobs)
    BY DEF MountsInv, RestInv, Typed, RestTyped
  <1>4. job \in Removing /\ r \in DOMAIN mounts /\ (job.ok \/ spoiled) /\ job.gen \in 0 .. MaxGen /\ job.id \in Nat
    BY <1>2, <1>3, JobTypes DEF Paired, RestSteady, Removing
  <1>5. \A x : Being(x) => x = r
    BY DEF Being
  <1>6. CASE job.ok /\ mounts[r].ids # <<>> /\ Removes(r, job.gen)
    BY <1>1, <1>2, <1>4, <1>5, <1>6, RemovesKeeps
  <1>7. ASSUME Becomes("invoke", Idle)
        PROVE  Sets(jobs, jobs', "invoke", Idle) /\ DOMAIN jobs' = Job
    BY <1>3, <1>7, BecomesSets DEF Job
  <1>8. CASE ~job.ok /\ mounts' = [mounts EXCEPT ![r].ids = <<job.id>> \o mounts[r].ids] /\ Becomes("invoke", Idle) /\ UNCHANGED srvVars
    <2>1. mounts[r] \in Record /\ mounts[r].ids \in Seq(Nat)
      BY <1>3, <1>4 DEF RecordsTyped, Record
    <2>2. <<job.id>> \o mounts[r].ids \in Seq(Nat)
      BY <1>4, <2>1
    <2>3. [mounts[r] EXCEPT !.ids = <<job.id>> \o mounts[r].ids] \in Record
          /\ [mounts[r] EXCEPT !.ids = <<job.id>> \o mounts[r].ids].gen = mounts[r].gen
      BY <2>1, <2>2 DEF Record
    <2>4. /\ DOMAIN mounts' = DOMAIN mounts /\ (\A x \in DOMAIN mounts : x # r => mounts'[x] = mounts[x])
          /\ mounts'[r] = [mounts[r] EXCEPT !.ids = <<job.id>> \o mounts[r].ids]
      BY <1>4, <1>8
    <2>5. RecordsTyped(mounts')
      BY <1>3, <2>3, <2>4 DEF RecordsTyped
    <2>6. \A x \in DOMAIN mounts' : mounts'[x].gen = mounts[x].gen
      BY <2>3, <2>4
    <2>7. spoiled
      BY <1>4, <1>8
    <2> QED
      BY <1>1, <1>2, <1>4, <1>5, <1>7, <1>8, <2>4, <2>5, <2>6, <2>7, UnmountEnds
  <1>9. CASE job.ok /\ mounts[r].ids = <<>> /\ Dropped(r) /\ Becomes("invoke", Idle) /\ UNCHANGED srvVars
    <2>1. mounts' = [x \in DOMAIN mounts \ {r} |-> mounts[x]]
      BY <1>9 DEF Dropped
    <2>2. IsFiniteSet(DOMAIN mounts \ {r})
      BY <1>3, FS_RemoveElement DEF RecordsTyped
    <2>3. RecordsTyped(mounts') /\ DOMAIN mounts' \subseteq DOMAIN mounts /\ \A x \in DOMAIN mounts' : x # r => mounts'[x] = mounts[x]
      BY <1>3, <2>1, <2>2 DEF RecordsTyped
    <2> QED
      BY <1>1, <1>2, <1>4, <1>5, <1>7, <1>9, <2>3, UnmountEnds
  <1> QED
    BY <1>4, <1>6, <1>8, <1>9 DEF UnmountGoesOn

-----------------------------------------------------------------------------
(* The life of std.rest-server and its lease                               *)

\* Nothing but what it knows of its lease, and its state, changes.
LEMMA RestStill ==
    ASSUME MountsInv, UNCHANGED <<mounts, stamps, jobs, srvVars>>, rest' \in [lease : 0 .. MaxGen, usable : BOOLEAN],
           life'["rest"] = "stopping" <=> life["rest"] = "stopping",
           Available /\ In("rest", telling') => In("rest", telling),
           Available /\ life'["rest"] \in {"initialized", "active"} /\ ~In("rest", telling') => rest'.usable /\ rest'.lease # 0
    PROVE  CallKeeps /\ RestTyped' /\ RestInv'
  <1>1. CallKeeps
    BY ShapeIs, NothingCalled DEF Typed
  <1>2. srv' = srv /\ table' = table /\ seq' = seq /\ spoiled' = spoiled
    BY DEF srvVars
  <1>3. RestTyped'
    BY DEF MountsInv, Typed, RestTyped
  <1>4. Paired(mounts', jobs')
    BY DEF MountsInv, RestInv
  <1>5. RestSteady'
    BY <1>2 DEF MountsInv, RestInv, RestSteady, Running, Being, Available
  <1>6. Available' /\ ~spoiled' => RestGood'
    BY <1>2 DEF MountsInv, RestInv, RestGood, Available
  <1> QED
    BY <1>1, <1>3, <1>4, <1>5, <1>6 DEF RestInv

LEMMA ToldIs ==
    ASSUME MountsInv, NEW w \in Who, Told(w)
    PROVE  /\ In(w, telling) /\ ~In(w, telling') /\ telling' \in Seq(Who) /\ Once(telling')
           /\ \A v : v # w => (In(v, telling') <=> In(v, telling))
  <1>1. telling \in Seq(Who) /\ Once(telling)
    BY DEF MountsInv, Typed, RackTyped, TellInv, Heard
  <1>2. telling # <<>> /\ Head(telling) = w /\ telling' = Tail(telling)
    BY DEF Told
  <1>3. /\ telling' \in Seq(Who) /\ Len(telling') = Len(telling) - 1 /\ Len(telling) \in Nat \ {0} /\ telling[1] = w
        /\ \A i \in 1 .. Len(telling') : telling'[i] = telling[i + 1]
    BY <1>1, <1>2, HeadTailProperties
  <1>4. 1 \in 1 .. Len(telling)
    BY <1>3
  <1>5. \A i \in 1 .. Len(telling') : i + 1 \in 1 .. Len(telling) /\ i + 1 # 1
    BY <1>3
  <1>6. \A i \in 1 .. Len(telling) : i = 1 \/ (i - 1 \in 1 .. Len(telling') /\ (i - 1) + 1 = i)
    BY <1>3
  <1>7. In(w, telling)
    BY <1>3, <1>4 DEF In
  <1>8. ~In(w, telling')
    BY <1>1, <1>3, <1>4, <1>5 DEF In, Once
  <1>9. Once(telling')
    <2> SUFFICES ASSUME NEW i \in 1 .. Len(telling'), NEW k \in 1 .. Len(telling'), telling'[i] = telling'[k]
                 PROVE  i = k
      BY DEF Once
    <2>1. telling[i + 1] = telling[k + 1] /\ i + 1 \in 1 .. Len(telling) /\ k + 1 \in 1 .. Len(telling)
      BY <1>3, <1>5
    <2>2. i + 1 = k + 1
      BY <1>1, <2>1 DEF Once
    <2> QED
      BY <2>2
  <1>10. \A v : v # w => (In(v, telling') <=> In(v, telling))
    <2> SUFFICES ASSUME NEW v, v # w
                 PROVE  In(v, telling') <=> In(v, telling)
      OBVIOUS
    <2>1. ASSUME In(v, telling')
          PROVE  In(v, telling)
      BY <1>3, <1>5, <2>1 DEF In
    <2>2. ASSUME In(v, telling)
          PROVE  In(v, telling')
      <3>1. PICK i \in 1 .. Len(telling) : telling[i] = v
        BY <2>2 DEF In
      <3>2. i # 1
        BY <1>3, <3>1
      <3>3. i - 1 \in 1 .. Len(telling') /\ telling'[i - 1] = telling[(i - 1) + 1] /\ (i - 1) + 1 = i
        BY <1>3, <1>6, <3>2
      <3> QED
        BY <3>1, <3>3 DEF In
    <2> QED
      BY <2>1, <2>2
  <1> QED
    BY <1>3, <1>7, <1>8, <1>9, <1>10

LEMMA AvailableIs ==
    ASSUME MountsInv, Available
    PROVE  srv.gen \in 1 .. MaxGen /\ srv.gen # 0
  BY DEF MountsInv, Typed, SrvTyped, Available

LEMMA RestToldOfferKeeps ==
    ASSUME MountsInv, RestToldOffer
    PROVE  CallKeeps /\ RestTyped' /\ RestInv'
  <1>1. /\ Told("rest") /\ Available /\ UNCHANGED <<mounts, stamps, watchers, revoking, life, lives>>
        /\ rest' = [lease |-> IF Borrows THEN srv.gen ELSE rest.lease, usable |-> TRUE]
    BY DEF RestToldOffer, Offered
  <1>2. In("rest", telling) /\ ~In("rest", telling')
    BY <1>1, ToldIs DEF Who
  <1>3. srv.gen \in 1 .. MaxGen
    BY <1>1, AvailableIs
  <1>4. rest.lease \in 0 .. MaxGen
    BY DEF MountsInv, Typed, RestTyped
  <1>5. rest' \in [lease : 0 .. MaxGen, usable : BOOLEAN] /\ rest'.usable /\ rest'.lease # 0
    BY <1>1, <1>3, <1>4 DEF Borrows
  <1>6. CASE ~(Borrows /\ life["rest"] = "active")
    <2>1. UNCHANGED <<jobs, srvVars>>
      BY <1>6 DEF RestToldOffer, Offered
    <2> QED
      BY <1>1, <1>2, <1>5, <2>1, RestStill
  <1>7. CASE Borrows /\ life["rest"] = "active"
    <2>1. NextRecord("sink", srv.gen, Records)
      BY <1>7 DEF RestToldOffer, Offered
    <2>2. Typed /\ Shape(mounts, jobs, table, seq) /\ OfSomeone(table) /\ JobsTyped(jobs) /\ RecordsTyped(mounts) /\ Paired(mounts, jobs)
      BY ShapeIs DEF Shape
    <2>3. RestSteady /\ (~spoiled => RestGood)
      BY <1>1 DEF MountsInv, RestInv
    <2>4. Records \in SUBSET ToDo
      BY <2>2 DEF Records, ToDo, RecordsTyped, Record
    <2>5. "sink" \in Worker /\ "sink" \in Job /\ srv.gen \in 0 .. MaxGen
      BY <1>3 DEF Worker, Job
    <2>6. \A j \in Job : jobs[j].op = "idle"
      BY <1>1, <1>2, <2>3 DEF RestSteady, Running
    <2>7. jobs["sink"] = Idle
      BY <2>2, <2>5, <2>6, JobTypes
    <2>8. Sets(jobs, jobs, "sink", Idle) /\ DOMAIN jobs = Job
      BY <2>2, <2>7 DEF Sets, JobsTyped
    <2>9. /\ CallKeeps /\ JobsTyped(jobs') /\ spoiled' = spoiled /\ Sets(jobs, jobs', "sink", jobs'["sink"])
          /\ \/ jobs'["sink"] = Idle
             \/ jobs'["sink"].op = "add" /\ jobs'["sink"].of = srv.gen /\ jobs'["sink"].gen = srv.gen
      BY <2>1, <2>2, <2>4, <2>5, NextRecordIs
    <2>10. jobs'["invoke"] = jobs["invoke"] /\ jobs'["stop"] = jobs["stop"]
      BY <2>9 DEF Sets, Job
    <2>11. Idle.op = "idle" /\ jobs'["sink"].op # "undo"
      BY <2>9 DEF Idle
    <2>12. Paired(mounts', jobs')
      BY <1>1, <2>2, <2>10, <2>11 DEF Paired, Worker
    <2>13. RestTyped'
      BY <1>1, <1>5, <2>2, <2>9 DEF Typed, RestTyped
    <2>14. srv' = srv /\ life' = life /\ mounts' = mounts
      BY <1>1, <2>9 DEF CallKeeps
    <2>15. RestSteady'
      <3>1. \A j \in Worker : Putting(jobs'[j]) => jobs'[j].of = jobs'[j].gen /\ jobs'[j].gen <= srv.gen
        BY <1>3, <2>3, <2>9, <2>10, <2>11 DEF RestSteady, Worker, Putting
      <3>2. OfSomeone(table')
        BY <2>9 DEF CallKeeps
      <3> QED
        BY <1>2, <1>5, <2>3, <2>9, <2>10, <2>14, <3>1, <3>2 DEF RestSteady, Running, Being, OfSomeone
    <2>16. ASSUME ~spoiled'
           PROVE  RestGood'
      <3>1. Good(mounts, jobs, table, seq, srv.gen) /\ \A r \in DOMAIN mounts : mounts[r].gen # srv.gen
        BY <1>2, <2>3, <2>9, <2>16 DEF RestGood
      <3>2. \A m \in Records : Old(mounts, srv.gen, m)
        BY <3>1 DEF Records, Old
      <3>3. Good(mounts, jobs', table', seq', srv.gen)
        BY <2>1, <2>2, <2>4, <2>5, <2>8, <3>1, <3>2, NextRecordGood
      <3> QED
        BY <1>2, <2>14, <3>3 DEF RestGood
    <2> QED
      BY <2>9, <2>12, <2>13, <2>15, <2>16 DEF RestInv
  <1> QED
    BY <1>6, <1>7

LEMMA RestToldGoneKeeps ==
    ASSUME MountsInv, RestToldGone
    PROVE  CallKeeps /\ RestTyped' /\ RestInv'
  <1>1. rest' \in [lease : 0 .. MaxGen, usable : BOOLEAN]
    BY DEF RestToldGone, MountsInv, Typed, RestTyped
  <1> QED
    BY <1>1, RestStill DEF RestToldGone

LEMMA AskedIs ==
    ASSUME MountsInv, NEW w \in Who, Asked(w)
    PROVE  Calm /\ srv.state = "revoking" /\ ~Available /\ revoking' \in Seq(Who)
  <1>1. revoking \in Seq(Who) /\ (revoking # <<>> => srv.state = "revoking")
    BY DEF MountsInv, Typed, RackTyped, TellInv, Heard
  <1>2. Calm /\ revoking # <<>> /\ revoking' = Tail(revoking)
    BY DEF Asked
  <1>3. Tail(revoking) \in Seq(Who)
    BY <1>1, <1>2, HeadTailProperties
  <1> QED
    BY <1>1, <1>2, <1>3 DEF Available

LEMMA RestOnRevokeKeeps ==
    ASSUME MountsInv, RestOnRevoke
    PROVE  CallKeeps /\ RestTyped' /\ RestInv'
  <1>1. rest' \in [lease : 0 .. MaxGen, usable : BOOLEAN]
    <2>1. rest \in [lease : 0 .. MaxGen, usable : BOOLEAN]
      BY DEF MountsInv, Typed, RestTyped
    <2>2. rest' = rest \/ rest' = LeaseCleared
      BY DEF RestOnRevoke
    <2>3. LeaseCleared \in [lease : 0 .. MaxGen, usable : BOOLEAN]
      BY DEF LeaseCleared
    <2> QED
      BY <2>1, <2>2, <2>3
  <1>2. ~Available
    BY AskedIs DEF RestOnRevoke, Who
  <1> QED
    BY <1>1, <1>2, RestStill DEF RestOnRevoke

LEMMA RestInitsKeeps ==
    ASSUME MountsInv, RestInits
    PROVE  CallKeeps /\ RestTyped' /\ RestInv'
  <1>1. /\ life["rest"] = "absent" /\ life' = [life EXCEPT !["rest"] = "initialized"]
        /\ UNCHANGED <<mounts, stamps, telling>>
    BY DEF RestInits
  <1>2. life'["rest"] = "initialized"
    BY <1>1 DEF MountsInv, Typed, RackTyped, Who
  <1>3. rest \in [lease : 0 .. MaxGen, usable : BOOLEAN]
    BY DEF MountsInv, Typed, RestTyped
  <1>4. CASE Available
    <2>1. rest' = [lease |-> IF Borrows THEN srv.gen ELSE rest.lease, usable |-> TRUE] /\ UNCHANGED <<jobs, srvVars>>
      BY <1>1, <1>4 DEF RestInits, Offered
    <2>2. srv.gen \in 1 .. MaxGen
      BY <1>4, AvailableIs
    <2>3. rest' \in [lease : 0 .. MaxGen, usable : BOOLEAN] /\ rest'.usable /\ rest'.lease # 0
      BY <1>3, <2>1, <2>2 DEF Borrows
    <2> QED
      BY <1>1, <1>2, <2>1, <2>3, RestStill
  <1>5. CASE ~Available
    <2>1. UNCHANGED <<rest, jobs, srvVars>>
      BY <1>5 DEF RestInits
    <2> QED
      BY <1>1, <1>2, <1>3, <1>5, <2>1, RestStill
  <1> QED
    BY <1>4, <1>5

LEMMA RestStartsKeeps ==
    ASSUME MountsInv, RestStarts
    PROVE  CallKeeps /\ RestTyped' /\ RestInv'
  <1>1. /\ life["rest"] = "initialized" /\ life' = [life EXCEPT !["rest"] = "active"] /\ Calm
        /\ UNCHANGED <<restVars, srvVars, telling>>
    BY DEF RestStarts
  <1>2. life'["rest"] = "active"
    BY <1>1 DEF MountsInv, Typed, RackTyped, Who
  <1>3. rest \in [lease : 0 .. MaxGen, usable : BOOLEAN]
    BY DEF MountsInv, Typed, RestTyped
  <1>4. Available => rest.usable /\ rest.lease # 0
    BY <1>1, NobodyTold DEF MountsInv, RestInv, RestSteady
  <1> QED
    BY <1>1, <1>2, <1>3, <1>4, RestStill DEF restVars

\* An instance of std.rest-server ends.
LEMMA RestEndsKeeps ==
    ASSUME MountsInv, RestEnds, Calm
    PROVE  CallKeeps /\ RestTyped' /\ RestInv'
  <1>1. /\ mounts' = NoMounts /\ jobs' = [j \in Job |-> Idle] /\ rest' = [lease |-> 0, usable |-> FALSE]
        /\ UNCHANGED <<stamps, srv, table, seq, telling>>
        /\ guard' = (IF guard[1] = "rest" THEN Gone ELSE guard)
        /\ spoiled' = (spoiled \/ \E id \in DOMAIN table : table[id][1] \in Resource)
        /\ life' = [life EXCEPT !["rest"] = "absent"]
    BY DEF RestEnds, Forgotten
  <1>2. SrvTyped /\ OfSomeone(table) /\ stamps \in 0 .. MaxMount /\ life \in [Who -> Life] /\ "rest" \in Who
    BY ShapeIs DEF Typed, RestTyped, RackTyped, Who
  <1>3. guard' \in Guards /\ spoiled' \in BOOLEAN
    BY <1>1, <1>2 DEF SrvTyped, Guards
  <1>4. SrvTyped'
    BY <1>1, <1>2, <1>3 DEF SrvTyped
  <1>5. CallKeeps
    BY <1>1, <1>2, <1>4 DEF CallKeeps
  <1>6. DOMAIN mounts' = {}
    BY <1>1 DEF NoMounts
  <1>7. \A j \in Job : jobs'[j] = Idle
    BY <1>1
  <1>8. Worker \subseteq Job /\ "stop" \in Job /\ "invoke" \in Job /\ "sink" \in Job
    BY DEF Worker, Job
  <1>9. Idle.op = "idle" /\ ~Putting(Idle) /\ ~Taking(Idle) /\ \A id : ~JobHas(Idle, id)
    BY DEF Idle, Putting, Taking, JobHas
  <1>10. JobsTyped(jobs')
    BY <1>1, <1>7, <1>8 DEF JobsTyped
  <1>11. RecordsTyped(mounts')
    BY <1>6, FS_EmptySet DEF RecordsTyped
  <1>12. RestTyped'
    BY <1>1, <1>2, <1>10, <1>11 DEF RestTyped
  <1>13. Paired(mounts', jobs')
    BY <1>7, <1>8, <1>9 DEF Paired
  <1>14. life'["rest"] = "absent" /\ \A w : ~In(w, telling')
    BY <1>1, <1>2, NobodyTold
  <1>15. RestSteady'
    <2>1. \A j \in Job : ~Running(j)'
      BY <1>7, <1>9 DEF Running
    <2> QED
      BY <1>1, <1>2, <1>6, <1>7, <1>8, <1>9, <1>14, <2>1 DEF RestSteady, OfSomeone
  <1>16. ASSUME ~spoiled'
         PROVE  RestGood'
    <2>1. \A id \in DOMAIN table : IsRpc(table, id)
      BY <1>1, <1>2, <1>16 DEF OfSomeone
    <2>3. Exact(mounts', jobs', table', srv'.gen)
      BY <1>1, <1>6, <1>7, <1>8, <1>9, <2>1 DEF Exact, JobExact
    <2>4. Apart(mounts', jobs', table', seq', srv'.gen)
      BY <1>6, <1>7, <1>8, <1>9 DEF Apart
    <2>5. SinkGood(mounts', jobs'["sink"], srv'.gen)
      BY <1>7, <1>8, <1>9 DEF SinkGood
    <2>6. Good(mounts', jobs', table', seq', srv'.gen)
      BY <1>7, <1>8, <1>9, <2>3, <2>4, <2>5 DEF Good
    <2> QED
      BY <1>14, <2>6 DEF RestGood
  <1> QED
    BY <1>5, <1>12, <1>13, <1>15, <1>16 DEF RestInv

LEMMA RestUnloadsKeeps ==
    ASSUME MountsInv, RestUnloads
    PROVE  CallKeeps /\ RestTyped' /\ RestInv'
  BY RestEndsKeeps DEF RestUnloads

\* stop() begins to remove the routes, or goes on.
LEMMA StopUndoes ==
    ASSUME MountsInv, Calm, UNCHANGED <<mounts, stamps, telling>>, rest' \in [lease : 0 .. MaxGen, usable : BOOLEAN],
           NEW job \in Stopping, Undoes("stop", job), life'["rest"] = "stopping",
           Available /\ ~spoiled /\ job.of = srv.gen => \A id : Has(job, id) => Past(table, seq, id)
    PROVE  CallKeeps /\ RestTyped' /\ RestInv'
  <1> DEFINE next == [job EXCEPT !.ids = Tail(job.ids)]
  <1>1. Typed /\ Shape(mounts, jobs, table, seq) /\ OfSomeone(table) /\ JobsTyped(jobs) /\ RecordsTyped(mounts) /\ Paired(mounts, jobs)
    BY ShapeIs DEF Shape
  <1>2. job.ids \in Seq(Nat) /\ job.op = "undo" /\ "stop" \in Job
    BY DEF Stopping, Job
  <1>3. /\ CallKeeps /\ seq' = seq
        /\ \/ job.ids = <<>> /\ Becomes("stop", job) /\ UNCHANGED srvVars
           \/ job.ids # <<>> /\ Becomes("stop", next)
    BY <1>1, <1>2, UndoesIs
  <1>4. job.ids # <<>> => TailFacts(job.ids, Tail(job.ids))
    BY <1>2, TailIs
  <1>5. job.ids # <<>> => next \in Stopping /\ next.op = "undo" /\ next.of = job.of /\ next.ids = Tail(job.ids)
    BY <1>2, <1>4 DEF Stopping, TailFacts
  <1>6. job.ids # <<>> => \A id : Has(next, id) => Has(job, id)
    <2>1. job.ids # <<>> => \A id : In(id, Tail(job.ids)) => In(id, job.ids)
      BY <1>4 DEF TailFacts, In
    <2> QED
      BY <1>5, <2>1 DEF Has
  <1> HIDE DEF next
  <1>7. PICK k \in Stopping : Becomes("stop", k) /\ k.op = "undo" /\ k.of = job.of /\ \A id : Has(k, id) => Has(job, id)
    BY <1>2, <1>3, <1>5, <1>6
  <1>8. Sets(jobs, jobs', "stop", k) /\ JobsTyped(jobs')
    BY <1>1, <1>2, <1>7, BecomesSets
  <1>9. jobs'["stop"] = k /\ jobs'["invoke"] = jobs["invoke"] /\ jobs'["sink"] = jobs["sink"]
    BY <1>8 DEF Sets, Job
  <1>10. RestTyped'
    BY <1>1, <1>8 DEF Typed, RestTyped
  <1>11. Paired(mounts', jobs')
    BY <1>1, <1>9 DEF Paired, Worker
  <1>12. srv' = srv /\ (spoiled => spoiled') /\ \A w : ~In(w, telling')
    BY <1>3, NobodyTold DEF CallKeeps
  <1>13. RestSteady'
    BY <1>3, <1>7, <1>9, <1>12 DEF MountsInv, RestInv, RestSteady, Running, Being, Worker, CallKeeps, OfSomeone
  <1>14. ASSUME Available', ~spoiled'
         PROVE  RestGood'
    <2>1. Available /\ ~spoiled
      BY <1>12, <1>14 DEF Available
    <2>2. Good(mounts, jobs, table, seq, srv.gen)
      BY <2>1, ShapeIs
    <2>3. \A id : IsRpc(table', id) => IsRpc(table, id)
      BY <1>3, <1>14, <2>1 DEF CallKeeps
    <2>4. k.of = srv.gen => \A id : Has(k, id) => Past(table, seq, id)
      BY <1>7, <2>1
    <2>5. Good(mounts, jobs', table', seq, srv.gen)
      BY <1>1, <1>7, <1>8, <1>9, <2>2, <2>3, <2>4, StopTurns
    <2> QED
      BY <1>3, <1>12, <2>5 DEF RestGood
  <1> QED
    BY <1>3, <1>10, <1>11, <1>13, <1>14 DEF RestInv

LEMMA RestStopGoesOnKeeps ==
    ASSUME MountsInv, RestStopGoesOn
    PROVE  CallKeeps /\ RestTyped' /\ RestInv'
  <1> DEFINE job == jobs["stop"]
  <1>1. Calm /\ job.op = "undo"
    BY DEF RestStopGoesOn, Answered
  <1>2. CASE job.ids = <<>>
    BY <1>1, <1>2, RestEndsKeeps DEF RestStopGoesOn
  <1>3. CASE job.ids # <<>>
    <2>1. job \in Stopping
      BY <1>1 DEF MountsInv, Typed, RestTyped, JobsTyped, Idle
    <2>2. Undoes("stop", job) /\ UNCHANGED <<rest, mounts, stamps, rackVars>>
      BY <1>3 DEF RestStopGoesOn
    <2>3. life' = life /\ telling' = telling /\ rest' = rest
      BY <2>2 DEF rackVars
    <2>4. life["rest"] = "stopping"
      BY <1>1 DEF MountsInv, RestInv, RestSteady, Running
    <2>5. rest' \in [lease : 0 .. MaxGen, usable : BOOLEAN]
      BY <2>3 DEF MountsInv, Typed, RestTyped
    <2>6. Available /\ ~spoiled /\ job.of = srv.gen => \A id : Has(job, id) => Past(table, seq, id)
      BY <1>1, ShapeIs DEF Good, Apart
    <2> HIDE DEF job
    <2> QED
      BY <1>1, <2>1, <2>2, <2>3, <2>4, <2>5, <2>6, StopUndoes
  <1> QED
    BY <1>2, <1>3

LEMMA RestRollsBackKeeps ==
    ASSUME MountsInv, RestRollsBack
    PROVE  CallKeeps /\ RestTyped' /\ RestInv'
  <1> DEFINE same == \A r \in DOMAIN mounts : mounts[r].gen = srv.gen
             ids == IF Usable THEN AllIds ELSE <<>>
             job == [op |-> "undo", gen |-> rest.lease, of |-> IF same THEN srv.gen ELSE 0, ids |-> ids]
  <1>1. /\ Calm /\ life' = [life EXCEPT !["rest"] = "stopping"] /\ rest' = [lease |-> 0, usable |-> FALSE]
        /\ UNCHANGED <<mounts, stamps, telling>>
    BY DEF RestRollsBack
  <1>2. Undoes("stop", job)
    BY DEF RestRollsBack
  <1>3. life'["rest"] = "stopping"
    BY <1>1 DEF MountsInv, Typed, RackTyped, Who
  <1>4. rest' \in [lease : 0 .. MaxGen, usable : BOOLEAN]
    BY <1>1
  <1>5. RecordsTyped(mounts) /\ rest.lease \in 0 .. MaxGen /\ srv.gen \in 0 .. MaxGen
    BY DEF MountsInv, Typed, RestTyped, SrvTyped
  <1>6. \A r \in DOMAIN mounts : mounts[r].ids \in Seq(Nat)
    BY <1>5 DEF RecordsTyped, Record
  <1>7. ids \in Seq(Nat)
    <2>1. AllIds \in Seq(Nat)
      BY <1>5, <1>6, AllIdsAre
    <2> QED
      BY <2>1
  <1>8. Available /\ ~spoiled /\ job.of = srv.gen => \A id : Has(job, id) => Past(table, seq, id)
    <2> SUFFICES ASSUME Available, ~spoiled, job.of = srv.gen
                 PROVE  \A id : In(id, ids) => Past(table, seq, id)
      BY DEF Has
    <2> DEFINE S == {id \in 1 .. seq : ~IsRpc(table, id)}
    <2>1. srv.gen # 0
      BY AvailableIs
    <2>2. same
      BY <2>1
    <2>3. Good(mounts, jobs, table, seq, srv.gen)
      BY ShapeIs
    <2>4. ASSUME NEW r \in DOMAIN mounts
          PROVE  mounts[r].ids \in Seq(S)
      <3>1. \A id : Has(mounts[r], id) => Past(table, seq, id)
        BY <2>2, <2>3 DEF Good, Apart
      <3>2. \A i \in 1 .. Len(mounts[r].ids) : mounts[r].ids[i] \in S
        BY <3>1 DEF Has, In, Past
      <3> HIDE DEF S
      <3>3. Len(mounts[r].ids) \in Nat /\ mounts[r].ids = [i \in 1 .. Len(mounts[r].ids) |-> mounts[r].ids[i]]
        BY <1>6
      <3> QED
        BY <3>2, <3>3
    <2> HIDE DEF S
    <2>5. AllIds \in Seq(S)
      BY <1>5, <2>4, AllIdsAre
    <2>6. \A id : In(id, ids) => id \in S
      BY <2>5 DEF In
    <2> QED
      BY <2>6 DEF S, Past
  <1>9. job \in Stopping
    BY <1>5, <1>7 DEF Stopping
  <1> HIDE DEF job
  <1> QED
    BY <1>1, <1>2, <1>3, <1>4, <1>8, <1>9, StopUndoes

LEMMA RestNextKeeps ==
    ASSUME MountsInv, RestNext
    PROVE  CallKeeps /\ RestTyped' /\ RestInv'
  <1>1. ASSUME NEW r \in Resource, MountBegins(r)
        PROVE  CallKeeps /\ RestTyped' /\ RestInv'
    BY <1>1, MountBeginsKeeps
  <1>2. ASSUME NEW r \in Resource, UnmountBegins(r)
        PROVE  CallKeeps /\ RestTyped' /\ RestInv'
    BY <1>2, UnmountBeginsKeeps
  <1>3. ASSUME NEW j \in Job, JobStep(j)
        PROVE  CallKeeps /\ RestTyped' /\ RestInv'
    <2>1. j # "stop" => j \in Worker
      BY DEF Job, Worker
    <2> QED
      BY <1>3, <2>1, AddGoesOnKeeps, AddFailsKeeps, UndoGoesOnKeeps, AddGivenUpKeeps, AddDoneKeeps, UnmountGoesOnKeeps,
         RestStopGoesOnKeeps DEF JobStep
  <1>4. CASE RestHears
    BY <1>4, RestToldOfferKeeps, RestToldGoneKeeps, RestOnRevokeKeeps DEF RestHears
  <1>5. CASE RestInits \/ RestStarts \/ RestUnloads \/ RestRollsBack
    BY <1>5, RestInitsKeeps, RestStartsKeeps, RestUnloadsKeeps, RestRollsBackKeeps
  <1> QED
    BY <1>1, <1>2, <1>3, <1>4, <1>5 DEF RestNext

\* The state it starts in.
LEMMA MountsInit ==
    ASSUME Init
    PROVE  MountsInv
  <1>1. /\ srv = [state |-> "off", gen |-> 0] /\ table = <<>> /\ seq = 0 /\ guard = Nobody
        /\ spoiled = FALSE
        /\ leases = <<>> /\ watchers = <<>> /\ telling = <<>> /\ revoking = <<>>
        /\ life = [w \in Who |-> "absent"] /\ lives = [w \in Who |-> 0]
        /\ rest = [lease |-> 0, usable |-> FALSE] /\ mounts = NoMounts /\ stamps = 0
        /\ jobs = [j \in Job |-> Idle]
        /\ rpc = Fresh /\ mounting = [m \in Mount |-> NoMount]
    BY DEF Init, InitTable, RestInitial, RpcInitial
  <1>2. SrvTyped
    <2>1. DOMAIN table \subseteq 1 .. seq /\ seq \in Nat
      BY <1>1
    <2>2. srv \in [state : State, gen : 0 .. MaxGen] /\ srv.state = "off"
      BY <1>1 DEF State
    <2>3. guard \in Guards /\ spoiled \in BOOLEAN
      BY <1>1 DEF Guards
    <2> QED
      BY <2>1, <2>2, <2>3 DEF SrvTyped
  <1>3. RackTyped
    BY <1>1 DEF RackTyped, Life
  <1>4. DOMAIN mounts = {}
    BY <1>1 DEF NoMounts
  <1>5. \A j \in Job : jobs[j] = Idle
    BY <1>1
  <1>6. Idle.op = "idle" /\ Worker \subseteq Job /\ Job = {"invoke", "sink", "stop"}
    BY DEF Idle, Worker, Job
  <1>7. RestTyped
    BY <1>1, <1>4, <1>5, <1>6, FS_EmptySet DEF RestTyped, RecordsTyped, JobsTyped
  <1>8. RpcTyped
    BY <1>1 DEF RpcTyped, Fresh, NoMount
  <1>9. \A w : ~In(w, watchers) /\ ~In(w, telling)
    BY <1>1 DEF In
  <1>10. \A w \in Who : Cached[w] = 0 /\ life[w] = "absent"
    BY <1>1 DEF Cached, Fresh
  <1>11. LeaseInv
    BY <1>1, <1>10 DEF LeaseInv, LeasesFit
  <1>12. TellInv
    BY <1>1, <1>9, <1>10 DEF TellInv, Heard, Once, Watches
  <1>13. ~Available
    BY <1>1 DEF Available
  <1>14. \A m \in Mount : ~MountRuns(m)
    BY <1>1 DEF MountRuns
  <1>15. RpcInv
    BY <1>1, <1>10, <1>13, <1>14 DEF RpcInv, Fresh, Who, Mount, Adder
  <1>16. Paired(mounts, jobs)
    BY <1>5, <1>6 DEF Paired, Putting, Taking
  <1>17. RestSteady
    <2>1. \A j \in Job : ~Running(j) /\ ~Putting(jobs[j]) /\ ~Taking(jobs[j])
      BY <1>5, <1>6 DEF Running, Putting, Taking
    <2>2. life["rest"] = "absent" /\ DOMAIN table = {}
      BY <1>1, <1>10 DEF Who
    <2> QED
      BY <1>4, <1>6, <1>13, <2>1, <2>2 DEF RestSteady
  <1> QED
    BY <1>2, <1>3, <1>7, <1>8, <1>11, <1>12, <1>13, <1>15, <1>16, <1>17 DEF MountsInv, Typed, RestInv

-----------------------------------------------------------------------------
(* Leases and notices                                                      *)

LEMMA ListIs ==
    ASSUME NEW L \in Seq(Lease), NEW i \in 1 .. Len(L)
    PROVE  L[i] \in Lease /\ L[i].by \in Who /\ L[i].gen \in 1 .. MaxGen
  <1>1. L[i] \in Lease
    OBVIOUS
  <1> QED
    BY <1>1 DEF Lease

\* Two functions of the consumers differ for w at most.
ButFor(w, f, g) == \A v \in Who : v # w => g[v] = f[v]

LeavingStill(L, s, t) ==
    /\ s.gen \in Nat /\ t.gen \in Nat /\ s.gen <= t.gen
    /\ \A i \in 1 .. Len(L) : Leaving(s, L[i].gen) => Leaving(t, L[i].gen)
LifeStill(C, lf, D, lg) ==
    \A w \in Who :
      /\ lf[w] # "absent" => lg[w] # "absent"
      /\ lf[w] = "stopping" => lg[w] = "stopping"
      /\ D[w] = C[w] \/ (D[w] = 0 /\ lg[w] = "stopping")

\* The leases stay; who is forgotten by its cache is being stopped.
LEMMA FitsStill ==
    ASSUME NEW L \in Seq(Lease), NEW C, NEW D, NEW lf, NEW lg, NEW s, NEW t, LeasesFit(L, C, lf, s),
           LeavingStill(L, s, t), LifeStill(C, lf, D, lg)
    PROVE  LeasesFit(L, D, lg, t)
  <1> USE DEF LeavingStill, LifeStill
  <1>1. \A i \in 1 .. Len(L) : L[i].by \in Who /\ L[i].gen \in 1 .. MaxGen
    BY ListIs
  <1>2. ASSUME NEW i \in 1 .. Len(L)
        PROVE  Fits(L[i], D, lg, t)
    <2>1. Fits(L[i], C, lf, s)
      BY DEF LeasesFit
    <2>2. lg[L[i].by] # "absent" /\ L[i].gen <= t.gen
      BY <1>1, <2>1 DEF Fits
    <2>3. D[L[i].by] = L[i].gen \/ Leaving(t, L[i].gen) \/ lg[L[i].by] = "stopping"
      BY <1>1, <2>1 DEF Fits
    <2> QED
      BY <2>2, <2>3 DEF Fits
  <1>3. \A w \in Who : D[w] # 0 => \E i \in 1 .. Len(L) : L[i] = [by |-> w, gen |-> D[w]]
    BY DEF LeasesFit
  <1> QED
    BY <1>2, <1>3 DEF LeasesFit

\* Some leases were returned.
LEMMA FitsKept ==
    ASSUME NEW L \in Seq(Lease), NEW C, NEW D, NEW lf, NEW lg, NEW s, NEW t, LeasesFit(L, C, lf, s),
           NEW K, K \subseteq 1 .. Len(L), \A i \in K : Fits(L[i], D, lg, t),
           \A w \in Who : D[w] # 0 => \E i \in K : L[i] = [by |-> w, gen |-> D[w]]
    PROVE  Kept(L, K) \in Seq(Lease) /\ LeasesFit(Kept(L, K), D, lg, t)
  <1>1. PICK M : M = Kept(L, K)
    OBVIOUS
  <1>2. M \in Seq(Lease) /\ KeptFacts(L, K, M)
    BY <1>1, KeptIs
  <1>3. \A m, n \in 1 .. Len(M) : M[m].by = M[n].by => m = n
    <2> SUFFICES ASSUME NEW m \in 1 .. Len(M), NEW n \in 1 .. Len(M), m # n
                 PROVE  M[m].by # M[n].by
      OBVIOUS
    <2>1. PICK i, k \in K : i # k /\ M[m] = L[i] /\ M[n] = L[k]
      BY <1>2 DEF KeptFacts
    <2> QED
      BY <2>1 DEF LeasesFit
  <1>4. \A n \in 1 .. Len(M) : Fits(M[n], D, lg, t)
    <2> SUFFICES ASSUME NEW n \in 1 .. Len(M)
                 PROVE  Fits(M[n], D, lg, t)
      OBVIOUS
    <2>1. PICK i \in K : M[n] = L[i]
      BY <1>2 DEF KeptFacts
    <2> QED
      BY <2>1
  <1>5. \A w \in Who : D[w] # 0 => \E n \in 1 .. Len(M) : M[n] = [by |-> w, gen |-> D[w]]
    <2> SUFFICES ASSUME NEW w \in Who, D[w] # 0
                 PROVE  \E n \in 1 .. Len(M) : M[n] = [by |-> w, gen |-> D[w]]
      OBVIOUS
    <2>1. PICK i \in K : L[i] = [by |-> w, gen |-> D[w]]
      OBVIOUS
    <2>2. PICK n \in 1 .. Len(M) : M[n] = L[i]
      BY <1>2 DEF KeptFacts
    <2> QED
      BY <2>1, <2>2
  <1> QED
    BY <1>1, <1>2, <1>3, <1>4, <1>5 DEF LeasesFit

\* A consumer without a lease acquires one.
LEMMA FitsAppended ==
    ASSUME NEW L \in Seq(Lease), NEW C, NEW D, NEW lf, NEW lg, NEW s, LeasesFit(L, C, lf, s),
           NEW w \in Who, s.gen \in 1 .. MaxGen, s.state = "active", C[w] = 0, D[w] = s.gen,
           lf[w] # "stopping", lg[w] # "absent", ButFor(w, C, D), ButFor(w, lf, lg),
           NEW M, M = Append(L, [by |-> w, gen |-> s.gen])
    PROVE  LeasesFit(M, D, lg, s)
  <1> USE DEF ButFor
  <1> DEFINE new == [by |-> w, gen |-> s.gen]
  <1>1. M = Append(L, new)
    OBVIOUS
  <1>2. new \in Lease /\ new.by = w /\ new.gen = s.gen
    BY DEF Lease
  <1> HIDE DEF new
  <1>3. /\ M \in Seq(Lease) /\ Len(M) = Len(L) + 1 /\ Len(L) \in Nat /\ M[Len(L) + 1] = new
        /\ \A i \in 1 .. Len(L) : M[i] = L[i]
    BY <1>1, <1>2
  <1>4. \A i \in 1 .. Len(L) : L[i].by \in Who /\ L[i].gen \in 1 .. MaxGen
    BY ListIs
  <1>5. \A i \in 1 .. Len(L) : L[i].by # w
    <2> SUFFICES ASSUME NEW i \in 1 .. Len(L), L[i].by = w
                 PROVE  FALSE
      OBVIOUS
    <2>1. Fits(L[i], C, lf, s)
      BY DEF LeasesFit
    <2> QED
      BY <1>4, <2>1 DEF Fits, Leaving
  <1>6. \A i \in 1 .. Len(M) : i \in 1 .. Len(L) \/ (i = Len(L) + 1 /\ M[i] = new)
    BY <1>3
  <1>7. \A i, k \in 1 .. Len(M) : M[i].by = M[k].by => i = k
    BY <1>2, <1>3, <1>5, <1>6 DEF LeasesFit
  <1>8. \A i \in 1 .. Len(M) : Fits(M[i], D, lg, s)
    <2>1. ASSUME NEW i \in 1 .. Len(L)
          PROVE  Fits(L[i], D, lg, s)
      <3>1. Fits(L[i], C, lf, s)
        BY DEF LeasesFit
      <3> QED
        BY <1>4, <1>5, <3>1 DEF Fits
    <2>2. Fits(new, D, lg, s)
      BY <1>2 DEF Fits
    <2> QED
      BY <1>3, <1>6, <2>1, <2>2
  <1>9. \A v \in Who : D[v] # 0 => \E i \in 1 .. Len(M) : M[i] = [by |-> v, gen |-> D[v]]
    <2> SUFFICES ASSUME NEW v \in Who, D[v] # 0
                 PROVE  \E i \in 1 .. Len(M) : M[i] = [by |-> v, gen |-> D[v]]
      OBVIOUS
    <2>1. CASE v = w
      <3>1. Len(L) + 1 \in 1 .. Len(M) /\ new = [by |-> v, gen |-> D[v]]
        BY <1>3, <2>1 DEF new
      <3> QED
        BY <1>3, <3>1
    <2>2. CASE v # w
      <3>1. PICK i \in 1 .. Len(L) : L[i] = [by |-> v, gen |-> D[v]]
        BY <2>2 DEF LeasesFit
      <3>2. i \in 1 .. Len(M) /\ M[i] = L[i]
        BY <1>3
      <3> QED
        BY <3>1, <3>2
    <2> QED
      BY <2>1, <2>2
  <1> QED
    BY <1>3, <1>7, <1>8, <1>9 DEF LeasesFit

\* The same watch, and those still to be told do.
LEMMA HeardStill ==
    ASSUME NEW W, NEW T, NEW lf, NEW U, NEW lg, Heard(W, T, lf), Once(U),
           \A w \in Who : In(w, U) => In(w, T) \/ In(w, W),
           \A w \in Who : Watches(lg[w]) <=> Watches(lf[w])
    PROVE  Heard(W, U, lg)
  BY DEF Heard

LEMMA HeardJoins ==
    ASSUME NEW W \in Seq(Who), NEW T, NEW lf, NEW lg, Heard(W, T, lf), NEW w \in Who, ~Watches(lf[w]), Watches(lg[w]),
           ButFor(w, lf, lg), NEW V, V = Append(W, w)
    PROVE  V \in Seq(Who) /\ Heard(V, T, lg)
  <1> USE DEF ButFor
  <1>2. /\ V \in Seq(Who) /\ Len(V) = Len(W) + 1 /\ Len(W) \in Nat /\ V[Len(W) + 1] = w
        /\ \A i \in 1 .. Len(W) : V[i] = W[i]
    OBVIOUS
  <1>3. ~In(w, W)
    BY DEF Heard
  <1>4. \A i \in 1 .. Len(V) : i \in 1 .. Len(W) \/ (i = Len(W) + 1 /\ V[i] = w)
    BY <1>2
  <1>5. Once(V)
    <2> SUFFICES ASSUME NEW i \in 1 .. Len(V), NEW k \in 1 .. Len(V), V[i] = V[k]
                 PROVE  i = k
      BY DEF Once
    <2>1. CASE i \in 1 .. Len(W) /\ k \in 1 .. Len(W)
      BY <1>2, <2>1 DEF Heard, Once
    <2>2. CASE i \in 1 .. Len(W) /\ k \notin 1 .. Len(W)
      BY <1>2, <1>3, <1>4, <2>2 DEF In
    <2>3. CASE i \notin 1 .. Len(W) /\ k \in 1 .. Len(W)
      BY <1>2, <1>3, <1>4, <2>3 DEF In
    <2>4. CASE i \notin 1 .. Len(W) /\ k \notin 1 .. Len(W)
      BY <1>4, <2>4
    <2> QED
      BY <2>1, <2>2, <2>3, <2>4
  <1>6. Len(W) + 1 \in 1 .. Len(V) /\ 1 .. Len(W) \subseteq 1 .. Len(V)
    BY <1>2
  <1>7. In(w, V) /\ \A v : v # w => (In(v, V) <=> In(v, W))
    BY <1>2, <1>4, <1>6 DEF In
  <1> QED
    BY <1>2, <1>3, <1>5, <1>7 DEF Heard

Without(W, w) == Kept(W, {i \in DOMAIN W : W[i] # w})

LEMMA HeardLeaves ==
    ASSUME NEW W \in Seq(Who), NEW lf, NEW lg, Heard(W, <<>>, lf), NEW w \in Who, ~Watches(lg[w]), ButFor(w, lf, lg)
    PROVE  Without(W, w) \in Seq(Who) /\ Heard(Without(W, w), <<>>, lg)
  <1> DEFINE K == {i \in DOMAIN W : W[i] # w}
  <1>1. PICK V : V = Kept(W, K)
    OBVIOUS
  <1>2. K \subseteq 1 .. Len(W)
    OBVIOUS
  <1> HIDE DEF K
  <1>3. V \in Seq(Who) /\ KeptFacts(W, K, V)
    BY <1>1, <1>2, KeptIs
  <1>4. Once(V)
    <2> SUFFICES ASSUME NEW m \in 1 .. Len(V), NEW n \in 1 .. Len(V), m # n
                 PROVE  V[m] # V[n]
      BY DEF Once
    <2>1. PICK i, k \in K : i # k /\ V[m] = W[i] /\ V[n] = W[k]
      BY <1>3 DEF KeptFacts
    <2> QED
      BY <1>2, <2>1 DEF Heard, Once
  <1>5. ~In(w, V)
    BY <1>3 DEF In, KeptFacts, K
  <1>6. \A v : v # w => (In(v, V) <=> In(v, W))
    <2> SUFFICES ASSUME NEW v, v # w
                 PROVE  In(v, V) <=> In(v, W)
      OBVIOUS
    <2>1. ASSUME In(v, W)
          PROVE  In(v, V)
      <3>1. PICK i \in 1 .. Len(W) : W[i] = v
        BY <2>1 DEF In
      <3>2. i \in K
        BY <3>1 DEF K
      <3>3. PICK n \in 1 .. Len(V) : V[n] = W[i]
        BY <1>3, <3>2 DEF KeptFacts
      <3> QED
        BY <3>1, <3>3 DEF In
    <2>2. ASSUME In(v, V)
          PROVE  In(v, W)
      <3>1. PICK n \in 1 .. Len(V) : V[n] = v
        BY <2>2 DEF In
      <3>2. PICK i \in K : V[n] = W[i]
        BY <1>3 DEF KeptFacts
      <3> QED
        BY <1>2, <3>1, <3>2 DEF In
    <2> QED
      BY <2>1, <2>2
  <1>7. \A v : ~In(v, <<>>)
    BY DEF In
  <1>8. Once(<<>>)
    BY DEF Once
  <1>9. Heard(V, <<>>, lg)
    BY <1>4, <1>5, <1>6, <1>7, <1>8 DEF Heard, ButFor
  <1> QED
    BY <1>1, <1>3, <1>9 DEF K, Without

RackInv == RackTyped /\ LeaseInv /\ TellInv

\* What a consumer other than w has.
OthersKeep(w) == ButFor(w, Cached, Cached') /\ ButFor(w, life, life')

\* The instance stays in the state it has.
SrvKeeps == srv' = srv /\ (~Available => table' = table)

LEMMA RackFacts ==
    ASSUME MountsInv
    PROVE  /\ RackTyped /\ LeasesFit(leases, Cached, life, srv) /\ Heard(watchers, telling, life)
           /\ leases \in Seq(Lease) /\ watchers \in Seq(Who) /\ telling \in Seq(Who) /\ revoking \in Seq(Who)
           /\ life \in [Who -> Life] /\ lives \in [Who -> Nat]
           /\ (revoking # <<>> => srv.state = "revoking") /\ (srv.state = "off" => table = <<>>)
           /\ srv.gen \in 0 .. MaxGen /\ (srv.state # "off" => srv.gen \in 1 .. MaxGen)
  BY DEF MountsInv, LeaseInv, TellInv, Typed, RackTyped, SrvTyped, Lease

\* The parts put together again.
LEMMA RackIs ==
    ASSUME leases' \in Seq(Lease), watchers' \in Seq(Who), telling' \in Seq(Who), revoking' \in Seq(Who),
           life' \in [Who -> Life], lives' \in [Who -> Nat], LeasesFit(leases', Cached', life', srv'),
           Heard(watchers', telling', life'), revoking' # <<>> => srv'.state = "revoking", srv'.state = "off" => table' = <<>>
    PROVE  RackInv'
  BY DEF RackInv, RackTyped, LeaseInv, TellInv, Lease

\* A call, or a step that touches neither leases nor notices.
LEMMA RackStill ==
    ASSUME MountsInv, UNCHANGED <<rackVars, Cached>>, SrvKeeps
    PROVE  RackInv'
  <1>1. UNCHANGED <<leases, watchers, telling, revoking, life, lives>>
    BY DEF rackVars
  <1> QED
    BY <1>1, RackFacts, RackIs DEF SrvKeeps, Available

\* A consumer hears of an instance, and acquires a lease unless it has one.
LEMMA OfferHeard ==
    ASSUME MountsInv, NEW w \in Who, Told(w), Available, SrvKeeps, OthersKeep(w),
           UNCHANGED <<watchers, revoking, life, lives>>,
           \/ Cached[w] = 0 /\ Acquires(w) /\ Cached'[w] = srv.gen
           \/ UNCHANGED leases /\ Cached'[w] = Cached[w]
    PROVE  RackInv'
  <1>1. /\ RackTyped /\ LeasesFit(leases, Cached, life, srv) /\ Heard(watchers, telling, life)
        /\ leases \in Seq(Lease) /\ watchers \in Seq(Who) /\ telling \in Seq(Who) /\ revoking \in Seq(Who)
        /\ life \in [Who -> Life] /\ lives \in [Who -> Nat]
        /\ (revoking # <<>> => srv.state = "revoking") /\ srv.gen \in 1 .. MaxGen /\ srv.state = "active"
    BY RackFacts DEF Available
  <1>2. In(w, telling) /\ telling' \in Seq(Who) /\ Once(telling') /\ \A v \in Who : In(v, telling') => In(v, telling)
    BY ToldIs
  <1>3. Watches(life[w]) /\ life[w] # "stopping" /\ life[w] # "absent"
    BY <1>1, <1>2 DEF Heard, Watches
  <1>4. Heard(watchers', telling', life')
    BY <1>1, <1>2, HeardStill
  <1>5. leases' \in Seq(Lease) /\ LeasesFit(leases', Cached', life', srv')
    <2>1. CASE Cached[w] = 0 /\ Acquires(w) /\ Cached'[w] = srv.gen
      <3>1. PICK M, D : M = Append(leases, [by |-> w, gen |-> srv.gen]) /\ D = Cached'
        OBVIOUS
      <3>2. D[w] = srv.gen /\ ButFor(w, Cached, D) /\ ButFor(w, life, life)
        BY <2>1, <3>1 DEF OthersKeep, ButFor
      <3>3. LeasesFit(M, D, life, srv)
        BY <1>1, <1>3, <2>1, <3>1, <3>2, FitsAppended
      <3>4. [by |-> w, gen |-> srv.gen] \in Lease
        BY <1>1 DEF Lease
      <3>5. M \in Seq(Lease)
        BY <1>1, <3>1, <3>4
      <3> QED
        BY <2>1, <3>1, <3>3, <3>5 DEF Acquires, SrvKeeps
    <2>2. CASE UNCHANGED leases /\ Cached'[w] = Cached[w]
      <3>1. Cached' = Cached
        BY <2>2 DEF Cached, OthersKeep, ButFor
      <3> QED
        BY <1>1, <2>2, <3>1 DEF SrvKeeps
    <2> QED
      BY <2>1, <2>2
  <1> QED
    BY <1>1, <1>2, <1>4, <1>5, RackIs DEF SrvKeeps

\* A consumer hears that the instance is gone, and forgets nothing yet.
LEMMA GoneHeard ==
    ASSUME MountsInv, NEW w \in Who, Told(w), SrvKeeps,
           UNCHANGED <<leases, watchers, revoking, life, lives, Cached>>
    PROVE  RackInv'
  <1>1. telling' \in Seq(Who) /\ Once(telling') /\ \A v \in Who : In(v, telling') => In(v, telling)
    BY ToldIs
  <1>2. Heard(watchers, telling, life)
    BY RackFacts
  <1>3. Heard(watchers', telling', life')
    BY <1>1, <1>2, HeardStill
  <1> QED
    BY <1>1, <1>3, RackFacts, RackIs DEF SrvKeeps, Available

\* onRevoke(): the lease is returned, or a call is running under it.
LEMMA RevokeHeard ==
    ASSUME MountsInv, NEW w \in Who, Asked(w), SrvKeeps, OthersKeep(w),
           UNCHANGED <<watchers, telling, life, lives>>,
           \/ UNCHANGED leases /\ Cached'[w] = Cached[w]
           \/ Cached[w] = srv.gen /\ Cached'[w] = 0 /\ leases' = Returned(w)
    PROVE  RackInv'
  <1>1. /\ RackTyped /\ LeasesFit(leases, Cached, life, srv) /\ Heard(watchers, telling, life)
        /\ leases \in Seq(Lease) /\ watchers \in Seq(Who) /\ telling \in Seq(Who)
        /\ life \in [Who -> Life] /\ lives \in [Who -> Nat]
    BY RackFacts
  <1>2. srv.state = "revoking" /\ revoking' \in Seq(Who)
    BY AskedIs
  <1>3. leases' \in Seq(Lease) /\ LeasesFit(leases', Cached', life', srv')
    <2>1. CASE UNCHANGED leases /\ Cached'[w] = Cached[w]
      <3>1. Cached' = Cached
        BY <2>1 DEF Cached, OthersKeep, ButFor
      <3> QED
        BY <1>1, <2>1, <3>1 DEF SrvKeeps
    <2>2. CASE Cached[w] = srv.gen /\ Cached'[w] = 0 /\ leases' = Returned(w)
      <3> DEFINE R == {i \in 1 .. Len(leases) : leases[i] = [by |-> w, gen |-> srv.gen]}
      <3>1. PICK D : D = Cached'
        OBVIOUS
      <3>2. DOMAIN leases = 1 .. Len(leases) /\ LeasesOf(w, srv.gen) = R
        BY <1>1 DEF LeasesOf
      <3>3. \/ leases' = leases
            \/ leases' = Kept(leases, (1 .. Len(leases)) \ R)
        BY <2>2, <3>2 DEF Returned
      <3>4. ASSUME NEW i \in 1 .. Len(leases)
            PROVE  Fits(leases[i], D, life, srv)
        <4>1. Fits(leases[i], Cached, life, srv) /\ leases[i].by \in Who
          BY <1>1, ListIs DEF LeasesFit
        <4>2. CASE leases[i].by = w
          BY <1>2, <2>2, <4>1, <4>2 DEF Fits, Leaving
        <4>3. CASE leases[i].by # w
          BY <3>1, <4>1, <4>3 DEF Fits, OthersKeep, ButFor
        <4> QED
          BY <4>2, <4>3
      <3>5. ASSUME NEW v \in Who, D[v] # 0
            PROVE  \E i \in (1 .. Len(leases)) \ R : leases[i] = [by |-> v, gen |-> D[v]]
        <4>1. v # w /\ D[v] = Cached[v]
          BY <2>2, <3>1, <3>5 DEF OthersKeep, ButFor
        <4>2. PICK i \in 1 .. Len(leases) : leases[i] = [by |-> v, gen |-> D[v]]
          BY <1>1, <3>5, <4>1 DEF LeasesFit
        <4>3. i \notin R
          BY <4>1, <4>2
        <4> QED
          BY <4>2, <4>3
      <3>6. (1 .. Len(leases)) \ R \subseteq 1 .. Len(leases)
        OBVIOUS
      <3> HIDE DEF R
      <3>7. LeasesFit(leases, D, life, srv)
        BY <1>1, <3>4, <3>5 DEF LeasesFit
      <3>8. Kept(leases, (1 .. Len(leases)) \ R) \in Seq(Lease) /\ LeasesFit(Kept(leases, (1 .. Len(leases)) \ R), D, life, srv)
        BY <1>1, <3>4, <3>5, <3>6, FitsKept
      <3> QED
        BY <1>1, <3>1, <3>3, <3>7, <3>8 DEF SrvKeeps
    <2> QED
      BY <2>1, <2>2
  <1> QED
    BY <1>1, <1>2, <1>3, RackIs DEF SrvKeeps

LEMMA LifeSet ==
    ASSUME MountsInv, NEW w \in Who, NEW state \in Life, life' = [life EXCEPT ![w] = state]
    PROVE  life' \in [Who -> Life] /\ life'[w] = state /\ ButFor(w, life, life')
  BY RackFacts DEF ButFor

\* init(): a consumer watches, and may hear of an instance at once.
LEMMA JoinsHeard ==
    ASSUME MountsInv, NEW w \in Who, Calm, life[w] = "absent", life' = [life EXCEPT ![w] = "initialized"],
           lives' \in [Who -> Nat], watchers' = Append(watchers, w), UNCHANGED <<telling, revoking>>, SrvKeeps,
           ButFor(w, Cached, Cached'),
           \/ Available /\ Cached[w] = 0 /\ Acquires(w) /\ Cached'[w] = srv.gen
           \/ UNCHANGED leases /\ Cached'[w] = Cached[w]
    PROVE  RackInv'
  <1>1. /\ RackTyped /\ LeasesFit(leases, Cached, life, srv) /\ Heard(watchers, telling, life)
        /\ leases \in Seq(Lease) /\ watchers \in Seq(Who) /\ telling \in Seq(Who) /\ revoking \in Seq(Who)
        /\ srv.gen \in 0 .. MaxGen /\ (srv.state # "off" => srv.gen \in 1 .. MaxGen)
    BY RackFacts
  <1>2. life' \in [Who -> Life] /\ life'[w] = "initialized" /\ ButFor(w, life, life')
    BY LifeSet DEF Life
  <1>3. watchers' \in Seq(Who) /\ Heard(watchers', telling', life')
    <2>1. PICK V, lg : V = Append(watchers, w) /\ lg = life'
      OBVIOUS
    <2>2. ~Watches(life[w]) /\ Watches(lg[w]) /\ ButFor(w, life, lg)
      BY <1>2, <2>1 DEF Watches
    <2>3. V \in Seq(Who) /\ Heard(V, telling, lg)
      BY <1>1, <2>1, <2>2, HeardJoins
    <2> QED
      BY <2>1, <2>3
  <1>4. leases' \in Seq(Lease) /\ LeasesFit(leases', Cached', life', srv')
    <2>1. PICK D, lg : D = Cached' /\ lg = life'
      OBVIOUS
    <2>2. CASE Available /\ Cached[w] = 0 /\ Acquires(w) /\ Cached'[w] = srv.gen
      <3>1. PICK M : M = Append(leases, [by |-> w, gen |-> srv.gen])
        OBVIOUS
      <3>2. D[w] = srv.gen /\ ButFor(w, Cached, D) /\ ButFor(w, life, lg)
        BY <1>2, <2>1, <2>2
      <3>3. srv.gen \in 1 .. MaxGen /\ srv.state = "active" /\ lg[w] # "absent" /\ life[w] # "stopping"
        BY <1>1, <1>2, <2>1, <2>2 DEF Available
      <3>4. LeasesFit(M, D, lg, srv)
        BY <1>1, <2>2, <3>1, <3>2, <3>3, FitsAppended
      <3>5. [by |-> w, gen |-> srv.gen] \in Lease
        BY <3>3 DEF Lease
      <3>6. M \in Seq(Lease)
        BY <1>1, <3>1, <3>5
      <3> QED
        BY <2>1, <2>2, <3>1, <3>4, <3>6 DEF Acquires, SrvKeeps
    <2>3. CASE UNCHANGED leases /\ Cached'[w] = Cached[w]
      <3>1. \A v \in Who : D[v] = Cached[v]
        BY <2>1, <2>3 DEF ButFor
      <3>2. LeavingStill(leases, srv, srv) /\ LifeStill(Cached, life, D, lg)
        BY <1>1, <1>2, <2>1, <3>1 DEF LeavingStill, LifeStill, ButFor
      <3>3. LeasesFit(leases, D, lg, srv)
        BY <1>1, <3>2, FitsStill
      <3> QED
        BY <1>1, <2>1, <2>3, <3>3 DEF SrvKeeps
    <2> QED
      BY <2>2, <2>3
  <1> QED
    BY <1>1, <1>2, <1>3, <1>4, RackFacts, RackIs DEF SrvKeeps, Available

\* start(), or stop() of a rollback: the state the host has a consumer in changes.
LEMMA StartsHeard ==
    ASSUME MountsInv, NEW w \in Who, life[w] = "initialized", life' = [life EXCEPT ![w] = "active"],
           UNCHANGED <<leases, watchers, telling, revoking, lives, Cached>>, SrvKeeps
    PROVE  RackInv'
  <1>1. /\ LeasesFit(leases, Cached, life, srv) /\ Heard(watchers, telling, life)
        /\ leases \in Seq(Lease) /\ srv.gen \in 0 .. MaxGen
    BY RackFacts
  <1>2. life' \in [Who -> Life] /\ life'[w] = "active" /\ ButFor(w, life, life')
    BY LifeSet DEF Life
  <1>3. PICK lg : lg = life'
    OBVIOUS
  <1>4. LeasesFit(leases, Cached, lg, srv)
    <2>1. LeavingStill(leases, srv, srv) /\ LifeStill(Cached, life, Cached, lg)
      BY <1>1, <1>2, <1>3 DEF LeavingStill, LifeStill, ButFor
    <2> QED
      BY <1>1, <2>1, FitsStill
  <1>5. Heard(watchers, telling, lg)
    <2>1. \A v \in Who : Watches(lg[v]) <=> Watches(life[v])
      BY <1>2, <1>3 DEF Watches, ButFor
    <2> QED
      BY <1>1, <2>1 DEF Heard
  <1> QED
    BY <1>2, <1>3, <1>4, <1>5, RackFacts, RackIs DEF SrvKeeps, Available

LEMMA UnwatchesHeard ==
    ASSUME MountsInv, NEW w \in Who, Calm, Unwatches(w), UNCHANGED telling,
           ~Watches(life'[w]), ButFor(w, life, life')
    PROVE  watchers' \in Seq(Who) /\ Heard(watchers', telling', life')
  <1>1. PICK lg : lg = life'
    OBVIOUS
  <1>2. Heard(watchers, <<>>, life) /\ watchers \in Seq(Who) /\ telling' = <<>>
    BY RackFacts DEF Calm
  <1>3. ~Watches(lg[w]) /\ ButFor(w, life, lg)
    BY <1>1
  <1>4. Without(watchers, w) \in Seq(Who) /\ Heard(Without(watchers, w), <<>>, lg)
    BY <1>2, <1>3, HeardLeaves
  <1>5. watchers' = Without(watchers, w)
    BY DEF Unwatches, Without
  <1> QED
    BY <1>1, <1>2, <1>4, <1>5

LEMMA StopsHeard ==
    ASSUME MountsInv, NEW w \in Who, Calm, life' = [life EXCEPT ![w] = "stopping"], Unwatches(w),
           life[w] = "active", UNCHANGED <<leases, telling, revoking, lives>>, SrvKeeps,
           ButFor(w, Cached, Cached'), Cached'[w] \in {0, Cached[w]}
    PROVE  RackInv'
  <1>1. LeasesFit(leases, Cached, life, srv) /\ leases \in Seq(Lease) /\ srv.gen \in 0 .. MaxGen
    BY RackFacts
  <1>2. life' \in [Who -> Life] /\ life'[w] = "stopping" /\ ButFor(w, life, life')
    BY LifeSet DEF Life
  <1>3. PICK lg, D : lg = life' /\ D = Cached'
    OBVIOUS
  <1>4. LeasesFit(leases, D, lg, srv)
    <2>1. LeavingStill(leases, srv, srv) /\ LifeStill(Cached, life, D, lg)
      BY <1>1, <1>2, <1>3 DEF LeavingStill, LifeStill, ButFor
    <2> QED
      BY <1>1, <2>1, FitsStill
  <1>5. watchers' \in Seq(Who) /\ Heard(watchers', telling', life')
    BY <1>2, UnwatchesHeard DEF Watches
  <1> QED
    BY <1>2, <1>3, <1>4, <1>5, RackFacts, RackIs DEF SrvKeeps, Available

\* The host forgets a consumer.
LEMMA EndsHeard ==
    ASSUME MountsInv, NEW w \in Who, Calm, Forgotten(w), UNCHANGED <<telling, revoking, lives>>, SrvKeeps,
           ButFor(w, Cached, Cached'), Cached'[w] = 0
    PROVE  RackInv'
  <1>1. LeasesFit(leases, Cached, life, srv) /\ leases \in Seq(Lease) /\ srv.gen \in 0 .. MaxGen
    BY RackFacts
  <1>2. life' \in [Who -> Life] /\ life'[w] = "absent" /\ ButFor(w, life, life')
    BY LifeSet DEF Life, Forgotten
  <1>3. PICK lg, D : lg = life' /\ D = Cached'
    OBVIOUS
  <1> DEFINE K == {i \in DOMAIN leases : leases[i].by # w}
  <1>4. K \subseteq 1 .. Len(leases) /\ \A i \in 1 .. Len(leases) : i \in K <=> leases[i].by # w
    BY <1>1
  <1>5. leases' = Kept(leases, K)
    BY DEF Forgotten
  <1> HIDE DEF K
  <1>6. ASSUME NEW i \in K
        PROVE  Fits(leases[i], D, lg, srv)
    <2>1. Fits(leases[i], Cached, life, srv) /\ leases[i].by \in Who /\ leases[i].by # w
      BY <1>1, <1>4, ListIs DEF LeasesFit
    <2> QED
      BY <1>2, <1>3, <2>1 DEF Fits, ButFor
  <1>7. ASSUME NEW v \in Who, D[v] # 0
        PROVE  \E i \in K : leases[i] = [by |-> v, gen |-> D[v]]
    <2>1. v # w /\ D[v] = Cached[v]
      BY <1>3, <1>7 DEF ButFor
    <2>2. PICK i \in 1 .. Len(leases) : leases[i] = [by |-> v, gen |-> D[v]]
      BY <1>1, <1>7, <2>1 DEF LeasesFit
    <2> QED
      BY <1>4, <2>1, <2>2
  <1>8. Kept(leases, K) \in Seq(Lease) /\ LeasesFit(Kept(leases, K), D, lg, srv)
    BY <1>1, <1>4, <1>6, <1>7, FitsKept
  <1>9. watchers' \in Seq(Who) /\ Heard(watchers', telling', life')
    BY <1>2, UnwatchesHeard DEF Watches, Forgotten
  <1> QED
    BY <1>2, <1>3, <1>5, <1>8, <1>9, RackFacts, RackIs DEF SrvKeeps, Available

LEMMA CachedMoves ==
    ASSUME TRUE
    PROVE  /\ Cached["rest"] = rest.lease /\ Cached["rpc"] = rpc.lease
           /\ Cached'["rest"] = rest'.lease /\ Cached'["rpc"] = rpc'.lease
           /\ rpc'.lease = rpc.lease => ButFor("rest", Cached, Cached')
           /\ rest'.lease = rest.lease => ButFor("rpc", Cached, Cached')
           /\ rest'.lease = rest.lease /\ rpc'.lease = rpc.lease => Cached' = Cached
  BY DEF Cached, Who, ButFor

LEMMA SameLife ==
    ASSUME UNCHANGED life
    PROVE  \A w \in Who : ButFor(w, life, life')
  BY DEF ButFor

LEMMA RestRack ==
    ASSUME MountsInv, RestNext, UNCHANGED rpcVars
    PROVE  RackInv'
  <1>1. SrvKeeps
    BY RestNextKeeps DEF CallKeeps, SrvKeeps
  <1>2. rpc' = rpc
    BY DEF rpcVars
  <1>3. "rest" \in Who
    BY DEF Who
  <1>4. ASSUME UNCHANGED <<rest, rackVars>>
        PROVE  RackInv'
    BY <1>1, <1>2, <1>4, CachedMoves, RackStill
  <1>5. ASSUME NEW r \in Resource, MountBegins(r) \/ UnmountBegins(r)
        PROVE  RackInv'
    BY <1>4, <1>5 DEF MountBegins, UnmountBegins
  <1>6. ASSUME Calm, RestEnds
        PROVE  RackInv'
    <2>1. Forgotten("rest") /\ UNCHANGED <<telling, revoking, lives>> /\ rest'.lease = 0
      BY <1>6 DEF RestEnds
    <2> QED
      BY <1>1, <1>2, <1>3, <1>6, <2>1, CachedMoves, EndsHeard
  <1>7. ASSUME NEW j \in Job, JobStep(j)
        PROVE  RackInv'
    <2>1. CASE j # "stop" /\ (AddGoesOn(j) \/ AddFails(j) \/ UndoGoesOn(j) \/ AddGivenUp(j) \/ AddDone(j))
      BY <1>4, <2>1 DEF AddGoesOn, AddFails, UndoGoesOn, AddGivenUp, AddDone
    <2>2. CASE UnmountGoesOn
      BY <1>4, <2>2 DEF UnmountGoesOn
    <2>3. CASE RestStopGoesOn
      BY <1>4, <1>6, <2>3 DEF RestStopGoesOn, Answered
    <2> QED
      BY <1>7, <2>1, <2>2, <2>3 DEF JobStep
  <1>8. CASE RestToldOffer
    <2>1. Told("rest") /\ Available /\ UNCHANGED <<watchers, revoking, life, lives>>
      BY <1>8 DEF RestToldOffer
    <2>2. \/ rest.lease = 0 /\ Acquires("rest") /\ rest'.lease = srv.gen
          \/ UNCHANGED leases /\ rest'.lease = rest.lease
      BY <1>8 DEF RestToldOffer, Offered, Borrows
    <2>3. OthersKeep("rest")
      BY <1>2, <1>3, <2>1, CachedMoves, SameLife DEF OthersKeep
    <2> QED
      BY <1>1, <1>3, <2>1, <2>2, <2>3, CachedMoves, OfferHeard
  <1>9. CASE RestToldGone
    <2>1. Told("rest") /\ UNCHANGED <<leases, watchers, revoking, life, lives>> /\ rest'.lease = rest.lease
      BY <1>9 DEF RestToldGone, MountsInv, Typed, RestTyped
    <2> QED
      BY <1>1, <1>2, <1>3, <2>1, CachedMoves, GoneHeard
  <1>10. CASE RestOnRevoke
    <2>1. Asked("rest") /\ UNCHANGED <<watchers, telling, life, lives>>
      BY <1>10 DEF RestOnRevoke
    <2>2. \/ UNCHANGED leases /\ rest'.lease = rest.lease
          \/ rest.lease = srv.gen /\ rest'.lease = 0 /\ leases' = Returned("rest")
      BY <1>10 DEF RestOnRevoke, LeaseCleared
    <2>3. OthersKeep("rest")
      BY <1>2, <1>3, <2>1, CachedMoves, SameLife DEF OthersKeep
    <2> QED
      BY <1>1, <1>3, <2>1, <2>2, <2>3, CachedMoves, RevokeHeard
  <1>11. CASE RestInits
    <2>1. /\ Calm /\ life["rest"] = "absent" /\ life' = [life EXCEPT !["rest"] = "initialized"]
          /\ watchers' = Append(watchers, "rest") /\ UNCHANGED <<telling, revoking>>
          /\ lives' = [lives EXCEPT !["rest"] = @ + 1]
      BY <1>11 DEF RestInits
    <2>2. lives' \in [Who -> Nat]
      BY <1>3, <2>1, RackFacts
    <2>3. \/ Available /\ rest.lease = 0 /\ Acquires("rest") /\ rest'.lease = srv.gen
          \/ UNCHANGED leases /\ rest'.lease = rest.lease
      BY <1>11 DEF RestInits, Offered, Borrows
    <2> QED
      BY <1>1, <1>2, <1>3, <2>1, <2>2, <2>3, CachedMoves, JoinsHeard
  <1>12. CASE RestStarts
    <2>1. /\ life["rest"] = "initialized" /\ life' = [life EXCEPT !["rest"] = "active"]
          /\ UNCHANGED <<leases, watchers, telling, revoking, lives>> /\ rest' = rest
      BY <1>12 DEF RestStarts, restVars
    <2> QED
      BY <1>1, <1>2, <1>3, <2>1, CachedMoves, StartsHeard
  <1>13. CASE RestUnloads
    BY <1>6, <1>13 DEF RestUnloads
  <1>14. CASE RestRollsBack
    <2>1. /\ Calm /\ life["rest"] = "active" /\ life' = [life EXCEPT !["rest"] = "stopping"] /\ Unwatches("rest")
          /\ UNCHANGED <<leases, telling, revoking, lives>> /\ rest'.lease = 0
      BY <1>14 DEF RestRollsBack
    <2> QED
      BY <1>1, <1>2, <1>3, <2>1, CachedMoves, StopsHeard
  <1> QED
    BY <1>5, <1>7, <1>8, <1>9, <1>10, <1>11, <1>12, <1>13, <1>14 DEF RestNext, RestHears

\* A step of one consumer is nothing to the other but for the table and the guard.
LEMMA RestApart ==
    ASSUME MountsInv, RestNext
    PROVE  life'["rpc"] = life["rpc"] /\ (In("rpc", telling') => In("rpc", telling))
  <1>1. "rest" \in Who /\ "rpc" \in Who /\ life \in [Who -> Life]
    BY RackFacts DEF Who
  <1>2. ASSUME UNCHANGED rackVars
        PROVE  life'["rpc"] = life["rpc"] /\ (In("rpc", telling') => In("rpc", telling))
    BY <1>2 DEF rackVars
  <1>3. ASSUME NEW r \in Resource, MountBegins(r) \/ UnmountBegins(r)
        PROVE  UNCHANGED rackVars
    BY <1>3 DEF MountBegins, UnmountBegins
  <1>4. ASSUME RestEnds
        PROVE  life'["rpc"] = life["rpc"] /\ telling' = telling
    BY <1>1, <1>4 DEF RestEnds, Forgotten
  <1>5. ASSUME NEW j \in Job, JobStep(j)
        PROVE  life'["rpc"] = life["rpc"] /\ (In("rpc", telling') => In("rpc", telling))
    <2>1. CASE j # "stop" /\ (AddGoesOn(j) \/ AddFails(j) \/ UndoGoesOn(j) \/ AddGivenUp(j) \/ AddDone(j))
      BY <1>2, <2>1 DEF AddGoesOn, AddFails, UndoGoesOn, AddGivenUp, AddDone
    <2>2. CASE UnmountGoesOn
      BY <1>2, <2>2 DEF UnmountGoesOn
    <2>3. CASE RestStopGoesOn
      BY <1>2, <1>4, <2>3 DEF RestStopGoesOn
    <2> QED
      BY <1>5, <2>1, <2>2, <2>3 DEF JobStep
  <1>6. CASE RestToldOffer \/ RestToldGone
    <2>1. Told("rest") /\ life' = life
      BY <1>6 DEF RestToldOffer, RestToldGone
    <2> QED
      BY <1>1, <2>1, ToldIs
  <1>7. CASE RestOnRevoke
    BY <1>7 DEF RestOnRevoke
  <1>8. CASE RestInits \/ RestStarts \/ RestRollsBack
    BY <1>1, <1>8 DEF RestInits, RestStarts, RestRollsBack
  <1>9. CASE RestUnloads
    BY <1>4, <1>9 DEF RestUnloads
  <1> QED
    BY <1>2, <1>3, <1>5, <1>6, <1>7, <1>8, <1>9 DEF RestNext, RestHears

LEMMA RpcFrame ==
    ASSUME MountsInv, RestNext, UNCHANGED rpcVars
    PROVE  RpcTyped' /\ RpcInv'
  <1>1. rpc' = rpc /\ mounting' = mounting
    BY DEF rpcVars
  <1>2. life'["rpc"] = life["rpc"] /\ (In("rpc", telling') => In("rpc", telling))
    BY RestApart
  <1>3. srv' = srv /\ (spoiled => spoiled') /\ (Available /\ ~spoiled' => \A id : IsRpc(table', id) <=> IsRpc(table, id))
    BY RestNextKeeps DEF CallKeeps
  <1>4. RpcTyped'
    BY <1>1 DEF MountsInv, Typed, RpcTyped
  <1>6. ASSUME Available', ~spoiled'
        PROVE  RpcGood'
    <2>1. RpcGood
      BY <1>3, <1>6 DEF MountsInv, RpcInv, Available
    <2>2. \A id : IsRpc(table', id) <=> IsRpc(table, id)
      BY <1>3, <1>6 DEF Available
    <2>3. MountedHere' <=> MountedHere
      BY <1>1, <1>3 DEF MountedHere
    <2>4. RpcExact => RpcExact'
      BY <1>1, <2>2, <2>3 DEF RpcExact, MountRuns
    <2> QED
      BY <1>1, <1>3, <2>1, <2>2, <2>3, <2>4 DEF RpcGood, MountRuns
  <1>7. RpcInv
    BY DEF MountsInv
  <1> QED
    BY <1>1, <1>2, <1>3, <1>4, <1>6, <1>7 DEF RpcInv, MountRuns, Available

-----------------------------------------------------------------------------
(* The steps of std.rpc                                                    *)

\* What a call of std.rpc leaves alone.
RpcCalls ==
    /\ SrvTyped' /\ srv' = srv /\ (spoiled => spoiled') /\ (~Available => table' = table)
    /\ OfSomeone(table') /\ seq <= seq'
    /\ Available /\ ~spoiled' =>
         /\ \A id : IsRpc(table', id) => IsRpc(table, id) \/ id > seq
         /\ \A r \in Resource : Keeps(table, table', r)
         /\ \A id \in DOMAIN table' : IsRpc(table', id) \/ (id \in DOMAIN table /\ ~IsRpc(table, id))

LEMMA RestFrame ==
    ASSUME MountsInv, RpcCalls, UNCHANGED restVars, life'["rest"] = life["rest"],
           In("rest", telling') <=> In("rest", telling)
    PROVE  RestTyped' /\ RestInv'
  <1>1. rest' = rest /\ mounts' = mounts /\ stamps' = stamps /\ jobs' = jobs
    BY DEF restVars
  <1>2. RestTyped'
    BY <1>1 DEF MountsInv, Typed, RestTyped
  <1>3. RestInv
    BY DEF MountsInv
  <1>4. Paired(mounts', jobs')
    BY <1>1, <1>3 DEF RestInv
  <1>5. RestSteady'
    BY <1>1, <1>3 DEF RestInv, RestSteady, Running, Being, RpcCalls, OfSomeone, Available
  <1>6. ASSUME Available', ~spoiled'
        PROVE  RestGood'
    <2>1. Available /\ ~spoiled /\ srv' = srv /\ seq' \in Nat /\ seq <= seq'
      BY <1>6 DEF RpcCalls, Available, SrvTyped
    <2>2. RestGood
      BY <1>3, <2>1 DEF RestInv
    <2>3. /\ \A id : IsRpc(table', id) => IsRpc(table, id) \/ id > seq
          /\ \A r \in Resource : Keeps(table, table', r)
          /\ \A id \in DOMAIN table' : IsRpc(table', id) \/ (id \in DOMAIN table /\ ~IsRpc(table, id))
      BY <1>6, <2>1 DEF RpcCalls
    <2>4. Good(mounts, jobs, table', seq', srv.gen)
      <3>1. Good(mounts, jobs, table, seq, srv.gen) /\ Shape(mounts, jobs, table, seq)
        BY <2>2, ShapeIs DEF RestGood
      <3>2. PICK T, n : T = table' /\ n = seq'
        OBVIOUS
      <3>3. Good(mounts, jobs, T, n, srv.gen)
        BY <2>1, <2>3, <3>1, <3>2, TableMoves
      <3> QED
        BY <3>2, <3>3
    <2> QED
      BY <1>1, <2>1, <2>2, <2>4 DEF RestGood
  <1> QED
    BY <1>2, <1>4, <1>5, <1>6 DEF RestInv

\* Nothing is called: the guard and what is told of the routes may change.
LEMMA RpcCallsNothing ==
    ASSUME MountsInv, UNCHANGED <<srv, table, seq>>, guard' \in Guards, spoiled' \in BOOLEAN, spoiled => spoiled'
    PROVE  RpcCalls
  <1>1. SrvTyped /\ OfSomeone(table)
    BY ShapeIs DEF Typed
  <1>2. SrvTyped'
    BY <1>1 DEF SrvTyped
  <1>3. \A r \in Resource : Keeps(table, table', r)
    BY DEF Keeps
  <1>4. \A id \in DOMAIN table' : IsRpc(table', id) \/ (id \in DOMAIN table /\ ~IsRpc(table, id))
    OBVIOUS
  <1>5. seq <= seq'
    BY <1>1 DEF SrvTyped
  <1> QED
    BY <1>1, <1>2, <1>3, <1>4, <1>5 DEF RpcCalls

LEMMA MountTaskTyped ==
    ASSUME NEW m \in Mount
    PROVE  MountTask(m) \in Guards
  BY DEF MountTask, Guards

\* route.add of POST /rpc: refused, or it is on the table under a new id.
LEMMA RpcAddIs ==
    ASSUME MountsInv, NEW m \in Mount, NEW lease, RouteAdd(MountTask(m), "rpc", lease, RpcRoute)
    PROVE  /\ RpcCalls /\ spoiled' = spoiled /\ AddAnswer("rpc", lease, RpcRoute) \in Nat
           /\ \/ AddAnswer("rpc", lease, RpcRoute) = 0 /\ table' = table
              \/ /\ AddAnswer("rpc", lease, RpcRoute) = seq + 1 /\ seq + 1 # 0 /\ Available /\ lease = srv.gen
                 /\ \A id : ~IsRpc(table, id)
                 /\ \A id : IsRpc(table', id) <=> id = seq + 1
  <1>1. SrvTyped /\ OfSomeone(table) /\ seq \in Nat /\ DOMAIN table \subseteq 1 .. seq
    BY ShapeIs DEF Typed, SrvTyped
  <1> DEFINE a == AddAnswer("rpc", lease, RpcRoute)
  <1>2. /\ SrvTyped' /\ srv' = srv /\ spoiled' = spoiled /\ a \in Nat
        /\ \/ a = 0 /\ table' = table /\ seq' = seq
           \/ /\ a = seq + 1 /\ seq' = seq + 1 /\ Available /\ lease = srv.gen
              /\ ~Duplicate(RpcRoute) /\ Grows(table, table', seq + 1, RpcRoute)
    BY <1>1, MountTaskTyped, RouteAddIs
  <1> HIDE DEF a
  <1>3. CASE a = 0 /\ table' = table /\ seq' = seq
    <2>1. RpcCalls
      BY <1>2, <1>3, RpcCallsNothing DEF SrvTyped
    <2> QED
      BY <1>2, <1>3, <2>1 DEF a
  <1>4. CASE /\ a = seq + 1 /\ seq' = seq + 1 /\ Available /\ lease = srv.gen
             /\ ~Duplicate(RpcRoute) /\ Grows(table, table', seq + 1, RpcRoute)
    <2>1. seq + 1 # 0 /\ seq + 1 > seq /\ seq <= seq' /\ seq + 1 \notin DOMAIN table
      BY <1>1, <1>4
    <2>2. \A id : ~IsRpc(table, id)
      BY <1>4 DEF Duplicate, IsRpc
    <2>3. \A id : IsRpc(table', id) <=> id = seq + 1
      BY <1>4, <2>1, <2>2 DEF Grows, IsRpc
    <2>4. \A r \in Resource : Keeps(table, table', r)
      BY <1>4 DEF Keeps, Grows
    <2>5. \A id \in DOMAIN table' : IsRpc(table', id) \/ (id \in DOMAIN table /\ ~IsRpc(table, id))
      BY <1>4, <2>2, <2>3 DEF Grows
    <2>6. OfSomeone(table')
      BY <1>1, <1>4, <2>2, <2>3, <2>5 DEF OfSomeone, Grows
    <2>7. RpcCalls
      BY <1>2, <1>4, <2>1, <2>3, <2>4, <2>5, <2>6 DEF RpcCalls
    <2> QED
      BY <1>2, <1>4, <2>1, <2>2, <2>3, <2>7 DEF a
  <1> QED
    BY <1>2, <1>3, <1>4

RpcType == [lease : 0 .. MaxGen, usable : BOOLEAN, mounted : BOOLEAN, id : Nat, of : 0 .. MaxGen,
             scheduled : BOOLEAN]

LEMMA RpcFacts ==
    ASSUME MountsInv
    PROVE  /\ rpc \in RpcType /\ mounting \in [Mount -> [gen : 0 .. MaxGen, ans : Nat]] /\ RpcInv
           /\ Adder \subseteq Mount /\ Mount = {"sink", "first", "stop"} /\ "rpc" \in Who
           /\ SrvTyped /\ srv.gen \in 0 .. MaxGen
  BY DEF MountsInv, Typed, RpcTyped, RpcType, Adder, Mount, Who, SrvTyped

\* No lease is one of a generation to come.
LEMMA CachedIsPast ==
    ASSUME MountsInv
    PROVE  rpc.lease <= srv.gen
  <1>1. LeasesFit(leases, Cached, life, srv) /\ srv.gen \in 0 .. MaxGen /\ Cached["rpc"] = rpc.lease
    BY RackFacts, CachedMoves
  <1>2. CASE rpc.lease = 0
    BY <1>1, <1>2
  <1>3. CASE rpc.lease # 0
    <2>1. PICK i \in 1 .. Len(leases) : leases[i] = [by |-> "rpc", gen |-> rpc.lease]
      BY <1>1, <1>3 DEF LeasesFit, Who
    <2>2. leases[i].gen <= srv.gen
      BY <1>1 DEF LeasesFit, Fits
    <2> QED
      BY <2>1, <2>2
  <1> QED
    BY <1>2, <1>3

\* With no call under way the route of std.rpc may be mounted, under the lease it has or
\* the one it borrows.
LEMMA MayMount ==
    ASSUME MountsInv, \A k \in Mount : ~MountRuns(k), ~In("rpc", telling'), life'["rpc"] \in {"initialized", "active"},
           NEW lease, rpc' \in RpcType, rpc'.lease = lease, rpc'.mounted = rpc.mounted, rpc'.id = rpc.id, rpc'.of = rpc.of,
           lease = rpc.lease \/ (rpc.lease = 0 /\ Available /\ lease = srv.gen), NEW m \in Adder,
           (MountRoute(m, lease) /\ life'["rpc"] = "active") \/ UNCHANGED <<mounting, srvVars>>
    PROVE  RpcCalls /\ RpcTyped' /\ RpcInv'
  <1>1. /\ rpc \in RpcType /\ mounting \in [Mount -> [gen : 0 .. MaxGen, ans : Nat]] /\ RpcInv
        /\ Adder \subseteq Mount /\ Mount = {"sink", "first", "stop"} /\ SrvTyped /\ srv.gen \in 0 .. MaxGen
    BY RpcFacts
  <1>2. lease \in 0 .. MaxGen /\ (lease = 0 => rpc.lease = 0)
    BY <1>1 DEF RpcType
  <1>3. ASSUME Available, ~spoiled
        PROVE  /\ lease # srv.gen => ~MountedHere /\ \A id : ~IsRpc(table, id)
               /\ MountedHere => \A id : IsRpc(table, id) <=> id = rpc.id
               /\ ~MountedHere => \A id : ~IsRpc(table, id)
    <2>1. RpcGood /\ srv.gen # 0
      BY <1>1, <1>3, AvailableIs DEF RpcInv
    <2>2. rpc.lease = srv.gen => RpcExact
      BY <1>1, <2>1 DEF RpcGood
    <2>3. rpc.lease # srv.gen => ~MountedHere /\ \A id : ~IsRpc(table, id)
      BY <2>1 DEF RpcGood
    <2>4. RpcExact => /\ MountedHere => \A id : IsRpc(table, id) <=> id = rpc.id
                      /\ ~MountedHere => \A id : ~IsRpc(table, id)
      BY <1>1 DEF RpcExact
    <2> QED
      BY <2>1, <2>2, <2>3, <2>4
  <1>4. (rpc.mounted => rpc.of <= srv.gen) /\ lease <= srv.gen
    BY <1>1, CachedIsPast DEF RpcInv
  <1>5. CASE UNCHANGED <<mounting, srvVars>>
    <2>1. mounting' = mounting /\ srv' = srv /\ table' = table /\ seq' = seq /\ guard' = guard /\ spoiled' = spoiled
      BY <1>5 DEF srvVars
    <2>2. RpcCalls
      BY <1>1, <2>1, RpcCallsNothing DEF SrvTyped
    <2>3. RpcTyped'
      BY <1>1, <2>1 DEF RpcTyped, RpcType
    <2>4. \A k \in Mount : ~MountRuns(k)'
      BY <2>1 DEF MountRuns
    <2>5. ASSUME Available', ~spoiled'
          PROVE  RpcGood'
      <3>1. /\ lease # srv.gen => ~MountedHere /\ \A id : ~IsRpc(table, id)
            /\ MountedHere => \A id : IsRpc(table, id) <=> id = rpc.id
            /\ ~MountedHere => \A id : ~IsRpc(table, id)
        BY <1>3, <2>1, <2>5 DEF Available
      <3>2. MountedHere' <=> MountedHere
        BY <2>1 DEF MountedHere
      <3>3. RpcExact'
        BY <1>1, <2>1, <2>4, <3>1, <3>2 DEF RpcExact
      <3> QED
        BY <1>1, <2>1, <2>4, <3>1, <3>2, <3>3 DEF RpcGood
    <2>6. RpcInv'
      BY <1>1, <1>2, <1>4, <2>1, <2>4, <2>5 DEF RpcInv
    <2> QED
      BY <2>2, <2>3, <2>6
  <1>6. CASE MountRoute(m, lease) /\ life'["rpc"] = "active" /\ Mountable(lease, rpc.mounted)
    <2> DEFINE a == AddAnswer("rpc", lease, RpcRoute)
    <2>1. /\ RouteAdd(MountTask(m), "rpc", lease, RpcRoute) /\ mounting' = [mounting EXCEPT ![m] = [gen |-> lease, ans |-> a]]
          /\ lease # 0 /\ ~rpc.mounted
      BY <1>6 DEF MountRoute, Mountable
    <2>2. /\ RpcCalls /\ spoiled' = spoiled /\ a \in Nat
          /\ \/ a = 0 /\ table' = table
             \/ /\ a = seq + 1 /\ seq + 1 # 0 /\ Available /\ lease = srv.gen
                /\ \A id : ~IsRpc(table, id)
                /\ \A id : IsRpc(table', id) <=> id = seq + 1
      BY <1>1, <2>1, RpcAddIs
    <2> HIDE DEF a
    <2>3. /\ mounting'[m] = [gen |-> lease, ans |-> a] /\ m \in Mount
          /\ \A k \in Mount : k # m => mounting'[k] = mounting[k]
      BY <1>1, <2>1
    <2>4. MountRuns(m)' /\ (\A k \in Mount : k # m => ~MountRuns(k)') /\ mounting'[m].ans = a /\ mounting'[m].gen = lease
      BY <2>1, <2>3 DEF MountRuns, NoMount
    <2>5. RpcTyped'
      <3>1. [gen |-> lease, ans |-> a] \in [gen : 0 .. MaxGen, ans : Nat]
        BY <1>2, <2>2
      <3>2. mounting' \in [Mount -> [gen : 0 .. MaxGen, ans : Nat]]
        BY <1>1, <2>1, <3>1
      <3> QED
        BY <3>2 DEF RpcTyped, RpcType
    <2>6. srv' = srv
      BY <2>2 DEF RpcCalls
    <2>7. ASSUME Available', ~spoiled'
          PROVE  RpcGood'
      <3>1. Available /\ ~spoiled
        BY <2>2, <2>6, <2>7 DEF Available
      <3>2. ~MountedHere' /\ \A id : ~IsRpc(table, id)
        BY <1>3, <2>1, <3>1 DEF MountedHere
      <3>3. \A id : IsRpc(table', id) <=> id # 0 /\ id = a
        BY <2>2, <3>2
      <3>4. a # 0 => lease = srv.gen
        BY <2>2
      <3>5. RpcExact'
        BY <1>1, <2>1, <2>4, <3>2, <3>3 DEF RpcExact
      <3> QED
        BY <1>1, <2>4, <2>6, <3>2, <3>3, <3>4, <3>5 DEF RpcGood
    <2>8. RpcInv'
      <3>1. (MountRuns("stop") <=> life["rpc"] = "stopping")'
        BY <1>1, <2>4 DEF Adder
      <3>2. (\A k \in Adder : MountRuns(k) => mounting[k].gen <= srv.gen)'
        BY <1>1, <1>4, <2>4, <2>6
      <3>3. ~(MountRuns("sink") /\ MountRuns("first"))'
        BY <1>1, <2>4
      <3> QED
        BY <1>4, <1>6, <2>1, <2>6, <2>7, <3>1, <3>2, <3>3 DEF RpcInv
    <2> QED
      BY <2>2, <2>5, <2>8
  <1> QED
    BY <1>5, <1>6 DEF MountRoute

LEMMA NobodyMounts ==
    ASSUME MountsInv, life["rpc"] \in {"absent", "initialized"}
    PROVE  \A m \in Mount : ~MountRuns(m)
  BY DEF MountsInv, RpcInv

LEMMA MountAnsweredKeeps ==
    ASSUME MountsInv, NEW m \in Mount, MountAnswered(m)
    PROVE  RpcCalls /\ RpcTyped' /\ RpcInv'
  <1>1. /\ rpc \in RpcType /\ mounting \in [Mount -> [gen : 0 .. MaxGen, ans : Nat]] /\ RpcInv
        /\ Adder \subseteq Mount /\ Mount = {"sink", "first", "stop"} /\ SrvTyped /\ srv.gen \in 0 .. MaxGen
    BY RpcFacts
  <1>2. /\ Calm /\ m # "stop" /\ MountRuns(m) /\ UNCHANGED <<srv, table, seq, guard, rackVars>>
        /\ mounting' = [mounting EXCEPT ![m] = NoMount]
        /\ spoiled' = spoiled
        /\ rpc' = IF mounting[m].ans # 0
                  THEN [rpc EXCEPT !.mounted = TRUE, !.id = mounting[m].ans, !.of = mounting[m].gen] ELSE rpc
    BY DEF MountAnswered, MountedIf, srvVars
  <1>3. m \in Adder /\ mounting[m].gen \in 0 .. MaxGen /\ mounting[m].ans \in Nat
    BY <1>1, <1>2 DEF Adder
  <1>4. /\ mounting'[m] = NoMount /\ \A k \in Mount : k # m => mounting'[k] = mounting[k]
        /\ DOMAIN mounting' = Mount
    BY <1>1, <1>2
  <1>5. NoMount \in [gen : 0 .. MaxGen, ans : Nat]
    BY DEF NoMount
  <1>6. mounting' \in [Mount -> [gen : 0 .. MaxGen, ans : Nat]]
    BY <1>1, <1>2, <1>5
  <1>7. /\ rpc' \in RpcType /\ rpc'.lease = rpc.lease
        /\ mounting[m].ans # 0 => rpc'.mounted /\ rpc'.id = mounting[m].ans /\ rpc'.of = mounting[m].gen
        /\ mounting[m].ans = 0 => rpc' = rpc
    BY <1>1, <1>2, <1>3 DEF RpcType
  <1>8. RpcTyped'
    BY <1>6, <1>7 DEF RpcTyped, RpcType
  <1>9. life' = life /\ telling' = telling
    BY <1>2 DEF rackVars
  <1>10. spoiled' \in BOOLEAN /\ guard' \in Guards /\ (spoiled => spoiled')
    BY <1>1, <1>2 DEF SrvTyped
  <1>11. RpcCalls
    BY <1>2, <1>10, RpcCallsNothing
  <1>12. ~MountRuns(m)' /\ \A k \in Mount : k # m => (MountRuns(k)' <=> MountRuns(k))
    BY <1>4 DEF MountRuns
  <1>13. \A k \in Adder : k # m => ~MountRuns(k)
    BY <1>1, <1>2, <1>3 DEF RpcInv, Adder
  <1>14. mounting[m].gen <= srv.gen
    BY <1>1, <1>2, <1>3 DEF RpcInv
  <1>15. \A k \in Adder : ~MountRuns(k)'
    BY <1>1, <1>12, <1>13
  <1>16. ASSUME Available', ~spoiled'
         PROVE  RpcGood'
    <2>1. RpcGood
      BY <1>1, <1>2, <1>16 DEF RpcInv, Available
    <2>2. mounting[m].ans # 0 => mounting[m].gen = srv.gen /\ rpc.lease = srv.gen
      BY <1>2, <1>3, <2>1 DEF RpcGood
    <2>3. MountedHere' <=> MountedHere \/ mounting[m].ans # 0
      BY <1>2, <1>7, <2>2 DEF MountedHere
    <2>4. ASSUME rpc.lease = srv.gen, ~MountRuns("stop")
          PROVE  RpcExact'
      <3>1. RpcExact
        BY <2>1, <2>4 DEF RpcGood
      <3>2. ~MountedHere
        BY <1>2, <1>3, <3>1 DEF RpcExact
      <3>3. \A id : IsRpc(table, id) <=> id # 0 /\ mounting[m].ans = id
        BY <1>2, <1>3, <1>13, <3>1, <3>2 DEF RpcExact
      <3> QED
        BY <1>2, <1>3, <1>7, <1>15, <2>3, <3>2, <3>3 DEF RpcExact
    <2>5. rpc.lease # srv.gen => ~MountedHere' /\ \A id : ~IsRpc(table, id)
      BY <2>1, <2>2, <2>3 DEF RpcGood
    <2> QED
      BY <1>1, <1>2, <1>7, <1>12, <1>15, <2>4, <2>5 DEF RpcGood
  <1>17. (rpc.mounted => rpc.of <= srv.gen)'
    BY <1>1, <1>2, <1>7, <1>14 DEF RpcInv
  <1>18. (MountRuns("stop") <=> life["rpc"] = "stopping")'
    BY <1>1, <1>2, <1>9, <1>12 DEF RpcInv
  <1>19. (life["rpc"] \in {"absent", "initialized"} => \A k \in Mount : ~MountRuns(k))'
    BY <1>1, <1>9, <1>12 DEF RpcInv
  <1>20. (Available /\ In("rpc", telling) => \A k \in Mount : ~MountRuns(k))'
    BY <1>2, <1>9, NobodyTold
  <1> QED
    BY <1>1, <1>8, <1>11, <1>15, <1>16, <1>17, <1>18, <1>19, <1>20 DEF RpcInv, Adder

LEMMA FirstMountKeeps ==
    ASSUME MountsInv, FirstMount
    PROVE  RpcCalls /\ RpcTyped' /\ RpcInv'
  <1>1. /\ Calm /\ (\A m \in Mount : ~MountRuns(m)) /\ rpc' = [rpc EXCEPT !.scheduled = FALSE] /\ UNCHANGED rackVars
        /\ IF life["rpc"] = "active" THEN MountRoute("first", rpc.lease) ELSE UNCHANGED <<mounting, srvVars>>
    BY DEF FirstMount
  <1>2. rpc \in RpcType /\ RpcInv
    BY RpcFacts
  <1>3. rpc' \in RpcType /\ rpc'.lease = rpc.lease /\ rpc'.mounted = rpc.mounted /\ rpc'.id = rpc.id /\ rpc'.of = rpc.of
    BY <1>1, <1>2 DEF RpcType
  <1>4. life' = life /\ ~In("rpc", telling') /\ "first" \in Adder
    BY <1>1, NobodyTold DEF rackVars, Adder
  <1>5. CASE life["rpc"] \in {"initialized", "active"}
    <2>1. (MountRoute("first", rpc.lease) /\ life'["rpc"] = "active") \/ UNCHANGED <<mounting, srvVars>>
      BY <1>1, <1>4
    <2> QED
      BY <1>1, <1>3, <1>4, <1>5, <2>1, MayMount
  <1>6. CASE life["rpc"] \notin {"initialized", "active"}
    <2>1. mounting' = mounting /\ srv' = srv /\ table' = table /\ seq' = seq /\ guard' = guard /\ spoiled' = spoiled
      BY <1>1, <1>6 DEF srvVars
    <2>2. RpcCalls
      BY <2>1, RpcFacts, RpcCallsNothing DEF SrvTyped
    <2>3. RpcTyped'
      BY <1>3, <2>1, RpcFacts DEF RpcTyped, RpcType
    <2>4. RpcGood => RpcGood'
      BY <1>3, <2>1 DEF RpcGood, RpcExact, MountedHere, MountRuns
    <2>5. RpcInv'
      BY <1>2, <1>3, <1>4, <2>1, <2>4 DEF RpcInv, MountRuns, Available
    <2> QED
      BY <2>2, <2>3, <2>5
  <1> QED
    BY <1>5, <1>6

LEMMA RpcOfferKeeps ==
    ASSUME MountsInv, RpcOffered, Available, \A k \in Mount : ~MountRuns(k), ~In("rpc", telling'),
           life'["rpc"] \in {"initialized", "active"}, life["rpc"] = "active" => life'["rpc"] = "active"
    PROVE  RpcCalls /\ RpcTyped' /\ RpcInv'
  <1> DEFINE lease == IF rpc.lease = 0 THEN srv.gen ELSE rpc.lease
  <1>1. rpc \in RpcType /\ srv.gen \in 0 .. MaxGen
    BY RpcFacts
  <1>2. /\ rpc' = [rpc EXCEPT !.lease = lease, !.usable = TRUE]
        /\ IF life["rpc"] = "active" THEN MountRoute("sink", lease) ELSE UNCHANGED <<mounting, srvVars>>
    BY DEF RpcOffered
  <1>3. lease = rpc.lease \/ (rpc.lease = 0 /\ lease = srv.gen)
    OBVIOUS
  <1> HIDE DEF lease
  <1>4. rpc' \in RpcType /\ rpc'.lease = lease /\ rpc'.mounted = rpc.mounted /\ rpc'.id = rpc.id /\ rpc'.of = rpc.of
    BY <1>1, <1>2, <1>3 DEF RpcType
  <1>5. "sink" \in Adder
    BY DEF Adder
  <1>6. (MountRoute("sink", lease) /\ life'["rpc"] = "active") \/ UNCHANGED <<mounting, srvVars>>
    BY <1>2
  <1> QED
    BY <1>3, <1>4, <1>5, <1>6, MayMount

LEMMA RpcToldOfferKeeps ==
    ASSUME MountsInv, RpcToldOffer
    PROVE  RpcCalls /\ RpcTyped' /\ RpcInv'
  <1>1. Told("rpc") /\ Available /\ RpcOffered /\ UNCHANGED life
    BY DEF RpcToldOffer
  <1>2. In("rpc", telling) /\ ~In("rpc", telling')
    BY <1>1, ToldIs, RpcFacts
  <1>3. \A k \in Mount : ~MountRuns(k)
    BY <1>1, <1>2, RpcFacts DEF RpcInv
  <1>4. life["rpc"] \in {"initialized", "active"}
    BY <1>2, RackFacts, RpcFacts DEF Heard, Watches
  <1> QED
    BY <1>1, <1>2, <1>3, <1>4, RpcOfferKeeps

\* The instance is on its way out: nothing is called, and the lease may be forgotten.
LEMMA RpcHearsKeeps ==
    ASSUME MountsInv, ~Available, UNCHANGED <<mounting, srvVars, life>>, rpc' \in RpcType,
           (rpc'.mounted = rpc.mounted /\ rpc'.of = rpc.of) \/ ~rpc'.mounted
    PROVE  RpcCalls /\ RpcTyped' /\ RpcInv'
  <1>1. mounting' = mounting /\ srv' = srv /\ table' = table /\ seq' = seq /\ guard' = guard /\ spoiled' = spoiled
    BY DEF srvVars
  <1>2. RpcCalls
    BY <1>1, RpcFacts, RpcCallsNothing DEF SrvTyped
  <1>3. RpcTyped'
    BY <1>1, RpcFacts DEF RpcTyped, RpcType
  <1>4. RpcInv'
    BY <1>1, RpcFacts DEF RpcInv, MountRuns, Available
  <1> QED
    BY <1>2, <1>3, <1>4

LEMMA RpcToldGoneKeeps ==
    ASSUME MountsInv, RpcToldGone
    PROVE  RpcCalls /\ RpcTyped' /\ RpcInv'
  <1>1. ~Available /\ rpc' = [rpc EXCEPT !.usable = FALSE] /\ UNCHANGED <<mounting, srvVars, life>>
    BY DEF RpcToldGone
  <1>2. rpc' \in RpcType /\ rpc'.mounted = rpc.mounted /\ rpc'.of = rpc.of
    BY <1>1, RpcFacts DEF RpcType
  <1> QED
    BY <1>1, <1>2, RpcHearsKeeps

LEMMA RpcOnRevokeKeeps ==
    ASSUME MountsInv, RpcOnRevoke
    PROVE  RpcCalls /\ RpcTyped' /\ RpcInv'
  <1>1. /\ Asked("rpc") /\ UNCHANGED <<mounting, srvVars, life>>
        /\ rpc' = rpc \/ rpc' = [rpc EXCEPT !.lease = 0, !.usable = FALSE, !.mounted = FALSE]
    BY DEF RpcOnRevoke
  <1>2. ~Available
    BY <1>1, RpcFacts, AskedIs
  <1> DEFINE cleared == [rpc EXCEPT !.lease = 0, !.usable = FALSE, !.mounted = FALSE]
  <1>3. rpc \in RpcType
    BY RpcFacts
  <1>4. cleared \in RpcType /\ ~cleared.mounted
    <2>1. PICK a : a = [rpc EXCEPT !.lease = 0]
      OBVIOUS
    <2>2. PICK b : b = [a EXCEPT !.usable = FALSE]
      OBVIOUS
    <2>3. cleared = [b EXCEPT !.mounted = FALSE]
      BY <2>1, <2>2
    <2>4. a \in RpcType
      BY <1>3, <2>1 DEF RpcType
    <2>5. b \in RpcType
      BY <2>2, <2>4 DEF RpcType
    <2> HIDE DEF cleared
    <2> QED
      BY <2>3, <2>5 DEF RpcType
  <1>5. rpc' = rpc \/ rpc' = cleared
    BY <1>1
  <1> QED
    BY <1>1, <1>2, <1>3, <1>4, <1>5, RpcHearsKeeps

LEMMA RpcInitsKeeps ==
    ASSUME MountsInv, RpcInits
    PROVE  RpcCalls /\ RpcTyped' /\ RpcInv'
  <1>1. /\ Calm /\ life["rpc"] = "absent" /\ life' = [life EXCEPT !["rpc"] = "initialized"] /\ telling' = telling
        /\ IF Available THEN RpcOffered ELSE UNCHANGED <<rpcVars, leases, srvVars>>
    BY DEF RpcInits
  <1>2. life'["rpc"] = "initialized" /\ ~In("rpc", telling') /\ \A k \in Mount : ~MountRuns(k)
    BY <1>1, RackFacts, RpcFacts, NobodyTold, NobodyMounts
  <1>3. CASE Available
    BY <1>1, <1>2, <1>3, RpcOfferKeeps
  <1>4. CASE ~Available
    <2>1. rpc' = rpc /\ UNCHANGED <<mounting, srvVars>> /\ rpc \in RpcType /\ "first" \in Adder
      BY <1>1, <1>4, RpcFacts DEF rpcVars, Adder
    <2> QED
      BY <1>2, <2>1, MayMount
  <1> QED
    BY <1>3, <1>4

LEMMA RpcStartsKeeps ==
    ASSUME MountsInv, RpcStarts
    PROVE  RpcCalls /\ RpcTyped' /\ RpcInv'
  <1>1. /\ Calm /\ life["rpc"] = "initialized" /\ life' = [life EXCEPT !["rpc"] = "active"] /\ telling' = telling
        /\ rpc' = [rpc EXCEPT !.scheduled = Schedules] /\ UNCHANGED <<mounting, srvVars>>
    BY DEF RpcStarts
  <1>2. life'["rpc"] = "active" /\ ~In("rpc", telling') /\ \A k \in Mount : ~MountRuns(k)
    BY <1>1, RackFacts, RpcFacts, NobodyTold, NobodyMounts
  <1>3. rpc \in RpcType /\ Schedules \in BOOLEAN
    BY RpcFacts DEF Schedules, RpcType
  <1>4. rpc' \in RpcType /\ rpc'.lease = rpc.lease /\ rpc'.mounted = rpc.mounted /\ rpc'.id = rpc.id /\ rpc'.of = rpc.of
        /\ "first" \in Adder
    BY <1>1, <1>3 DEF RpcType, Adder
  <1> QED
    BY <1>1, <1>2, <1>4, MayMount

\* An instance of std.rpc ends.
LEMMA RpcEndsKeeps ==
    ASSUME MountsInv, Calm, RpcEnds
    PROVE  RpcCalls /\ RpcTyped' /\ RpcInv'
  <1>1. /\ life' = [life EXCEPT !["rpc"] = "absent"] /\ UNCHANGED <<srv, table, seq, telling>>
        /\ rpc' = Fresh /\ mounting' = [m \in Mount |-> NoMount]
        /\ guard' = (IF guard[1] = "rpc" THEN Gone ELSE guard)
        /\ spoiled' = (spoiled \/ Duplicate(RpcRoute))
    BY DEF RpcEnds, Forgotten
  <1>2. life'["rpc"] = "absent" /\ ~In("rpc", telling') /\ SrvTyped /\ Adder \subseteq Mount /\ "stop" \in Mount
    BY <1>1, RackFacts, RpcFacts, NobodyTold
  <1>3. guard' \in Guards /\ spoiled' \in BOOLEAN /\ (spoiled => spoiled')
    BY <1>1, <1>2 DEF SrvTyped, Guards, Duplicate
  <1>4. RpcCalls
    BY <1>1, <1>3, RpcCallsNothing
  <1>5. \A m \in Mount : ~MountRuns(m)'
    BY <1>1 DEF MountRuns
  <1>6. RpcTyped'
    BY <1>1 DEF RpcTyped, Fresh, NoMount
  <1>7. rpc'.lease = 0 /\ ~rpc'.mounted /\ ~MountedHere'
    BY <1>1 DEF Fresh, MountedHere
  <1>8. ASSUME Available', ~spoiled'
        PROVE  RpcGood'
    <2>1. \A id : ~IsRpc(table', id)
      BY <1>1, <1>8 DEF Duplicate, IsRpc
    <2>2. srv'.gen # 0
      BY <1>1, <1>8, AvailableIs DEF Available
    <2> QED
      BY <1>2, <1>5, <1>7, <2>1, <2>2 DEF RpcGood
  <1> QED
    BY <1>2, <1>4, <1>5, <1>6, <1>7, <1>8 DEF RpcInv, Adder, Mount

LEMMA RpcRollsBackKeeps ==
    ASSUME MountsInv, RpcRollsBack
    PROVE  RpcCalls /\ RpcTyped' /\ RpcInv'
  <1>1. /\ Calm /\ life["rpc"] = "active" /\ life' = [life EXCEPT !["rpc"] = "stopping"] /\ telling' = telling
        /\ rpc' = [rpc EXCEPT !.usable = FALSE]
        /\ mounting' = [mounting EXCEPT !["stop"] = [gen |-> srv.gen, ans |-> 1]]
        /\ IF rpc.lease # 0 /\ rpc.mounted THEN RouteRemove(MountTask("stop"), "rpc", rpc.lease, rpc.id, rpc.of)
           ELSE UNCHANGED srvVars
    BY DEF RpcRollsBack
  <1>2. /\ rpc \in RpcType /\ mounting \in [Mount -> [gen : 0 .. MaxGen, ans : Nat]] /\ RpcInv
        /\ Adder \subseteq Mount /\ Mount = {"sink", "first", "stop"} /\ SrvTyped /\ srv.gen \in 0 .. MaxGen /\ OfSomeone(table)
    BY RpcFacts, ShapeIs
  <1>3. life'["rpc"] = "stopping" /\ ~In("rpc", telling')
    BY <1>1, RackFacts, RpcFacts, NobodyTold
  <1>4. rpc' \in RpcType /\ rpc'.lease = rpc.lease /\ rpc'.mounted = rpc.mounted /\ rpc'.id = rpc.id /\ rpc'.of = rpc.of
    BY <1>1, <1>2 DEF RpcType
  <1>5. /\ mounting' \in [Mount -> [gen : 0 .. MaxGen, ans : Nat]] /\ mounting'["stop"].ans = 1
        /\ \A m \in Adder : mounting'[m] = mounting[m]
    BY <1>1, <1>2 DEF Adder
  <1>6. MountRuns("stop")' /\ \A m \in Adder : MountRuns(m)' <=> MountRuns(m)
    BY <1>5 DEF MountRuns, NoMount
  <1>7. RpcTyped'
    BY <1>4, <1>5 DEF RpcTyped, RpcType
  <1>8. RpcCalls /\ (Available /\ ~spoiled' /\ (\A id : ~IsRpc(table, id)) => \A id : ~IsRpc(table', id))
    <2>1. CASE rpc.lease # 0 /\ rpc.mounted
      <3>1. /\ SrvTyped' /\ srv' = srv /\ seq' = seq /\ (spoiled => spoiled') /\ (~Available => table' = table)
            /\ \A id \in DOMAIN table' : id \in DOMAIN table /\ table'[id] = table[id]
            /\ ~spoiled' => Available /\ rpc.lease = srv.gen /\ rpc.of = srv.gen /\ Shrinks(table, table', rpc.id)
        BY <1>1, <1>2, <2>1, MountTaskTyped, RouteRemoveIs
      <3>2. OfSomeone(table')
        BY <1>2, <3>1 DEF OfSomeone, IsRpc
      <3>3. \A id : IsRpc(table', id) => IsRpc(table, id)
        BY <3>1 DEF IsRpc
      <3>4. ASSUME Available, ~spoiled'
            PROVE  /\ \A r \in Resource : Keeps(table, table', r)
                   /\ \A id \in DOMAIN table' : IsRpc(table', id) \/ (id \in DOMAIN table /\ ~IsRpc(table, id))
        <4>1. RpcGood /\ rpc.lease = srv.gen /\ ~MountRuns("stop")
          BY <1>1, <1>2, <3>1, <3>4 DEF RpcInv
        <4>2. IsRpc(table, rpc.id)
          BY <2>1, <3>1, <3>4, <4>1 DEF RpcGood, RpcExact, MountedHere
        <4>3. \A r \in Resource : Keeps(table, table', r)
          BY <3>1, <3>4, <4>2 DEF Keeps, Shrinks, IsRpc, RpcRoute
        <4>4. \A id \in DOMAIN table' : IsRpc(table', id) \/ (id \in DOMAIN table /\ ~IsRpc(table, id))
          BY <3>1 DEF IsRpc
        <4> QED
          BY <4>3, <4>4
      <3>5. seq <= seq'
        BY <1>2, <3>1 DEF SrvTyped
      <3> QED
        BY <3>1, <3>2, <3>3, <3>4, <3>5 DEF RpcCalls
    <2>2. CASE ~(rpc.lease # 0 /\ rpc.mounted)
      <3>1. srv' = srv /\ table' = table /\ seq' = seq /\ guard' = guard /\ spoiled' = spoiled
        BY <1>1, <2>2 DEF srvVars
      <3> QED
        BY <1>2, <3>1, RpcCallsNothing DEF SrvTyped
    <2> QED
      BY <2>1, <2>2
  <1>9. srv' = srv /\ (spoiled => spoiled')
    BY <1>8 DEF RpcCalls
  <1>10. ASSUME Available', ~spoiled'
         PROVE  RpcGood'
    <2>1. RpcGood /\ Available
      BY <1>2, <1>9, <1>10 DEF RpcInv, Available
    <2>2. MountedHere' <=> MountedHere
      BY <1>4, <1>9 DEF MountedHere
    <2> QED
      BY <1>4, <1>5, <1>6, <1>8, <1>9, <1>10, <2>1, <2>2 DEF RpcGood
  <1>11. (\A m \in Adder : MountRuns(m) => mounting[m].gen <= srv.gen)' /\ (rpc.mounted => rpc.of <= srv.gen)'
    BY <1>2, <1>4, <1>5, <1>6, <1>9 DEF RpcInv
  <1>12. ~(MountRuns("sink") /\ MountRuns("first"))'
    BY <1>2, <1>6 DEF RpcInv, Adder
  <1> QED
    BY <1>2, <1>3, <1>4, <1>6, <1>7, <1>8, <1>9, <1>10, <1>11, <1>12 DEF RpcInv

LEMMA RpcNextKeeps ==
    ASSUME MountsInv, RpcNext
    PROVE  RpcCalls /\ RpcTyped' /\ RpcInv'
  <1>1. CASE \E m \in Mount : MountAnswered(m)
    BY <1>1, MountAnsweredKeeps
  <1>2. CASE RpcStopGoesOn
    BY <1>2, RpcEndsKeeps DEF RpcStopGoesOn
  <1>3. CASE RpcUnloads
    BY <1>3, RpcEndsKeeps DEF RpcUnloads
  <1>4. CASE FirstMount \/ RpcToldOffer \/ RpcToldGone \/ RpcOnRevoke
    BY <1>4, FirstMountKeeps, RpcToldOfferKeeps, RpcToldGoneKeeps, RpcOnRevokeKeeps
  <1>5. CASE RpcInits \/ RpcStarts \/ RpcRollsBack
    BY <1>5, RpcInitsKeeps, RpcStartsKeeps, RpcRollsBackKeeps
  <1> QED
    BY <1>1, <1>2, <1>3, <1>4, <1>5 DEF RpcNext, RpcStep

LEMMA RpcApart ==
    ASSUME MountsInv, RpcNext
    PROVE  life'["rest"] = life["rest"] /\ (In("rest", telling') <=> In("rest", telling))
  <1>1. "rest" \in Who /\ "rpc" \in Who /\ life \in [Who -> Life]
    BY RackFacts DEF Who
  <1>2. CASE (\E m \in Mount : MountAnswered(m)) \/ FirstMount
    BY <1>2 DEF MountAnswered, FirstMount, rackVars
  <1>3. ASSUME RpcEnds
        PROVE  life'["rest"] = life["rest"] /\ telling' = telling
    BY <1>1, <1>3 DEF RpcEnds, Forgotten
  <1>4. CASE RpcStopGoesOn \/ RpcUnloads
    BY <1>3, <1>4 DEF RpcStopGoesOn, RpcUnloads
  <1>5. CASE RpcToldOffer \/ RpcToldGone
    <2>1. Told("rpc") /\ life' = life
      BY <1>5 DEF RpcToldOffer, RpcToldGone
    <2> QED
      BY <1>1, <2>1, ToldIs
  <1>6. CASE RpcOnRevoke
    BY <1>6 DEF RpcOnRevoke
  <1>7. CASE RpcInits \/ RpcStarts \/ RpcRollsBack
    BY <1>1, <1>7 DEF RpcInits, RpcStarts, RpcRollsBack
  <1> QED
    BY <1>2, <1>4, <1>5, <1>6, <1>7 DEF RpcNext, RpcStep

LEMMA RpcLease ==
    ASSUME MountsInv, NEW lease, rpc' = [rpc EXCEPT !.lease = lease, !.usable = TRUE]
    PROVE  rpc'.lease = lease
  BY RpcFacts DEF RpcType

LEMMA RpcRack ==
    ASSUME MountsInv, RpcNext, UNCHANGED restVars
    PROVE  RackInv'
  <1>1. SrvKeeps
    BY RpcNextKeeps DEF RpcCalls, SrvKeeps
  <1>2. rest' = rest
    BY DEF restVars
  <1>3. "rpc" \in Who /\ rpc \in RpcType
    BY RpcFacts
  <1>4. CASE (\E m \in Mount : MountAnswered(m)) \/ FirstMount
    <2>1. UNCHANGED rackVars
      BY <1>4 DEF MountAnswered, FirstMount
    <2>2. rpc'.lease = rpc.lease
      BY <1>3, <1>4 DEF MountAnswered, FirstMount, RpcType
    <2> QED
      BY <1>1, <1>2, <2>1, <2>2, CachedMoves, RackStill
  <1>5. ASSUME Calm, RpcEnds
        PROVE  RackInv'
    <2>1. Forgotten("rpc") /\ UNCHANGED <<telling, revoking, lives>> /\ rpc'.lease = 0
      BY <1>5 DEF RpcEnds, Fresh
    <2> QED
      BY <1>1, <1>2, <1>3, <1>5, <2>1, CachedMoves, EndsHeard
  <1>6. CASE RpcStopGoesOn \/ RpcUnloads
    BY <1>5, <1>6 DEF RpcStopGoesOn, RpcUnloads
  <1>7. ASSUME RpcOffered
        PROVE  \/ rpc.lease = 0 /\ Acquires("rpc") /\ rpc'.lease = srv.gen
               \/ UNCHANGED leases /\ rpc'.lease = rpc.lease
    BY <1>7, RpcLease DEF RpcOffered
  <1>8. CASE RpcToldOffer
    <2>1. Told("rpc") /\ Available /\ RpcOffered /\ UNCHANGED <<watchers, revoking, life, lives>>
      BY <1>8 DEF RpcToldOffer
    <2>2. OthersKeep("rpc")
      BY <1>2, <1>3, <2>1, CachedMoves, SameLife DEF OthersKeep
    <2> QED
      BY <1>1, <1>3, <1>7, <2>1, <2>2, CachedMoves, OfferHeard
  <1>9. CASE RpcToldGone
    <2>1. Told("rpc") /\ UNCHANGED <<leases, watchers, revoking, life, lives>> /\ rpc'.lease = rpc.lease
      BY <1>3, <1>9 DEF RpcToldGone, RpcType
    <2> QED
      BY <1>1, <1>2, <1>3, <2>1, CachedMoves, GoneHeard
  <1>10. CASE RpcOnRevoke
    <2>1. Asked("rpc") /\ UNCHANGED <<watchers, telling, life, lives>>
      BY <1>10 DEF RpcOnRevoke
    <2>2. \/ UNCHANGED leases /\ rpc' = rpc
          \/ /\ rpc.lease = srv.gen /\ leases' = Returned("rpc")
             /\ rpc' = [rpc EXCEPT !.lease = 0, !.usable = FALSE, !.mounted = FALSE]
      BY <1>10 DEF RpcOnRevoke
    <2>3. [rpc EXCEPT !.lease = 0, !.usable = FALSE, !.mounted = FALSE].lease = 0
      BY <1>3 DEF RpcType
    <2>4. \/ UNCHANGED leases /\ rpc'.lease = rpc.lease
          \/ rpc.lease = srv.gen /\ rpc'.lease = 0 /\ leases' = Returned("rpc")
      BY <2>2, <2>3
    <2>5. OthersKeep("rpc")
      BY <1>2, <1>3, <2>1, CachedMoves, SameLife DEF OthersKeep
    <2> QED
      BY <1>1, <1>3, <2>1, <2>4, <2>5, CachedMoves, RevokeHeard
  <1>11. CASE RpcInits
    <2>1. /\ Calm /\ life["rpc"] = "absent" /\ life' = [life EXCEPT !["rpc"] = "initialized"]
          /\ watchers' = Append(watchers, "rpc") /\ UNCHANGED <<telling, revoking>>
          /\ lives' = [lives EXCEPT !["rpc"] = @ + 1]
          /\ IF Available THEN RpcOffered ELSE UNCHANGED <<rpcVars, leases, srvVars>>
      BY <1>11 DEF RpcInits
    <2>2. lives' \in [Who -> Nat]
      BY <1>3, <2>1, RackFacts
    <2>3. \/ Available /\ rpc.lease = 0 /\ Acquires("rpc") /\ rpc'.lease = srv.gen
          \/ UNCHANGED leases /\ rpc'.lease = rpc.lease
      BY <1>7, <2>1 DEF rpcVars
    <2> QED
      BY <1>1, <1>2, <1>3, <2>1, <2>2, <2>3, CachedMoves, JoinsHeard
  <1>12. CASE RpcStarts
    <2>1. /\ life["rpc"] = "initialized" /\ life' = [life EXCEPT !["rpc"] = "active"]
          /\ UNCHANGED <<leases, watchers, telling, revoking, lives>> /\ rpc'.lease = rpc.lease
      BY <1>3, <1>12 DEF RpcStarts, RpcType
    <2> QED
      BY <1>1, <1>2, <1>3, <2>1, CachedMoves, StartsHeard
  <1>13. CASE RpcRollsBack
    <2>1. /\ Calm /\ life["rpc"] = "active" /\ life' = [life EXCEPT !["rpc"] = "stopping"] /\ Unwatches("rpc")
          /\ UNCHANGED <<leases, telling, revoking, lives>> /\ rpc'.lease = rpc.lease
      BY <1>3, <1>13 DEF RpcRollsBack, RpcType
    <2> QED
      BY <1>1, <1>2, <1>3, <2>1, CachedMoves, StopsHeard
  <1> QED
    BY <1>4, <1>6, <1>8, <1>9, <1>10, <1>11, <1>12, <1>13 DEF RpcNext, RpcStep

-----------------------------------------------------------------------------
(* The life of std.http-server                                             *)

\* A call returns, or a lease is found returned already.
LEMMA QuietKeeps ==
    ASSUME MountsInv, UNCHANGED <<restVars, rpcVars, srv, table, seq, spoiled, leases, watchers, telling, life, lives>>,
           guard' \in Guards, revoking' \in Seq(Who), revoking' # <<>> => revoking # <<>>
    PROVE  MountsInv'
  <1>1. rpc' = rpc /\ mounting' = mounting /\ rest' = rest
    BY DEF rpcVars, restVars
  <1>2. spoiled' \in BOOLEAN /\ (spoiled => spoiled')
    BY RpcFacts DEF SrvTyped
  <1>3. RpcCalls
    BY <1>2, RpcCallsNothing
  <1>4. RestTyped' /\ RestInv'
    BY <1>3, RestFrame
  <1>5. RpcTyped' /\ SrvTyped'
    BY <1>1, <1>3 DEF MountsInv, Typed, RpcTyped, RpcCalls
  <1>6. RpcGood => RpcGood'
    BY <1>1 DEF RpcGood, RpcExact, MountedHere, MountRuns
  <1>7. RpcInv'
    BY <1>1, <1>6, RpcFacts DEF RpcInv, MountRuns, Available
  <1>8. RackInv'
    BY <1>1, CachedMoves, RackFacts, RackIs
  <1> QED
    BY <1>4, <1>5, <1>7, <1>8 DEF MountsInv, Typed, RackInv

\* The instance is not, or no longer, one that can be called.
LEMMA AwayKeeps ==
    ASSUME MountsInv, UNCHANGED <<restVars, rpcVars, guard, spoiled, life>>, srv' \in [state : State, gen : 0 .. MaxGen],
           srv'.state # "active", srv'.gen = srv.gen, srv.state # "off",
           (table' = table /\ seq' = seq) \/ (table' = <<>> /\ seq' = 0), RackInv'
    PROVE  MountsInv'
  <1>1. /\ rpc' = rpc /\ mounting' = mounting
        /\ rest' = rest /\ mounts' = mounts /\ stamps' = stamps /\ jobs' = jobs
    BY DEF rpcVars, restVars
  <1>2. SrvTyped /\ RestTyped /\ RpcTyped /\ RpcInv /\ RestInv
    BY DEF MountsInv, Typed
  <1>3. srv.gen >= 1
    BY <1>2 DEF SrvTyped
  <1>4. seq' \in Nat /\ DOMAIN table' \subseteq 1 .. seq'
    BY <1>2 DEF SrvTyped
  <1>5. SrvTyped'
    BY <1>2, <1>3, <1>4 DEF SrvTyped
  <1>6. RestTyped' /\ RpcTyped'
    BY <1>1, <1>2 DEF RestTyped, RpcTyped
  <1>7. ~Available'
    BY DEF Available
  <1>8. RpcInv'
    BY <1>1, <1>2, <1>7 DEF RpcInv, MountRuns
  <1>9. \A id \in DOMAIN table' : IsRpc(table', id) \/ table'[id][1] \in Resource
    BY <1>2 DEF RestInv, RestSteady, IsRpc
  <1>10. RestSteady'
    BY <1>1, <1>2, <1>7, <1>9 DEF RestInv, RestSteady, Running, Being
  <1>11. RestInv'
    BY <1>1, <1>2, <1>7, <1>10 DEF RestInv
  <1> QED
    BY <1>5, <1>6, <1>8, <1>11 DEF MountsInv, Typed, RackInv

\* Everyone who watches is told.
LEMMA AllTold ==
    ASSUME MountsInv, UNCHANGED <<leases, watchers, life, lives, Cached>>, telling' = watchers \/ telling' = telling,
           revoking' \in Seq(Who), LeavingStill(leases, srv, srv'),
           revoking' # <<>> => srv'.state = "revoking", srv'.state = "off" => table' = <<>>
    PROVE  RackInv'
  <1>1. LeasesFit(leases, Cached, life, srv) /\ Heard(watchers, telling, life) /\ leases \in Seq(Lease)
    BY RackFacts
  <1>2. PICK t, U : t = srv' /\ U = telling'
    OBVIOUS
  <1>3. LifeStill(Cached, life, Cached, life)
    BY DEF LifeStill
  <1>4. LeasesFit(leases, Cached, life, t)
    BY <1>1, <1>2, <1>3, FitsStill
  <1>5. Heard(watchers, U, life)
    BY <1>1, <1>2 DEF Heard
  <1> QED
    BY <1>2, <1>4, <1>5, RackFacts, RackIs

LEMMA OfThisIs ==
    ASSUME MountsInv
    PROVE  OfThis \in Seq(Lease) /\ (OfThis = <<>> => \A i \in 1 .. Len(leases) : leases[i].gen # srv.gen)
  <1> DEFINE K == {i \in DOMAIN leases : leases[i].gen = srv.gen}
  <1>1. leases \in Seq(Lease)
    BY RackFacts
  <1>2. K \subseteq 1 .. Len(leases) /\ \A i \in 1 .. Len(leases) : leases[i].gen = srv.gen => i \in K
    BY <1>1
  <1> HIDE DEF K
  <1>3. Kept(leases, K) \in Seq(Lease) /\ KeptFacts(leases, K, Kept(leases, K))
    BY <1>1, <1>2, KeptIs
  <1>4. OfThis = Kept(leases, K)
    BY DEF OfThis, K
  <1>5. Kept(leases, K) = <<>> => \A i \in K : FALSE
    BY <1>3 DEF KeptFacts
  <1> QED
    BY <1>2, <1>3, <1>4, <1>5

LEMMA SrvSet ==
    ASSUME MountsInv, NEW state \in State, srv' = [srv EXCEPT !.state = state]
    PROVE  srv' \in [state : State, gen : 0 .. MaxGen] /\ srv'.state = state /\ srv'.gen = srv.gen
  BY RpcFacts DEF SrvTyped

LEMMA SrvWithdrawsKeeps ==
    ASSUME MountsInv, SrvWithdraws, UNCHANGED <<restVars, rpcVars>>
    PROVE  MountsInv'
  <1>1. /\ srv.state = "active" /\ srv' = [srv EXCEPT !.state = "revoking"] /\ telling' = watchers
        /\ revoking' = [i \in DOMAIN OfThis |-> OfThis[i].by]
        /\ UNCHANGED <<table, seq, guard, spoiled, leases, watchers, life, lives>>
    BY DEF SrvWithdraws, Available
  <1>2. srv' \in [state : State, gen : 0 .. MaxGen] /\ srv'.state = "revoking" /\ srv'.gen = srv.gen
    BY <1>1, SrvSet DEF State
  <1>3. revoking' \in Seq(Who)
    <2>1. OfThis \in Seq(Lease)
      BY OfThisIs
    <2>2. \A i \in 1 .. Len(OfThis) : OfThis[i].by \in Who
      BY <2>1, ListIs
    <2>3. revoking' = [i \in 1 .. Len(OfThis) |-> OfThis[i].by] /\ Len(OfThis) \in Nat
      BY <1>1, <2>1
    <2> QED
      BY <2>2, <2>3
  <1>4. LeavingStill(leases, srv, srv')
    BY <1>1, <1>2, RackFacts DEF LeavingStill, Leaving
  <1>5. Cached' = Cached
    BY CachedMoves DEF restVars, rpcVars
  <1>6. RackInv'
    BY <1>1, <1>2, <1>3, <1>4, <1>5, AllTold
  <1>7. /\ srv'.state # "active" /\ srv.state # "off" /\ UNCHANGED <<restVars, rpcVars, guard, spoiled, life>>
        /\ table' = table /\ seq' = seq
    BY <1>1, <1>2
  <1> QED
    BY <1>2, <1>6, <1>7, AwayKeeps

LEMMA SrvRollsBackKeeps ==
    ASSUME MountsInv, SrvRollsBack, UNCHANGED <<restVars, rpcVars>>
    PROVE  MountsInv'
  <1>1. /\ srv.state = "active" /\ srv' = [srv EXCEPT !.state = "dropping"] /\ telling' = watchers
        /\ UNCHANGED <<table, seq, guard, spoiled, leases, watchers, revoking, life, lives>>
    BY DEF SrvRollsBack, Available
  <1>2. srv' \in [state : State, gen : 0 .. MaxGen] /\ srv'.state = "dropping" /\ srv'.gen = srv.gen
    BY <1>1, SrvSet DEF State
  <1>3. revoking' \in Seq(Who) /\ revoking' = <<>>
    BY <1>1, RackFacts
  <1>4. LeavingStill(leases, srv, srv')
    BY <1>1, <1>2, RackFacts DEF LeavingStill, Leaving
  <1>5. Cached' = Cached
    BY CachedMoves DEF restVars, rpcVars
  <1>6. RackInv'
    BY <1>1, <1>2, <1>3, <1>4, <1>5, AllTold
  <1>7. /\ srv'.state # "active" /\ srv.state # "off" /\ UNCHANGED <<restVars, rpcVars, guard, spoiled, life>>
        /\ table' = table /\ seq' = seq
    BY <1>1, <1>2
  <1> QED
    BY <1>2, <1>6, <1>7, AwayKeeps

LEMMA SrvVerdictKeeps ==
    ASSUME MountsInv, NEW busy, SrvVerdict(busy), UNCHANGED <<restVars, rpcVars>>
    PROVE  MountsInv'
  <1>1. /\ srv.state = "revoking" /\ revoking = <<>> /\ UNCHANGED <<guard, spoiled, rackVars>>
        /\ \/ srv' = [srv EXCEPT !.state = "faulted"] /\ table' = table
           \/ OfThis = <<>> /\ srv' = [srv EXCEPT !.state = "off"] /\ table' = <<>>
        /\ seq' = (IF srv'.state = "off" THEN 0 ELSE seq)
    BY DEF SrvVerdict
  <1>2. UNCHANGED <<leases, watchers, telling, revoking, life, lives>>
    BY <1>1 DEF rackVars
  <1>3. "faulted" \in State /\ "off" \in State
    BY DEF State
  <1>4. /\ srv' \in [state : State, gen : 0 .. MaxGen] /\ srv'.gen = srv.gen
        /\ \/ srv'.state = "faulted" /\ table' = table /\ seq' = seq
           \/ srv'.state = "off" /\ table' = <<>> /\ seq' = 0 /\ OfThis = <<>>
    BY <1>1, <1>3, SrvSet
  <1>5. LeavingStill(leases, srv, srv')
    BY <1>1, <1>4, RackFacts, OfThisIs DEF LeavingStill, Leaving
  <1>6. Cached' = Cached
    BY CachedMoves DEF restVars, rpcVars
  <1>7. revoking' \in Seq(Who) /\ revoking' = <<>>
    BY <1>1, <1>2, RackFacts
  <1>8. RackInv'
    BY <1>2, <1>4, <1>5, <1>6, <1>7, AllTold
  <1>9. /\ srv'.state # "active" /\ srv.state # "off" /\ UNCHANGED <<restVars, rpcVars, guard, spoiled, life>>
        /\ (table' = table /\ seq' = seq) \/ (table' = <<>> /\ seq' = 0)
    BY <1>1, <1>2, <1>4
  <1> QED
    BY <1>4, <1>8, <1>9, AwayKeeps

LEMMA SrvDroppedKeeps ==
    ASSUME MountsInv, NEW busy, SrvDropped(busy), UNCHANGED <<restVars, rpcVars>>
    PROVE  MountsInv'
  <1>1. /\ srv.state = "dropping" /\ srv' = [srv EXCEPT !.state = "off"] /\ table' = <<>> /\ seq' = 0
        /\ UNCHANGED <<guard, spoiled, rackVars>>
    BY DEF SrvDropped
  <1>2. UNCHANGED <<leases, watchers, telling, revoking, life, lives>>
    BY <1>1 DEF rackVars
  <1>3. srv' \in [state : State, gen : 0 .. MaxGen] /\ srv'.state = "off" /\ srv'.gen = srv.gen
    BY <1>1, SrvSet DEF State
  <1>4. LeavingStill(leases, srv, srv')
    BY <1>1, <1>3, RackFacts DEF LeavingStill, Leaving
  <1>5. Cached' = Cached
    BY CachedMoves DEF restVars, rpcVars
  <1>6. revoking' \in Seq(Who) /\ revoking' = <<>>
    BY <1>1, <1>2, RackFacts
  <1>7. RackInv'
    BY <1>1, <1>2, <1>3, <1>4, <1>5, <1>6, AllTold
  <1> QED
    BY <1>1, <1>2, <1>3, <1>7, AwayKeeps

\* A new generation has no routes, and everyone who watches is to be told of it.
LEMMA SrvRegistersKeeps ==
    ASSUME MountsInv, SrvRegisters(Working), UNCHANGED <<restVars, rpcVars>>
    PROVE  MountsInv'
  <1>1. /\ Calm /\ guard = Nobody /\ (\A j \in Job : ~Running(j)) /\ (\A m \in Mount : ~MountRuns(m))
        /\ srv.state = "off" /\ srv.gen < MaxGen
        /\ srv' = [state |-> "active", gen |-> srv.gen + 1]
        /\ UNCHANGED <<table, seq, guard, spoiled, leases, watchers, revoking, life, lives>>
        /\ telling' = watchers
    BY DEF SrvRegisters, Working
  <1>2. /\ rpc' = rpc /\ mounting' = mounting
        /\ rest' = rest /\ mounts' = mounts /\ stamps' = stamps /\ jobs' = jobs
    BY DEF rpcVars, restVars
  <1>3. SrvTyped /\ RestTyped /\ RpcTyped /\ RpcInv /\ RestInv
    BY DEF MountsInv, Typed
  <1>4. srv.gen \in 0 .. MaxGen /\ table = <<>> /\ MaxGen \in Nat
    BY <1>1, RackFacts
  <1>5. srv'.state = "active" /\ srv'.gen = srv.gen + 1 /\ srv' \in [state : State, gen : 0 .. MaxGen]
    BY <1>1, <1>4 DEF State
  <1>6. SrvTyped'
    BY <1>1, <1>3, <1>4, <1>5 DEF SrvTyped
  <1>7. RestTyped' /\ RpcTyped'
    BY <1>2, <1>3 DEF RestTyped, RpcTyped
  <1>8. Heard(watchers, watchers, life)
    BY RackFacts DEF Heard
  <1>9. RackInv'
    <2>1. Cached' = Cached
      BY <1>2, CachedMoves
    <2>2. revoking' \in Seq(Who) /\ revoking' = <<>>
      BY <1>1, RackFacts
    <2>3. LeavingStill(leases, srv, srv')
      BY <1>1, <1>4, <1>5 DEF LeavingStill, Leaving
    <2> QED
      BY <1>1, <1>5, <2>1, <2>2, <2>3, AllTold
  <1>10. \A w \in Who : In(w, telling') <=> Watches(life[w])
    BY <1>1, <1>8 DEF Heard
  <1>11. \A T : table' = T => DOMAIN T = {}
    BY <1>1, <1>4
  <1>12. DOMAIN table' = {}
    BY <1>11
  <1>13. \A id : ~IsRpc(table', id)
    BY <1>12 DEF IsRpc
  <1>14. RpcInv'
    <2>1. rpc.lease <= srv.gen /\ rpc.lease \in 0 .. MaxGen
      BY <1>3, CachedIsPast DEF RpcTyped
    <2>2. rpc.lease # srv'.gen
      BY <1>4, <1>5, <2>1
    <2>3. (rpc.mounted => rpc.of <= srv.gen) /\ rpc.of \in 0 .. MaxGen
      BY <1>3 DEF RpcInv, RpcTyped
    <2>4. ~MountedHere' /\ (rpc.mounted => rpc.of <= srv.gen)'
      BY <1>2, <1>4, <1>5, <2>3 DEF MountedHere
    <2>5. (\A m \in Mount : ~MountRuns(m))' /\ Adder \subseteq Mount /\ "stop" \in Mount
      BY <1>1, <1>2 DEF MountRuns, Adder, Mount
    <2>6. RpcGood'
      BY <1>2, <1>13, <2>2, <2>4, <2>5 DEF RpcGood
    <2>7. life'["rpc"] # "stopping"
      BY <1>1, <1>3, <2>5 DEF RpcInv
    <2> QED
      BY <1>2, <2>4, <2>5, <2>6, <2>7 DEF RpcInv, Adder, Mount
  <1>15. \A j \in Job : jobs[j].op = "idle"
    BY <1>1 DEF Running
  <1>16. Worker \subseteq Job /\ Job = {"invoke", "sink", "stop"}
    BY DEF Worker, Job
  <1>17. \A r \in DOMAIN mounts : mounts[r].gen <= srv.gen /\ mounts[r].gen \in 0 .. MaxGen
    BY <1>3 DEF RestInv, RestSteady, RestTyped, RecordsTyped, Record
  <1>18. \A r \in DOMAIN mounts : mounts[r].gen < srv'.gen
    BY <1>4, <1>5, <1>17
  <1>19. RestSteady'
    <2>1. \A r \in DOMAIN mounts : mounts[r].gen <= srv'.gen
      BY <1>4, <1>5, <1>17
    <2>2. \A j \in Worker : ~Putting(jobs[j])
      BY <1>15, <1>16 DEF Putting
    <2>3. ~Taking(jobs["invoke"])
      BY <1>15, <1>16 DEF Taking
    <2>4. life["rest"] \in {"initialized", "active"} => In("rest", telling')
      BY <1>10 DEF Watches, Who
    <2>5. life["rest"] # "stopping"
      BY <1>1, <1>3, <1>16 DEF RestInv, RestSteady
    <2>6. ~spoiled => \A r \in DOMAIN mounts : Len(mounts[r].ids) = Size[r]
      BY <1>3, <2>3 DEF RestInv, RestSteady, Being
    <2>7. ~(\E j \in Job : Running(j))'
      BY <1>2, <1>15 DEF Running
    <2>8. (\A r \in DOMAIN mounts : mounts[r].gen <= srv.gen)'
      BY <1>2, <2>1
    <2>9. (~spoiled => \A r \in DOMAIN mounts : Being(r) \/ Len(mounts[r].ids) = Size[r])'
      BY <1>1, <1>2, <2>6
    <2>10. (\A j \in Worker : ~Putting(jobs[j]))' /\ ~Taking(jobs["invoke"])'
      BY <1>2, <2>2, <2>3
    <2> QED
      BY <1>1, <1>12, <1>16, <2>4, <2>5, <2>7, <2>8, <2>9, <2>10 DEF RestSteady
  <1>20. RestGood'
    <2>1. \A r \in DOMAIN mounts : mounts[r].gen # srv'.gen
      BY <1>4, <1>5, <1>17
    <2>2. \A j \in Worker : ~Putting(jobs[j]) /\ ~Taking(jobs[j]) /\ jobs[j].op # "add" /\ jobs[j].op # "undo"
      BY <1>15, <1>16 DEF Putting, Taking
    <2>3. Worker = {"invoke", "sink"}
      BY DEF Worker
    <2>4. Apart(mounts, jobs, table', seq', srv'.gen)
      BY <1>15, <1>16, <2>1, <2>2 DEF Apart, JobHas
    <2>5. Exact(mounts, jobs, table', srv'.gen)
      BY <1>12, <2>1, <2>2 DEF Exact, JobExact
    <2>6. Good(mounts, jobs, table', seq', srv'.gen)
      BY <2>2, <2>3, <2>4, <2>5 DEF Good, SinkGood
    <2> QED
      BY <1>2, <2>1, <2>6 DEF RestGood
  <1>21. Paired(mounts', jobs')
    BY <1>2, <1>3 DEF RestInv
  <1> QED
    BY <1>6, <1>7, <1>9, <1>14, <1>19, <1>20, <1>21 DEF MountsInv, Typed, RackInv, RestInv

LEMMA SrvStepKeeps ==
    ASSUME MountsInv, UNCHANGED <<restVars, rpcVars>>,
           SrvRegisters(Working) \/ SrvWithdraws \/ SrvVerdict(Working) \/ SrvRollsBack \/ SrvDropped(Working)
             \/ RevokeSkips \/ CallReturns
    PROVE  MountsInv'
  <1>1. CASE RevokeSkips
    <2>1. /\ revoking # <<>> /\ revoking' = Tail(revoking)
          /\ UNCHANGED <<srv, table, seq, guard, spoiled, leases, watchers, telling, life, lives>>
      BY <1>1 DEF RevokeSkips, srvVars
    <2>2. revoking \in Seq(Who) /\ guard \in Guards
      BY RackFacts DEF MountsInv, Typed, SrvTyped
    <2>3. revoking' \in Seq(Who)
      BY <2>1, <2>2
    <2> QED
      BY <2>1, <2>2, <2>3, QuietKeeps
  <1>2. CASE CallReturns
    <2>1. guard' = Nobody /\ UNCHANGED <<srv, table, seq, spoiled, leases, watchers, telling, revoking, life, lives>>
      BY <1>2 DEF CallReturns, rackVars
    <2>2. guard' \in Guards /\ revoking' \in Seq(Who) /\ revoking' = revoking
      BY <2>1, RackFacts DEF Guards
    <2> QED
      BY <2>1, <2>2, QuietKeeps
  <1> QED
    BY <1>1, <1>2, SrvRegistersKeeps, SrvWithdrawsKeeps, SrvVerdictKeeps, SrvRollsBackKeeps, SrvDroppedKeeps

-----------------------------------------------------------------------------
(* Every step keeps the invariant                                          *)

LEMMA RestStepKeeps ==
    ASSUME MountsInv, RestNext, UNCHANGED rpcVars
    PROVE  MountsInv'
  <1>1. RestTyped' /\ RestInv' /\ SrvTyped'
    BY RestNextKeeps DEF CallKeeps
  <1>2. RpcTyped' /\ RpcInv'
    BY RpcFrame
  <1>3. RackInv'
    BY RestRack
  <1> QED
    BY <1>1, <1>2, <1>3 DEF MountsInv, Typed, RackInv

LEMMA RpcStepKeeps ==
    ASSUME MountsInv, RpcNext, UNCHANGED restVars
    PROVE  MountsInv'
  <1>1. RpcCalls /\ RpcTyped' /\ RpcInv'
    BY RpcNextKeeps
  <1>2. RestTyped' /\ RestInv'
    BY <1>1, RpcApart, RestFrame
  <1>3. RackInv'
    BY RpcRack
  <1>4. SrvTyped'
    BY <1>1 DEF RpcCalls
  <1> QED
    BY <1>1, <1>2, <1>3, <1>4 DEF MountsInv, Typed, RackInv

LEMMA NothingMoves ==
    ASSUME MountsInv, UNCHANGED vars
    PROVE  MountsInv'
  <1>1. UNCHANGED <<restVars, rpcVars, srv, table, seq, guard, spoiled, leases, watchers, telling, revoking, life, lives>>
    BY DEF vars, rtVars, srvVars, rackVars
  <1>2. guard \in Guards /\ revoking \in Seq(Who)
    BY RackFacts DEF MountsInv, Typed, SrvTyped
  <1> QED
    BY <1>1, <1>2, QuietKeeps

LEMMA MountsStep ==
    ASSUME MountsInv, [Next]_vars
    PROVE  MountsInv'
  BY SrvStepKeeps, RestStepKeeps, RpcStepKeeps, NothingMoves DEF Next

-----------------------------------------------------------------------------
(* Theorems                                                                *)

LEMMA TypeOKHolds ==
    ASSUME MountsInv
    PROVE  TypeOK
  <1>1. SrvTyped /\ RackTyped /\ RestTyped /\ RpcTyped /\ leases \in Seq(Lease)
    BY RackFacts DEF MountsInv, Typed
  <1>2. LeasesFit(leases, Cached, life, srv)
    BY RackFacts
  <1>3. \A i, j \in DOMAIN leases : leases[i].by = leases[j].by => i = j
    BY <1>1, <1>2 DEF LeasesFit
  <1>4. ASSUME NEW w \in Who, Cached[w] # 0
        PROVE  Leased(w, Cached[w])
    <2>1. PICK i \in 1 .. Len(leases) : leases[i] = [by |-> w, gen |-> Cached[w]]
      BY <1>2, <1>4 DEF LeasesFit
    <2>2. i \in DOMAIN leases
      BY <1>1
    <2> QED
      BY <2>1, <2>2 DEF Leased, LeasesOf
  <1>5. (rest.lease # 0 => Leased("rest", rest.lease)) /\ (rpc.lease # 0 => Leased("rpc", rpc.lease))
    BY <1>4, CachedMoves DEF Who
  <1>6. /\ srv \in [state : {"off", "active", "revoking", "dropping", "faulted"}, gen : 0 .. MaxGen]
        /\ DOMAIN table \subseteq 1 .. seq
        /\ guard \in ({"rest"} \X Job) \cup ({"rpc"} \X Mount) \cup {Nobody, Gone} /\ spoiled \in BOOLEAN
    BY <1>1 DEF SrvTyped, State, Guards
  <1>7. /\ {watchers, telling, revoking} \subseteq Seq(Who)
        /\ leases \in Seq([by : Who, gen : 1 .. MaxGen])
        /\ life \in [Who -> {"absent", "initialized", "active", "stopping"}] /\ lives \in [Who -> Nat]
    BY <1>1 DEF RackTyped, Life
  <1>8. rest \in [lease : 0 .. MaxGen, usable : BOOLEAN] /\ DOMAIN mounts \subseteq Resource /\ stamps \in 0 .. MaxMount
    BY <1>1 DEF RestTyped, RecordsTyped
  <1>9. rpc \in [lease : 0 .. MaxGen, usable : BOOLEAN, mounted : BOOLEAN, id : Nat, of : 0 .. MaxGen,
             scheduled : BOOLEAN]
    BY <1>1 DEF RpcTyped
  <1> QED
    BY <1>3, <1>5, <1>6, <1>7, <1>8, <1>9 DEF TypeOK

LEMMA RoutesAreRecordedHolds ==
    ASSUME MountsInv
    PROVE  RoutesAreRecorded
  <1> SUFFICES ASSUME Available, ~Working, ~spoiled, \A r \in DOMAIN mounts : mounts[r].gen = srv.gen
               PROVE  {<<id, table[id]>> : id \in {i \in DOMAIN table : table[i] # RpcRoute}}
                      = UNION {{<<mounts[r].ids[i], <<r, i>>>> : i \in 1 .. Size[r]} : r \in DOMAIN mounts}
    BY DEF RoutesAreRecorded
  <1>1. (\A j \in Job : jobs[j].op = "idle") /\ Job = {"invoke", "sink", "stop"}
    BY DEF Working, Running, Job
  <1>2. RestGood /\ RestSteady /\ DOMAIN mounts \subseteq Resource
    BY DEF MountsInv, RestInv, Typed, RestTyped, RecordsTyped
  <1>3. Exact(mounts, jobs, table, srv.gen)
    BY <1>1, <1>2 DEF RestGood, Good
  <1>4. \A r \in DOMAIN mounts : Len(mounts[r].ids) = Size[r]
    BY <1>1, <1>2 DEF RestSteady, Being, Taking
  <1>5. ASSUME NEW r \in DOMAIN mounts, NEW i \in 1 .. Size[r]
        PROVE  mounts[r].ids[i] \in DOMAIN table /\ table[mounts[r].ids[i]] = <<r, i>>
    <2>1. RecordExact(table, r, mounts[r]) /\ Len(mounts[r].ids) = Size[r] /\ Size[r] \in Nat
      BY <1>2, <1>3, <1>4 DEF Exact
    <2>2. On(table, mounts[r].ids[i], <<r, Size[r] - Size[r] + i>>) /\ Size[r] - Size[r] + i = i
      BY <2>1 DEF RecordExact
    <2> QED
      BY <2>2 DEF On
  <1>6. \A r \in DOMAIN mounts : \A i : <<r, i>> # RpcRoute
    BY <1>2 DEF RpcRoute
  <1>7. \A j \in Worker : \A id : ~JobHas(jobs[j], id)
    BY <1>1 DEF JobHas, Putting, Worker
  <1>8. ASSUME NEW id \in DOMAIN table, table[id] # RpcRoute
        PROVE  \E r \in DOMAIN mounts : \E i \in 1 .. Size[r] : id = mounts[r].ids[i] /\ table[id] = <<r, i>>
    <2>1. PICK r \in DOMAIN mounts : Has(mounts[r], id)
      BY <1>3, <1>7, <1>8 DEF Exact, IsRpc
    <2>2. PICK i \in 1 .. Size[r] : mounts[r].ids[i] = id
      BY <1>4, <2>1 DEF Has, In
    <2> QED
      BY <1>5, <2>2
  <1>9. ASSUME NEW x \in {<<id, table[id]>> : id \in {i \in DOMAIN table : table[i] # RpcRoute}}
        PROVE  x \in UNION {{<<mounts[r].ids[i], <<r, i>>>> : i \in 1 .. Size[r]} : r \in DOMAIN mounts}
    <2>1. PICK id \in DOMAIN table : table[id] # RpcRoute /\ x = <<id, table[id]>>
      BY <1>9
    <2>2. PICK r \in DOMAIN mounts : \E i \in 1 .. Size[r] : id = mounts[r].ids[i] /\ table[id] = <<r, i>>
      BY <1>8, <2>1
    <2>3. x \in {<<mounts[r].ids[i], <<r, i>>>> : i \in 1 .. Size[r]}
      BY <2>1, <2>2
    <2> QED
      BY <2>3
  <1>10. ASSUME NEW x \in UNION {{<<mounts[r].ids[i], <<r, i>>>> : i \in 1 .. Size[r]} : r \in DOMAIN mounts}
         PROVE  x \in {<<id, table[id]>> : id \in {i \in DOMAIN table : table[i] # RpcRoute}}
    <2>1. PICK r \in DOMAIN mounts : x \in {<<mounts[r].ids[i], <<r, i>>>> : i \in 1 .. Size[r]}
      BY <1>10
    <2>2. PICK i \in 1 .. Size[r] : x = <<mounts[r].ids[i], <<r, i>>>>
      BY <2>1
    <2> QED
      BY <1>5, <1>6, <2>2
  <1> QED
    BY <1>9, <1>10

LEMMA RpcInStepHolds ==
    ASSUME MountsInv
    PROVE  RpcInStep
  <1> SUFFICES ASSUME Available, ~Working, ~spoiled, rpc.lease = srv.gen
               PROVE  MountedHere <=> \E id \in DOMAIN table : table[id] = RpcRoute /\ id = rpc.id
    BY DEF RpcInStep, MountedHere
  <1>1. \A m \in Mount : ~MountRuns(m)
    BY DEF Working
  <1>2. RpcExact
    BY <1>1 DEF MountsInv, RpcInv, RpcGood, Mount
  <1>3. \A m \in Adder : ~MountRuns(m)
    BY <1>1 DEF Adder, Mount
  <1>4. MountedHere => IsRpc(table, rpc.id)
    BY <1>2 DEF RpcExact
  <1>5. ~MountedHere => ~IsRpc(table, rpc.id)
    BY <1>2, <1>3 DEF RpcExact
  <1> QED
    BY <1>4, <1>5 DEF IsRpc

\* The invariant of the whole: the types, one lease at most for each consumer, who is told
\* of what, and for both plugins which ids the records, the sequences of calls under way and
\* the table have in common.
THEOREM MountsInvariant == Spec => []MountsInv
  <1>1. Init => MountsInv
    BY MountsInit
  <1>2. MountsInv /\ [Next]_vars => MountsInv'
    BY MountsStep
  <1> QED
    BY <1>1, <1>2, PTL DEF Spec

\* The types; and a consumer has at most one lease outstanding, the one it has cached if
\* it has one (capSink and onRevoke of std.rest-server and std.rpc).
THEOREM MountsTypes == Spec => []TypeOK
  <1>1. MountsInv => TypeOK
    BY TypeOKHolds
  <1> QED
    BY <1>1, MountsInvariant, PTL

\* Between sequences of calls the routes of resources on the server are those of the
\* records, for any number of generations, resources, slots, mounts and restarts: what
\* addConventionRoutes() promises of a mount that fails half-way, and remountAll() of a
\* server that comes back.  As the property says: not once a removal was refused, named an
\* id of an older generation or was cut short by the end of its instance (spoiled), nor
\* while a record is left on an older generation by a remount that failed.
THEOREM RecordedRoutes == Spec => []RoutesAreRecorded
  <1>1. MountsInv => RoutesAreRecorded
    BY RoutesAreRecordedHolds
  <1> QED
    BY <1>1, MountsInvariant, PTL

\* Between calls the route of std.rpc is on the server exactly if std.rpc had the answer
\* of its mounting from this generation, under the routeId it would remove, answers that
\* come late included (mountRoute(), unmountRoute() and serverRevoker).  Void once spoiled;
\* MountedIsOfThis, that what it takes for mounted is of this generation, is no theorem.
THEOREM RpcStaysInStep == Spec => []RpcInStep
  <1>1. MountsInv => RpcInStep
    BY RpcInStepHolds
  <1> QED
    BY <1>1, MountsInvariant, PTL
=============================================================================
