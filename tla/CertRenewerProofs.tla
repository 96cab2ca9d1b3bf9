--------------------------- MODULE CertRenewerProofs ---------------------------
(***************************************************************************)
(* What ordering certificates keeps to, for any hosts, zones, services and *)
(* jobs: the issuer's queue, its jobs and the renewer share the names and  *)
(* wildcards they have in flight without ever holding one twice.           *)
(***************************************************************************)
EXTENDS CertRenewer, FiniteSetTheorems, TLAPS

\* Zenon proves most leaves; one that needs SMT says so.
USE ZenonT(60)

-----------------------------------------------------------------------------
(***************************************************************************)
(* Induction over the naturals, for a set of numbers.                      *)
(***************************************************************************)
Less == {p \in Nat \X Nat : p[1] < p[2]}

\* Less is well founded.
LEMMA LessIsWellFounded == IsWellFoundedOn(Less, Nat)
    BY NatLessThanWellFounded DEF OpToRel, Less

\* A set of naturals has a least element.
LEMMA LeastElement ==
    ASSUME NEW S \in SUBSET Nat, S # {}
    PROVE  \E n \in S : \A m \in S : n <= m
<1>1. PICK n \in S : \A m \in S : ~(<<m, n>> \in Less)
    BY LessIsWellFounded, WFMin
<1>2. ASSUME NEW m \in S PROVE n <= m
    <2>1. m \in Nat /\ n \in Nat /\ <<m, n>> \notin Less
        BY <1>1
    <2>2. <<m, n>> \in Nat \X Nat /\ <<m, n>>[1] = m /\ <<m, n>>[2] = n
        BY <2>1
    <2>3. ~(m < n)
        BY <2>1, <2>2 DEF Less
    <2> QED BY <2>1, <2>3, SMTT(60)
<1> QED BY <1>2

\* A set that has 0, and n + 1 whenever it has n, has every natural.
LEMMA SetInduction ==
    ASSUME NEW S, 0 \in S, \A n \in Nat : n \in S => n + 1 \in S
    PROVE  Nat \subseteq S
<1> SUFFICES ASSUME Nat \ S # {} PROVE FALSE
    OBVIOUS
<1>1. PICK n \in Nat \ S : \A m \in Nat \ S : n <= m
    BY LeastElement
<1>2. n - 1 \in Nat /\ n - 1 \notin Nat \ S
    BY <1>1, SMTT(60)
<1> QED BY <1>2, SMTT(60)

-----------------------------------------------------------------------------
(***************************************************************************)
(* The queue of requests.                                                  *)
(***************************************************************************)
Requests == [name : Name, retried : BOOLEAN]

\* No two requests for the same name.
Distinct(requests) == \A r, s \in requests : r.name = s.name => r = s

Batch == {S \in SUBSET Requests : IsFiniteSet(S) /\ Distinct(S)}

DistinctQueue(q) == \A p1, p2 \in DOMAIN q : q[p1].name = q[p2].name => p1 = p2

\* One round of the loop that leaves the picked requests out.
Round(q, picked, s, p) == IF q[p] \in picked THEN s ELSE Append(s, q[p])

Runs(q, picked, n, g) ==
    g = [p \in 0 .. n |-> IF p = 0 THEN <<>> ELSE Round(q, picked, g[p - 1], p)]

\* The loop is defined: there is a function that runs it, for every length.
LEMMA LoopExists ==
    ASSUME NEW q, NEW picked, NEW n \in Nat
    PROVE  \E g : Runs(q, picked, n, g)
<1> DEFINE S == {m \in Nat : \E g : Runs(q, picked, m, g)}
<1>1. 0 \in S
    <2>1. Runs(q, picked, 0, [p \in 0 .. 0 |-> <<>>])
        BY SMTT(60) DEF Runs
    <2> QED BY <2>1
<1>2. ASSUME NEW m \in Nat, m \in S PROVE m + 1 \in S
    <2>1. PICK g : Runs(q, picked, m, g)
        BY <1>2
    <2> DEFINE h == [p \in 0 .. (m + 1) |->
                       IF p = m + 1 THEN Round(q, picked, g[m], m + 1) ELSE g[p]]
    <2>2. \A p \in 0 .. m : g[p] = IF p = 0 THEN <<>> ELSE Round(q, picked, g[p - 1], p)
        BY <2>1 DEF Runs
    <2>3. ASSUME NEW p \in 0 .. (m + 1)
          PROVE  h[p] = IF p = 0 THEN <<>> ELSE Round(q, picked, h[p - 1], p)
        <3>1. CASE p = m + 1
            BY <3>1, SMTT(60)
        <3>2. CASE p # m + 1
            BY <2>2, <3>2, SMTT(60)
        <3> QED BY <3>1, <3>2
    <2>4. Runs(q, picked, m + 1, h)
        BY <2>3 DEF Runs
    <2> HIDE DEF h
    <2> QED BY <2>4, SMTT(60)
<1> HIDE DEF S
<1>3. Nat \subseteq S
    BY <1>1, <1>2, SetInduction
<1> QED BY <1>3 DEF S

\* What Without returns is where the loop over the queue ends.
LEMMA WithoutRuns ==
    ASSUME NEW picked, queue \in Seq(Requests)
    PROVE  \E g : Runs(queue, picked, Len(queue), g) /\ Without(picked) = g[Len(queue)]
<1> DEFINE kept[p \in 0 .. Len(queue)] ==
          IF p = 0 THEN <<>>
          ELSE IF queue[p] \in picked THEN kept[p - 1] ELSE Append(kept[p - 1], queue[p])
<1>0. Len(queue) \in Nat
    BY SMTT(60)
<1>1. PICK g : Runs(queue, picked, Len(queue), g)
    BY <1>0, LoopExists
<1>2. g = [p \in 0 .. Len(queue) |->
             IF p = 0 THEN <<>>
             ELSE IF queue[p] \in picked THEN g[p - 1] ELSE Append(g[p - 1], queue[p])]
    BY <1>1 DEF Runs, Round
<1>3. kept = [p \in 0 .. Len(queue) |->
                IF p = 0 THEN <<>>
                ELSE IF queue[p] \in picked THEN kept[p - 1] ELSE Append(kept[p - 1], queue[p])]
    BY <1>2
<1>4. Without(picked) = kept[Len(queue)]
    BY DEF Without
<1> HIDE DEF kept
<1>5. Runs(queue, picked, Len(queue), kept)
    BY <1>3 DEF Runs, Round
<1> QED BY <1>4, <1>5

\* Without keeps exactly the requests that are not picked, each once.
LEMMA WithoutKeeps ==
    ASSUME NEW picked, queue \in Seq(Requests), DistinctQueue(queue)
    PROVE  /\ Without(picked) \in Seq(Requests)
           /\ DistinctQueue(Without(picked))
           /\ {Without(picked)[p] : p \in DOMAIN Without(picked)}
                = {queue[p] : p \in DOMAIN queue} \ picked
<1>1. PICK g : Runs(queue, picked, Len(queue), g) /\ Without(picked) = g[Len(queue)]
    BY WithoutRuns
<1>0. Len(queue) \in Nat /\ DOMAIN queue = 1 .. Len(queue)
    BY SMTT(60)
<1>2. /\ g[0] = <<>>
      /\ \A p \in 1 .. Len(queue) : g[p] = Round(queue, picked, g[p - 1], p)
    BY <1>0, <1>1, SMTT(60) DEF Runs
<1> DEFINE Good(p) == /\ g[p] \in Seq(Requests)
                      /\ \A x \in DOMAIN g[p] : \E y \in 1 .. p : g[p][x] = queue[y] /\ queue[y] \notin picked
                      /\ \A y \in 1 .. p : queue[y] \notin picked => \E x \in DOMAIN g[p] : g[p][x] = queue[y]
                      /\ DistinctQueue(g[p])
           S == {p \in Nat : p <= Len(queue) => Good(p)}
<1>3. 0 \in S
    <2>1. g[0] \in Seq(Requests) /\ DOMAIN g[0] = {}
        BY <1>2, SMTT(60)
    <2>2. Good(0)
        BY <2>1, SMTT(60) DEF DistinctQueue
    <2> QED BY <2>2
<1>4. ASSUME NEW p \in Nat, p \in S PROVE p + 1 \in S
    <2> SUFFICES ASSUME p + 1 <= Len(queue) PROVE Good(p + 1)
        BY SMTT(60)
    <2>1. Good(p)
        BY <1>0, <1>4, SMTT(60)
    <2>2. g[p + 1] = Round(queue, picked, g[p], p + 1)
        BY <1>0, <1>2, SMTT(60)
    <2>3. CASE queue[p + 1] \in picked
        <3>1. g[p + 1] = g[p]
            BY <2>2, <2>3 DEF Round
        <3> QED BY <2>1, <2>3, <3>1, SMTT(60)
    <2>4. CASE queue[p + 1] \notin picked
        <3>1. g[p + 1] = Append(g[p], queue[p + 1])
            BY <2>2, <2>4 DEF Round
        <3>2. queue[p + 1] \in Requests
            BY <1>0, SMTT(60)
        <3>3. /\ g[p + 1] \in Seq(Requests)
              /\ DOMAIN g[p] = 1 .. Len(g[p])
              /\ Len(g[p]) \in Nat
              /\ DOMAIN g[p + 1] = 1 .. (Len(g[p]) + 1)
              /\ \A x \in DOMAIN g[p] : g[p + 1][x] = g[p][x]
              /\ g[p + 1][Len(g[p]) + 1] = queue[p + 1]
            BY <2>1, <3>1, <3>2, SMTT(60)
        <3>4. \A x \in DOMAIN g[p + 1] :
                 \E y \in 1 .. (p + 1) : g[p + 1][x] = queue[y] /\ queue[y] \notin picked
            <4> SUFFICES ASSUME NEW x \in DOMAIN g[p + 1]
                         PROVE  \E y \in 1 .. (p + 1) : g[p + 1][x] = queue[y] /\ queue[y] \notin picked
                OBVIOUS
            <4>1. CASE x \in DOMAIN g[p]
                BY <2>1, <3>3, <4>1, SMTT(60)
            <4>2. CASE x \notin DOMAIN g[p]
                <5>1. x = Len(g[p]) + 1
                    BY <3>3, <4>2, SMTT(60)
                <5> QED BY <2>4, <3>3, <5>1, SMTT(60)
            <4> QED BY <4>1, <4>2
        <3>5. \A y \in 1 .. (p + 1) : queue[y] \notin picked =>
                 \E x \in DOMAIN g[p + 1] : g[p + 1][x] = queue[y]
            <4> SUFFICES ASSUME NEW y \in 1 .. (p + 1), queue[y] \notin picked
                         PROVE  \E x \in DOMAIN g[p + 1] : g[p + 1][x] = queue[y]
                OBVIOUS
            <4>1. CASE y = p + 1
                BY <3>3, <4>1, SMTT(60)
            <4>2. CASE y # p + 1
                <5>1. PICK x \in DOMAIN g[p] : g[p][x] = queue[y]
                    BY <2>1, <4>2, SMTT(60)
                <5> QED BY <3>3, <5>1, SMTT(60)
            <4> QED BY <4>1, <4>2
        <3>6. \A x \in DOMAIN g[p] : g[p][x].name # queue[p + 1].name
            <4> SUFFICES ASSUME NEW x \in DOMAIN g[p] PROVE g[p][x].name # queue[p + 1].name
                OBVIOUS
            <4>1. PICK y \in 1 .. p : g[p][x] = queue[y]
                BY <2>1
            <4> QED BY <1>0, <4>1, SMTT(60) DEF DistinctQueue
        <3>7. ASSUME NEW x1 \in DOMAIN g[p + 1], NEW x2 \in DOMAIN g[p + 1],
                     g[p + 1][x1].name = g[p + 1][x2].name
              PROVE  x1 = x2
            <4>1. CASE x1 \in DOMAIN g[p] /\ x2 \in DOMAIN g[p]
                <5>1. g[p][x1].name = g[p][x2].name
                    BY <3>3, <3>7, <4>1
                <5>2. DistinctQueue(g[p])
                    BY <2>1
                <5> QED BY <4>1, <5>1, <5>2 DEF DistinctQueue
            <4>2. CASE x1 \notin DOMAIN g[p] /\ x2 \notin DOMAIN g[p]
                BY <3>3, <3>7, <4>2, SMTT(60)
            <4>3. CASE x1 \in DOMAIN g[p] /\ x2 \notin DOMAIN g[p]
                <5>1. x2 = Len(g[p]) + 1
                    BY <3>3, <4>3, SMTT(60)
                <5> QED BY <3>3, <3>6, <3>7, <4>3, <5>1
            <4>4. CASE x1 \notin DOMAIN g[p] /\ x2 \in DOMAIN g[p]
                <5>1. x1 = Len(g[p]) + 1
                    BY <3>3, <4>4, SMTT(60)
                <5> QED BY <3>3, <3>6, <3>7, <4>4, <5>1
            <4> QED BY <4>1, <4>2, <4>3, <4>4
        <3>8. DistinctQueue(g[p + 1])
            BY <3>7 DEF DistinctQueue
        <3> QED BY <3>3, <3>4, <3>5, <3>8
    <2> QED BY <2>3, <2>4
<1> HIDE DEF S
<1>5. Nat \subseteq S
    BY <1>3, <1>4, SetInduction
<1>6. Good(Len(queue))
    BY <1>0, <1>5, SMTT(60) DEF S
<1> DEFINE G == g[Len(queue)]
<1>7. /\ G \in Seq(Requests) /\ DistinctQueue(G)
      /\ \A x \in DOMAIN G : \E y \in DOMAIN queue : G[x] = queue[y] /\ queue[y] \notin picked
      /\ \A y \in DOMAIN queue : queue[y] \notin picked => \E x \in DOMAIN G : G[x] = queue[y]
    BY <1>0, <1>6
<1>8. Without(picked) = G
    BY <1>1
<1> HIDE DEF G
<1>9. ASSUME NEW r \in {G[x] : x \in DOMAIN G}
      PROVE  r \in {queue[y] : y \in DOMAIN queue} \ picked
    <2>1. PICK x \in DOMAIN G : r = G[x]
        OBVIOUS
    <2> QED BY <1>7, <2>1
<1>10. ASSUME NEW r \in {queue[y] : y \in DOMAIN queue} \ picked
       PROVE  r \in {G[x] : x \in DOMAIN G}
    <2>1. PICK y \in DOMAIN queue : r = queue[y]
        OBVIOUS
    <2> QED BY <1>7, <2>1
<1>11. {G[x] : x \in DOMAIN G} = {queue[y] : y \in DOMAIN queue} \ picked
    BY <1>9, <1>10
<1> QED BY <1>7, <1>8, <1>11

-----------------------------------------------------------------------------
(***************************************************************************)
(* The inductive invariant of the orders.                                  *)
(***************************************************************************)
Apart(o, p) == o.ids \cap p.ids = {} /\ Names(o.requests) \cap Names(p.requests) = {}

OrderShape(o) ==
    /\ o = [ids |-> o.ids, requests |-> o.requests, identifierOf |-> o.identifierOf, dir |-> o.dir]
    /\ o.requests \in Batch

Ordering == {"placed", "answered", "release"}

JobShape(jb) ==
    /\ jb = [pc |-> jb.pc, batch |-> jb.batch, orders |-> jb.orders, order |-> jb.order,
             survivors |-> jb.survivors]
    /\ jb.pc \in {"idle", "probe"} \cup Ordering
    /\ jb.batch \in Batch
    /\ jb.pc \notin Ordering => jb.orders = {}
    /\ OrderShape(jb.order) /\ \A o \in jb.orders : OrderShape(o)
    /\ \A o, p \in jb.orders : o # p => Apart(o, p)
    /\ jb.pc \in Ordering => \A o \in jb.orders : Apart(jb.order, o)
    /\ jb.survivors \in Batch /\ Names(jb.survivors) \subseteq Names(jb.order.requests)

RenewerShape(r) ==
    /\ {"pc", "topped"} \subseteq DOMAIN r
    /\ r.pc \notin {"placed", "finish"} => r.topped = {}

WorkInv ==
    /\ queue \in Seq(Requests)
    /\ worker \in [pc : {"asleep", "scan", "spawn"}, batch : Batch]
    /\ worker.pc # "spawn" => worker.batch = {}
    /\ job = [j \in Job |-> job[j]] /\ \A j \in Job : JobShape(job[j])
    /\ prober \in [pc : {"idle", "probe", "release", "request"}, candidates : SUBSET Name,
                   released : SUBSET Name]
    /\ RenewerShape(renewer)

QueueInv ==
    /\ DistinctQueue(queue)
    /\ queued = {queue[p].name : p \in DOMAIN queue}
    /\ queued \cap inflight = {}
    /\ queue # <<>> => wake \/ worker.pc # "asleep"

\* The names of a job's unsettled requests, and the wildcards of its orders.
Held(jb) ==
    CASE jb.pc = "probe" -> Names(jb.batch)
      [] jb.pc \in {"placed", "answered"} ->
            Names(jb.order.requests \cup UNION {o.requests : o \in jb.orders})
      [] jb.pc = "release" -> Names(UNION {o.requests : o \in jb.orders})
      [] OTHER -> {}

OrdersOf(jb) == jb.orders \cup IF jb.pc \in Ordering THEN {jb.order} ELSE {}

WildsOf(jb) == {i \in UNION {o.ids : o \in OrdersOf(jb)} : IsWild(i)}

HeldInv ==
    /\ inflight = Names(worker.batch) \cup renewer.topped \cup UNION {Held(job[j]) : j \in Job}
    /\ Names(worker.batch) \cap renewer.topped = {}
    /\ \A j \in Job : Held(job[j]) \cap (Names(worker.batch) \cup renewer.topped) = {}
    /\ \A j, l \in Job : j # l => Held(job[j]) \cap Held(job[l]) = {}

WildInv ==
    /\ {i \in inflightIdentifiers : IsWild(i)} = UNION {WildsOf(job[j]) : j \in Job}
    /\ \A j, l \in Job : j # l => WildsOf(job[j]) \cap WildsOf(job[l]) = {}

OrdersInv == WorkInv /\ QueueInv /\ HeldInv /\ WildInv

-----------------------------------------------------------------------------
(***************************************************************************)
(* Batches.                                                                *)
(***************************************************************************)
\* A part of a batch is a batch.
LEMMA BatchPart ==
    ASSUME NEW b \in Batch, NEW c, c \subseteq b
    PROVE  c \in Batch
<1>1. IsFiniteSet(c)
    BY FS_Subset DEF Batch
<1> QED BY <1>1 DEF Batch, Distinct

\* Nothing is a batch.
LEMMA EmptyBatch == {} \in Batch /\ Names({}) = {}
    BY FS_EmptySet DEF Batch, Distinct, Names

\* The requests at some positions of the queue are a batch.
LEMMA PickedBatch ==
    ASSUME queue \in Seq(Requests), DistinctQueue(queue), NEW ps, ps \subseteq DOMAIN queue
    PROVE  At(ps) \in Batch
<1>1. IsFiniteSet(ps)
    <2>1. IsFiniteSet(1 .. Len(queue))
        BY FS_Interval, SMTT(60)
    <2>2. ps \in SUBSET (1 .. Len(queue))
        BY SMTT(60)
    <2> QED BY <2>1, <2>2, FS_Subset
<1> DEFINE f == [p \in ps |-> queue[p]]
<1>2. f \in Surjection(ps, At(ps))
    BY DEF Surjection, At
<1>3. IsFiniteSet(At(ps))
    BY <1>1, <1>2, FS_Surjection
<1>4. At(ps) \subseteq Requests
    BY SMTT(60) DEF At
<1>5. Distinct(At(ps))
    BY DEF At, Distinct, DistinctQueue
<1> QED BY <1>3, <1>4, <1>5 DEF Batch

\* Taking some requests off the queue takes their names off the queued ones.
LEMMA QueueWithout ==
    ASSUME queue \in Seq(Requests), DistinctQueue(queue),
           queued = {queue[p].name : p \in DOMAIN queue},
           NEW picked, picked \subseteq {queue[p] : p \in DOMAIN queue}
    PROVE  /\ Without(picked) \in Seq(Requests)
           /\ DistinctQueue(Without(picked))
           /\ queued \ Names(picked) = {Without(picked)[p].name : p \in DOMAIN Without(picked)}
           /\ Without(picked) # <<>> => queue # <<>>
<1> DEFINE W == Without(picked)
<1>1. /\ W \in Seq(Requests)
      /\ DistinctQueue(W)
      /\ {W[p] : p \in DOMAIN W} = {queue[p] : p \in DOMAIN queue} \ picked
    BY WithoutKeeps
<1> HIDE DEF W
<1>2. ASSUME NEW n, n \in queued, n \notin Names(picked)
      PROVE  n \in {W[p].name : p \in DOMAIN W}
    <2>1. PICK p \in DOMAIN queue : queue[p].name = n
        BY <1>2
    <2>2. queue[p] \notin picked
        BY <1>2, <2>1 DEF Names
    <2>3. queue[p] \in {W[x] : x \in DOMAIN W}
        BY <1>1, <2>2
    <2> QED BY <2>1, <2>3
<1>3. ASSUME NEW x \in DOMAIN W
      PROVE  W[x].name \in queued /\ W[x].name \notin Names(picked)
    <2>1. W[x] \in {queue[p] : p \in DOMAIN queue} \ picked
        BY <1>1
    <2>2. PICK p \in DOMAIN queue : W[x] = queue[p] /\ queue[p] \notin picked
        BY <2>1
    <2>3. ASSUME queue[p].name \in Names(picked) PROVE FALSE
        <3>1. PICK r \in picked : r.name = queue[p].name
            BY <2>3 DEF Names
        <3>2. PICK y \in DOMAIN queue : r = queue[y]
            OBVIOUS
        <3> QED BY <2>2, <3>1, <3>2 DEF DistinctQueue
    <2> QED BY <2>2, <2>3
<1>4. queued \ Names(picked) = {W[p].name : p \in DOMAIN W}
    BY <1>2, <1>3
<1>5. W # <<>> => queue # <<>>
    <2> SUFFICES ASSUME W # <<>> PROVE queue # <<>>
        OBVIOUS
    <2>1. PICK x \in DOMAIN W : TRUE
        BY <1>1, SMTT(60)
    <2>2. W[x] \in {queue[p] : p \in DOMAIN queue}
        BY <1>1
    <2> QED BY <2>2, SMTT(60)
<1> QED BY <1>1, <1>4, <1>5 DEF W

\* Queueing a name that is neither queued nor in flight keeps the queue sound.
LEMMA EnqueueKeeps ==
    ASSUME queue \in Seq(Requests), QueueInv, NEW n \in Name, Enqueue(n),
           inflight' = inflight, worker' = worker
    PROVE  queue' \in Seq(Requests) /\ QueueInv'
<1>1. CASE n \in queued \cup inflight
    BY <1>1 DEF Enqueue, QueueInv
<1>2. CASE n \notin queued \cup inflight
    <2> DEFINE r == [name |-> n, retried |-> FALSE]
    <2>1. queue' = Append(queue, r) /\ queued' = queued \cup {n} /\ wake' = TRUE
        BY <1>2 DEF Enqueue
    <2>2. r \in Requests /\ r.name = n
        BY DEF Requests
    <2> HIDE DEF r
    <2>3. /\ queue' \in Seq(Requests)
          /\ DOMAIN queue = 1 .. Len(queue) /\ Len(queue) \in Nat
          /\ DOMAIN queue' = 1 .. (Len(queue) + 1)
          /\ \A p \in DOMAIN queue : queue'[p] = queue[p]
          /\ queue'[Len(queue) + 1] = r
        BY <2>1, <2>2, SMTT(60)
    <2>4. \A p \in DOMAIN queue : queue[p].name # n
        BY <1>2 DEF QueueInv
    <2>5. ASSUME NEW p \in DOMAIN queue', NEW q \in DOMAIN queue', queue'[p].name = queue'[q].name
          PROVE  p = q
        <3>1. \A x \in DOMAIN queue' : x \in DOMAIN queue \/ x = Len(queue) + 1
            BY <2>3, SMTT(60)
        <3>2. CASE p \in DOMAIN queue /\ q \in DOMAIN queue
            <4>1. queue[p].name = queue[q].name
                BY <2>3, <2>5, <3>2
            <4> QED BY <3>2, <4>1 DEF QueueInv, DistinctQueue
        <3>3. CASE p \in DOMAIN queue /\ q \notin DOMAIN queue
            BY <2>2, <2>3, <2>4, <2>5, <3>1, <3>3
        <3>4. CASE p \notin DOMAIN queue /\ q \in DOMAIN queue
            BY <2>2, <2>3, <2>4, <2>5, <3>1, <3>4
        <3>5. CASE p \notin DOMAIN queue /\ q \notin DOMAIN queue
            BY <3>1, <3>5
        <3> QED BY <3>2, <3>3, <3>4, <3>5
    <2>6. DistinctQueue(queue')
        BY <2>5 DEF DistinctQueue
    <2>7. queued' = {queue'[p].name : p \in DOMAIN queue'}
        <3>1. queued = {queue[p].name : p \in DOMAIN queue}
            BY DEF QueueInv
        <3>2. ASSUME NEW m \in queued' PROVE m \in {queue'[p].name : p \in DOMAIN queue'}
            <4>1. CASE m = n
                BY <2>2, <2>3, <4>1, SMTT(60)
            <4>2. CASE m # n
                <5>1. PICK p \in DOMAIN queue : queue[p].name = m
                    BY <2>1, <3>1, <4>2
                <5> QED BY <2>3, <5>1, SMTT(60)
            <4> QED BY <4>1, <4>2
        <3>3. ASSUME NEW p \in DOMAIN queue' PROVE queue'[p].name \in queued'
            <4>1. CASE p \in DOMAIN queue
                BY <2>1, <2>3, <3>1, <4>1
            <4>2. CASE p \notin DOMAIN queue
                <5>1. p = Len(queue) + 1
                    BY <2>3, <4>2, SMTT(60)
                <5> QED BY <2>1, <2>2, <2>3, <5>1
            <4> QED BY <4>1, <4>2
        <3> QED BY <3>2, <3>3
    <2>8. queued' \cap inflight' = {}
        BY <1>2, <2>1 DEF QueueInv
    <2> QED BY <2>1, <2>3, <2>6, <2>7, <2>8 DEF QueueInv
<1> QED BY <1>1, <1>2

-----------------------------------------------------------------------------
(***************************************************************************)
(* Jobs.                                                                   *)
(***************************************************************************)
\* A change of one job leaves the others alone.
LEMMA OneJob ==
    ASSUME NEW j \in Job, NEW nb, job = [l \in Job |-> job[l]], job' = [job EXCEPT ![j] = nb]
    PROVE  /\ job' = [l \in Job |-> job'[l]]
           /\ job'[j] = nb
           /\ \A l \in Job \ {j} : job'[l] = job[l]
    OBVIOUS

\* The orders of a plan are for requests of the batch, share no identifier and no
\* name, and have no wildcard that is being ordered already.
LEMMA PlanApart ==
    ASSUME NEW ids, NEW requests \in Batch, NEW identifierOf
    PROVE  LET orders == planOrders(ids, requests, identifierOf)
           IN  /\ \A o \in orders : /\ OrderShape(o)
                                    /\ o.requests \subseteq requests
                                    /\ \A i \in o.ids : IsWild(i) => i \notin inflightIdentifiers
               /\ \A o, p \in orders : o # p => Apart(o, p)
<1> DEFINE orders == planOrders(ids, requests, identifierOf)
           busy == {i \in ids \cap inflightIdentifiers : IsWild(i)}
           OrderOf(part) == [ids |-> part \ busy,
                             requests |-> {r \in requests : identifierOf[r.name] \in part \ busy},
                             identifierOf |-> identifierOf, dir |-> None]
<1>1. \A o \in orders : \E part \in splitByProviderZone(ids) : o = OrderOf(part)
    BY DEF planOrders
<1>2. \A part \in splitByProviderZone(ids) : part \subseteq ids
    BY DEF splitByProviderZone
<1>3. \A x, y \in splitByProviderZone(ids) : x # y => x \cap y = {}
    BY DEF splitByProviderZone
<1>4. ASSUME NEW o \in orders
      PROVE  /\ OrderShape(o)
             /\ o.requests \subseteq requests
             /\ \A i \in o.ids : IsWild(i) => i \notin inflightIdentifiers
    <2>1. PICK part \in splitByProviderZone(ids) : o = OrderOf(part)
        BY <1>1
    <2>2. /\ o.ids = part \ busy
          /\ o.requests = {r \in requests : identifierOf[r.name] \in part \ busy}
          /\ o = [ids |-> o.ids, requests |-> o.requests, identifierOf |-> o.identifierOf,
                  dir |-> o.dir]
        BY <2>1
    <2>3. o.requests \subseteq requests
        BY <2>2
    <2>4. o.requests \in Batch
        BY <2>3, BatchPart
    <2>5. \A i \in o.ids : IsWild(i) => i \notin inflightIdentifiers
        BY <1>2, <2>2
    <2> QED BY <2>2, <2>3, <2>4, <2>5 DEF OrderShape
<1>5. ASSUME NEW o \in orders, NEW p \in orders, o # p
      PROVE  Apart(o, p)
    <2>1. PICK x \in splitByProviderZone(ids) : o = OrderOf(x)
        BY <1>1
    <2>2. PICK y \in splitByProviderZone(ids) : p = OrderOf(y)
        BY <1>1
    <2>3. x \cap y = {}
        <3>1. x # y
            BY <1>5, <2>1, <2>2
        <3> QED BY <1>3, <3>1
    <2>4. /\ o.ids = x \ busy /\ p.ids = y \ busy
          /\ o.requests = {r \in requests : identifierOf[r.name] \in x \ busy}
          /\ p.requests = {r \in requests : identifierOf[r.name] \in y \ busy}
        BY <2>1, <2>2
    <2>5. \A r \in o.requests : identifierOf[r.name] \in x
        BY <2>4
    <2>6. \A r \in p.requests : identifierOf[r.name] \in y
        BY <2>4
    <2>7. \A r \in o.requests, s \in p.requests : r.name # s.name
        BY <2>3, <2>5, <2>6
    <2> QED BY <2>3, <2>4, <2>7, SMTT(60) DEF Apart, Names
<1> QED BY <1>4, <1>5

\* A job's record with its next order.
LEMMA JobPlaced ==
    ASSUME NEW p, NEW b, NEW os, NEW od, NEW sv, NEW o, NEW no, NEW r,
           r = [[pc |-> p, batch |-> b, orders |-> os, order |-> od, survivors |-> sv]
                  EXCEPT !.pc = "placed", !.orders = @ \ {o}, !.survivors = {}, !.order = no]
    PROVE  r = [pc |-> "placed", batch |-> b, orders |-> os \ {o}, order |-> no, survivors |-> {}]
<1>1. /\ r.pc = "placed" /\ r.batch = b /\ r.orders = os \ {o} /\ r.order = no
      /\ r.survivors = {}
    OBVIOUS
<1>2. r = [pc |-> r.pc, batch |-> r.batch, orders |-> r.orders, order |-> r.order,
           survivors |-> r.survivors]
    OBVIOUS
<1> QED BY <1>1, <1>2

\* What a job goes on with holds the requests and the identifiers of its orders.
LEMMA NextOrderShape ==
    ASSUME NEW jb,
           jb = [pc |-> jb.pc, batch |-> jb.batch, orders |-> jb.orders, order |-> jb.order,
                 survivors |-> jb.survivors],
           jb.batch \in Batch,
           \A o \in jb.orders : OrderShape(o),
           \A o, p \in jb.orders : o # p => Apart(o, p)
    PROVE  /\ JobShape(NextOrder(jb))
           /\ Held(NextOrder(jb)) = Names(UNION {o.requests : o \in jb.orders})
           /\ UNION {o.ids : o \in OrdersOf(NextOrder(jb))} = UNION {o.ids : o \in jb.orders}
<1>1. CASE jb.orders = {}
    <2>1. NextOrder(jb) = IdleJob
        BY <1>1 DEF NextOrder
    <2>2. JobShape(IdleJob)
        <3>1. OrderShape(NoOrder)
            BY EmptyBatch DEF OrderShape, NoOrder
        <3>2. /\ IdleJob.pc = "idle" /\ IdleJob.batch = {} /\ IdleJob.orders = {}
              /\ IdleJob.order = NoOrder /\ IdleJob.survivors = {}
              /\ IdleJob = [pc |-> IdleJob.pc, batch |-> IdleJob.batch, orders |-> IdleJob.orders,
                            order |-> IdleJob.order, survivors |-> IdleJob.survivors]
            BY DEF IdleJob
        <3> QED BY <3>1, <3>2, EmptyBatch DEF JobShape, Ordering
    <2>3. Held(IdleJob) = {} /\ OrdersOf(IdleJob) = {}
        BY DEF Held, OrdersOf, IdleJob, Ordering
    <2>4. Names(UNION {o.requests : o \in jb.orders}) = {}
        BY <1>1 DEF Names
    <2> QED BY <1>1, <2>1, <2>2, <2>3, <2>4
<1>2. CASE jb.orders # {}
    <2> DEFINE o == CHOOSE o \in jb.orders : TRUE
               no == [o EXCEPT !.dir = directoryForDomains(o.ids)]
               nb == NextOrder(jb)
    <2>1. o \in jb.orders
        BY <1>2
    <2>2. nb = [jb EXCEPT !.pc = "placed", !.orders = @ \ {o}, !.survivors = {}, !.order = no]
        BY <1>2 DEF NextOrder
    <2> HIDE DEF o, nb
    <2>3. /\ no = [ids |-> no.ids, requests |-> no.requests, identifierOf |-> no.identifierOf,
                   dir |-> no.dir]
          /\ no.ids = o.ids /\ no.requests = o.requests
        BY <2>1, SMTT(60) DEF OrderShape
    <2> HIDE DEF no
    <2>4. /\ nb = [pc |-> nb.pc, batch |-> nb.batch, orders |-> nb.orders, order |-> nb.order,
                   survivors |-> nb.survivors]
          /\ nb.pc = "placed" /\ nb.batch = jb.batch /\ nb.orders = jb.orders \ {o}
          /\ nb.order = no /\ nb.survivors = {}
        <3>1. PICK p, b, os, od, sv :
                 jb = [pc |-> p, batch |-> b, orders |-> os, order |-> od, survivors |-> sv]
            OBVIOUS
        <3> DEFINE rb == [pc |-> p, batch |-> b, orders |-> os, order |-> od, survivors |-> sv]
        <3>2. nb = [rb EXCEPT !.pc = "placed", !.orders = @ \ {o}, !.survivors = {}, !.order = no]
            BY <2>2, <3>1
        <3>3. nb = [pc |-> "placed", batch |-> b, orders |-> os \ {o}, order |-> no,
                    survivors |-> {}]
            BY <3>2, JobPlaced
        <3> QED BY <3>1, <3>3
    <2>5. OrderShape(no)
        BY <2>1, <2>3 DEF OrderShape
    <2>6. \A p \in nb.orders : Apart(no, p)
        BY <2>1, <2>3, <2>4 DEF Apart
    <2>7. JobShape(nb)
        BY <2>4, <2>5, <2>6, EmptyBatch DEF JobShape, Ordering
    <2>8. Held(nb) = Names(no.requests \cup UNION {p.requests : p \in nb.orders})
        BY <2>4 DEF Held
    <2>9. no.requests \cup UNION {p.requests : p \in nb.orders}
            = UNION {p.requests : p \in jb.orders}
        BY <2>1, <2>3, <2>4
    <2>10. OrdersOf(nb) = nb.orders \cup {no}
        BY <2>4 DEF OrdersOf, Ordering
    <2>11. UNION {p.ids : p \in OrdersOf(nb)} = UNION {p.ids : p \in jb.orders}
        BY <2>1, <2>3, <2>4, <2>10, SMTT(60)
    <2>12. nb = NextOrder(jb)
        BY DEF nb
    <2> QED BY <2>7, <2>8, <2>9, <2>11, <2>12
<1> QED BY <1>1, <1>2

\* A job that lets some names go, which leave the flight with it.
LEMMA JobLetsGo ==
    ASSUME HeldInv, NEW j \in Job, NEW gone, \A l \in Job \ {j} : job'[l] = job[l],
           Held(job[j]) = Held(job'[j]) \cup gone, Held(job'[j]) \cap gone = {},
           inflight' = inflight \ gone, worker' = worker, renewer' = renewer
    PROVE  HeldInv'
<1> DEFINE H == [l \in Job |-> Held(job[l])]
           N == [l \in Job |-> Held(job'[l])]
<1>1. \A l \in Job \ {j} : N[l] = H[l]
    OBVIOUS
<1>2. /\ inflight = Names(worker.batch) \cup renewer.topped \cup UNION {H[l] : l \in Job}
      /\ Names(worker.batch) \cap renewer.topped = {}
      /\ \A l \in Job : H[l] \cap (Names(worker.batch) \cup renewer.topped) = {}
      /\ \A l, m \in Job : l # m => H[l] \cap H[m] = {}
    BY DEF HeldInv
<1>3. H[j] = N[j] \cup gone /\ N[j] \cap gone = {}
    OBVIOUS
<1> HIDE DEF H, N
<1>4. UNION {N[l] : l \in Job} = (UNION {H[l] : l \in Job}) \ gone
    <2>1. ASSUME NEW l \in Job PROVE N[l] \subseteq (UNION {H[m] : m \in Job}) \ gone
        <3>1. CASE l = j
            BY <1>3, <3>1
        <3>2. CASE l # j
            BY <1>1, <1>2, <1>3, <3>2
        <3> QED BY <3>1, <3>2
    <2>2. ASSUME NEW l \in Job, NEW n \in H[l], n \notin gone PROVE n \in UNION {N[m] : m \in Job}
        BY <1>1, <1>3, <2>2
    <2> QED BY <2>1, <2>2
<1>5. /\ inflight' = Names(worker'.batch) \cup renewer'.topped \cup UNION {N[l] : l \in Job}
      /\ Names(worker'.batch) \cap renewer'.topped = {}
    <2>1. gone \subseteq H[j]
        BY <1>3
    <2>2. Names(worker.batch) \cap gone = {} /\ renewer.topped \cap gone = {}
        BY <1>2, <2>1
    <2> QED BY <1>2, <1>4, <2>2
<1>6. \A l \in Job : N[l] \subseteq H[l]
    BY <1>1, <1>3
<1>7. /\ \A l \in Job : N[l] \cap (Names(worker'.batch) \cup renewer'.topped) = {}
      /\ \A l, m \in Job : l # m => N[l] \cap N[m] = {}
    BY <1>2, <1>6
<1> QED BY <1>5, <1>7, SMTT(60) DEF HeldInv, H, N

\* A job whose wildcards stay, or lose the ones that leave the marks.
LEMMA JobDropsWilds ==
    ASSUME WildInv, NEW j \in Job, NEW gone, \A l \in Job \ {j} : job'[l] = job[l],
           WildsOf(job[j]) = WildsOf(job'[j]) \cup {i \in gone : IsWild(i)},
           WildsOf(job'[j]) \cap gone = {},
           inflightIdentifiers' = inflightIdentifiers \ gone
    PROVE  WildInv'
<1> DEFINE H == [l \in Job |-> WildsOf(job[l])]
           N == [l \in Job |-> WildsOf(job'[l])]
           marked == {i \in inflightIdentifiers : IsWild(i)}
           left == {i \in gone : IsWild(i)}
<1>1. \A l \in Job \ {j} : N[l] = H[l]
    OBVIOUS
<1>2. /\ marked = UNION {H[l] : l \in Job}
      /\ \A l, m \in Job : l # m => H[l] \cap H[m] = {}
    BY SMTT(60) DEF WildInv
<1>3. H[j] = N[j] \cup left /\ N[j] \cap left = {}
    OBVIOUS
<1>4. {i \in inflightIdentifiers' : IsWild(i)} = marked \ left
    OBVIOUS
<1> HIDE DEF H, N, marked, left
<1>5. UNION {N[l] : l \in Job} = (UNION {H[l] : l \in Job}) \ left
    <2>1. ASSUME NEW l \in Job PROVE N[l] \subseteq (UNION {H[m] : m \in Job}) \ left
        <3>1. CASE l = j
            BY <1>3, <3>1
        <3>2. CASE l # j
            BY <1>1, <1>2, <1>3, <3>2
        <3> QED BY <3>1, <3>2
    <2>2. ASSUME NEW l \in Job, NEW n \in H[l], n \notin left PROVE n \in UNION {N[m] : m \in Job}
        BY <1>1, <1>3, <2>2
    <2> QED BY <2>1, <2>2
<1>6. \A l \in Job : N[l] \subseteq H[l]
    BY <1>1, <1>3
<1>7. \A l, m \in Job : l # m => N[l] \cap N[m] = {}
    BY <1>2, <1>6
<1>8. {i \in inflightIdentifiers' : IsWild(i)} = UNION {N[l] : l \in Job}
    BY <1>2, <1>4, <1>5
<1> QED BY <1>7, <1>8, SMTT(60) DEF WildInv, N

-----------------------------------------------------------------------------
(***************************************************************************)
(* The issuer's steps keep the invariant.                                  *)
(***************************************************************************)
\* Nothing of what the invariant speaks of changes but the wake-up, which comes.
LEMMA OrdersStay ==
    ASSUME OrdersInv, UNCHANGED <<queue, queued, inflight, inflightIdentifiers, worker, job>>,
           prober' = prober, RenewerShape(renewer'), renewer'.topped = renewer.topped,
           wake => wake'
    PROVE  OrdersInv'
<1>1. WorkInv'
    BY DEF OrdersInv, WorkInv
<1>2. QueueInv'
    BY DEF OrdersInv, QueueInv
<1>3. HeldInv'
    BY DEF OrdersInv, HeldInv
<1>4. WildInv'
    BY DEF OrdersInv, WildInv
<1> QED BY <1>1, <1>2, <1>3, <1>4 DEF OrdersInv

\* Asking for a name keeps the invariant (Request).
LEMMA RequestKeepsOrders ==
    ASSUME OrdersInv, NEW n \in Name, Request(n) \/ Enqueue(n),
           UNCHANGED <<inflight, inflightIdentifiers, worker, job, renewer>>,
           prober' \in [pc : {"idle", "probe", "release", "request"}, candidates : SUBSET Name,
                        released : SUBSET Name]
    PROVE  OrdersInv'
<1>1. queue' \in Seq(Requests) /\ QueueInv'
    <2>1. queue \in Seq(Requests) /\ QueueInv
        BY DEF OrdersInv, WorkInv
    <2>2. CASE Enqueue(n)
        BY <2>1, <2>2, EnqueueKeeps
    <2>3. CASE ~Enqueue(n)
        <3>1. UNCHANGED <<queue, queued, wake>>
            BY <2>3 DEF Request
        <3> QED BY <2>1, <3>1 DEF QueueInv
    <2> QED BY <2>2, <2>3
<1>2. WorkInv'
    BY <1>1 DEF OrdersInv, WorkInv
<1>3. HeldInv'
    BY DEF OrdersInv, HeldInv
<1>4. WildInv'
    BY DEF OrdersInv, WildInv
<1> QED BY <1>1, <1>2, <1>3, <1>4 DEF OrdersInv

\* The worker's waking keeps the invariant.
LEMMA WorkerWakesKeeps ==
    ASSUME OrdersInv, WorkerWakes, UNCHANGED renewer
    PROVE  OrdersInv'
<1>1. worker' = [pc |-> "scan", batch |-> worker.batch] /\ worker.batch = {}
    BY DEF WorkerWakes, OrdersInv, WorkInv
<1>2. worker'.pc = "scan" /\ worker'.batch = worker.batch
    BY <1>1
<1>3. WorkInv'
    BY <1>1, EmptyBatch DEF WorkerWakes, OrdersInv, WorkInv
<1>4. QueueInv'
    BY <1>2 DEF WorkerWakes, OrdersInv, QueueInv
<1>5. HeldInv'
    BY <1>2 DEF WorkerWakes, OrdersInv, HeldInv
<1>6. WildInv'
    BY DEF WorkerWakes, OrdersInv, WildInv
<1> QED BY <1>3, <1>4, <1>5, <1>6 DEF OrdersInv

\* Names that nobody holds and that leave the queue for the worker's batch or the
\* renewer's top-up keep the marks accounted.
LEMMA FreshNamesHeld ==
    ASSUME HeldInv, NEW new, new \cap inflight = {}, inflight' = inflight \cup new,
           UNCHANGED job,
           \/ /\ Names(worker.batch) = {} /\ Names(worker'.batch) = new
              /\ renewer'.topped = renewer.topped
           \/ /\ renewer.topped = {} /\ renewer'.topped = new
              /\ Names(worker'.batch) = Names(worker.batch)
    PROVE  HeldInv'
<1> DEFINE held == UNION {Held(job[j]) : j \in Job}
           W == Names(worker.batch)
           V == Names(worker'.batch)
<1>1. held' = held
    OBVIOUS
<1>2. /\ inflight = W \cup renewer.topped \cup held
      /\ W \cap renewer.topped = {}
      /\ \A j \in Job : Held(job[j]) \cap (W \cup renewer.topped) = {}
      /\ \A j, l \in Job : j # l => Held(job[j]) \cap Held(job[l]) = {}
    BY DEF HeldInv
<1>3. \A j \in Job : Held(job[j]) \subseteq held
    OBVIOUS
<1> HIDE DEF held, W, V
<1>4. /\ inflight' = V \cup renewer'.topped \cup held
      /\ V \cap renewer'.topped = {}
      /\ \A j \in Job : Held(job[j]) \cap (V \cup renewer'.topped) = {}
    BY <1>2, <1>3 DEF W, V
<1> QED BY <1>1, <1>2, <1>4 DEF HeldInv, held, V

\* Forming a batch keeps the invariant: the batch was issuable, so no name of it
\* was in flight, and it leaves the queue (nextBatch).
LEMMA NextBatchKeeps ==
    ASSUME OrdersInv, nextBatch, UNCHANGED renewer
    PROVE  OrdersInv'
<1> DEFINE ready == {p \in DOMAIN queue : issuable(queue[p].name)}
<1>0. /\ queue \in Seq(Requests) /\ DistinctQueue(queue)
      /\ queued = {queue[p].name : p \in DOMAIN queue}
      /\ worker.pc = "scan" /\ worker.batch = {}
    <2>1. worker.pc = "scan"
        BY DEF nextBatch
    <2> QED BY <2>1 DEF OrdersInv, WorkInv, QueueInv
<1>u. inflightIdentifiers' = inflightIdentifiers /\ wake' = wake /\ job' = job /\ prober' = prober
    BY DEF nextBatch
<1>w. WildInv'
    BY <1>u DEF OrdersInv, WildInv
<1>1. CASE ready = {}
    <2>1. queue' = <<>> /\ queued' = {} /\ worker' = Asleep /\ inflight' = inflight
        BY <1>1 DEF nextBatch
    <2>2. worker'.pc = "asleep" /\ worker'.batch = {}
        BY <2>1 DEF Asleep
    <2>3. WorkInv'
        BY <1>0, <1>u, <2>1, EmptyBatch, SMTT(60) DEF OrdersInv, WorkInv, Asleep
    <2>4. QueueInv'
        BY <2>1, SMTT(60) DEF QueueInv, DistinctQueue
    <2>5. HeldInv'
        <3>1. worker'.batch = worker.batch /\ renewer' = renewer
            BY <1>0, <2>2
        <3>2. inflight' = inflight
            BY <2>1
        <3> HIDE DEF ready
        <3> QED BY <1>u, <3>1, <3>2 DEF OrdersInv, HeldInv
    <2> QED BY <1>w, <2>3, <2>4, <2>5 DEF OrdersInv
<1>2. CASE ready # {}
    <2> DEFINE head == Min(ready)
               mates == {p \in ready \ {head} :
                           /\ owner[queue[p].name] = owner[queue[head].name]
                           /\ providerPartitionKey(queue[p].name)
                                = providerPartitionKey(queue[head].name)}
               picks == {head} \cup First(mates, BatchSize - 1)
               batch == At(picks)
               gone == At(1 .. head) \cup batch
    <2>1. /\ queue' = Without(gone) /\ queued' = queued \ Names(gone)
          /\ inflight' = inflight \cup Names(batch)
          /\ worker' = [pc |-> "spawn", batch |-> batch]
        BY <1>2 DEF nextBatch
    <2>2. head \in ready
        <3>1. ready \in SUBSET Nat
            BY <1>0, SMTT(60)
        <3>2. PICK n \in ready : \A m \in ready : n <= m
            BY <1>2, <3>1, LeastElement
        <3> HIDE DEF ready
        <3> QED BY <3>2 DEF Min
    <2>3. picks \subseteq ready
        <3>1. mates \subseteq ready
            OBVIOUS
        <3>2. First(mates, BatchSize - 1) \subseteq mates
            BY DEF First
        <3> HIDE DEF ready, head, mates
        <3> QED BY <2>2, <3>1, <3>2
    <2> HIDE DEF head, picks
    <2>4. ready \subseteq DOMAIN queue /\ \A p \in ready : queue[p].name \notin inflight
        BY DEF issuable
    <2>5. 1 .. head \subseteq DOMAIN queue
        BY <1>0, <2>2, <2>4, SMTT(60)
    <2> HIDE DEF ready
    <2>6. batch \in Batch
        BY <1>0, <2>3, <2>4, PickedBatch
    <2>7. gone \subseteq {queue[p] : p \in DOMAIN queue}
        BY <2>3, <2>4, <2>5 DEF At
    <2>8. Names(batch) \cap inflight = {}
        BY <2>3, <2>4 DEF Names, At
    <2>9. Names(batch) \subseteq Names(gone)
        BY DEF Names
    <2> HIDE DEF batch, gone
    <2>10. worker'.pc = "spawn" /\ worker'.batch = batch
        BY <2>1
    <2>11. /\ queue' \in Seq(Requests) /\ DistinctQueue(queue')
           /\ queued' = {queue'[p].name : p \in DOMAIN queue'}
        BY <1>0, <2>1, <2>7, QueueWithout, SMTT(60)
    <2>12. queued' \cap inflight' = {}
        BY <2>1, <2>9 DEF OrdersInv, QueueInv
    <2>13. QueueInv'
        BY <1>u, <2>10, <2>11, <2>12 DEF QueueInv
    <2>14. WorkInv'
        BY <1>0, <1>u, <2>1, <2>6, <2>10, <2>11 DEF OrdersInv, WorkInv
    <2>15. HeldInv'
        <3>1. Names(worker.batch) = {}
            BY <1>0 DEF Names
        <3> QED BY <1>u, <2>1, <2>8, <2>10, <3>1, FreshNamesHeld DEF OrdersInv
    <2> QED BY <1>w, <2>13, <2>14, <2>15 DEF OrdersInv
<1> QED BY <1>1, <1>2

\* The record of a job whose step and batch are set.
LEMMA JobStarted ==
    ASSUME NEW p, NEW b, NEW os, NEW od, NEW sv, NEW q, NEW c, NEW r,
           r = [[pc |-> p, batch |-> b, orders |-> os, order |-> od, survivors |-> sv]
                  EXCEPT !.pc = q, !.batch = c]
    PROVE  r = [pc |-> r.pc, batch |-> r.batch, orders |-> r.orders, order |-> r.order,
                survivors |-> r.survivors]
    OBVIOUS

\* Handing the batch to a goroutine keeps the invariant (run).
LEMMA WorkerSpawnsKeeps ==
    ASSUME OrdersInv, NEW j \in Job, WorkerSpawns(j), UNCHANGED renewer
    PROVE  OrdersInv'
<1> DEFINE nb == [IdleJob EXCEPT !.pc = "probe", !.batch = worker.batch]
<1>1. /\ job[j].pc = "idle" /\ job' = [job EXCEPT ![j] = nb]
      /\ worker' = [pc |-> "scan", batch |-> {}]
      /\ queue' = queue /\ queued' = queued /\ inflight' = inflight
      /\ inflightIdentifiers' = inflightIdentifiers /\ wake' = wake /\ prober' = prober
    BY DEF WorkerSpawns
<1>3. /\ nb.pc = "probe" /\ nb.batch = worker.batch /\ nb.orders = {}
      /\ nb.order = NoOrder /\ nb.survivors = {}
    BY DEF IdleJob
<1>4. nb = [pc |-> nb.pc, batch |-> nb.batch, orders |-> nb.orders, order |-> nb.order,
            survivors |-> nb.survivors]
    <2>1. nb = [[pc |-> "idle", batch |-> {}, orders |-> {}, order |-> NoOrder, survivors |-> {}]
                  EXCEPT !.pc = "probe", !.batch = worker.batch]
        BY DEF IdleJob
    <2> HIDE DEF nb
    <2> QED BY <2>1, JobStarted
<1> HIDE DEF nb
<1>5. /\ job' = [l \in Job |-> job'[l]] /\ job'[j] = nb
      /\ \A l \in Job \ {j} : job'[l] = job[l]
    BY <1>1, OneJob DEF OrdersInv, WorkInv
<1>6. JobShape(nb)
    <2>1. OrderShape(NoOrder)
        BY EmptyBatch DEF OrderShape, NoOrder
    <2>2. worker.batch \in Batch
        BY DEF OrdersInv, WorkInv
    <2> QED BY <1>3, <1>4, <2>1, <2>2, EmptyBatch DEF JobShape, Ordering
<1>7. /\ Held(job[j]) = {} /\ Held(nb) = Names(worker.batch)
      /\ OrdersOf(job[j]) = {} /\ OrdersOf(nb) = {}
    <2>1. job[j].orders = {}
        BY <1>1 DEF OrdersInv, WorkInv, JobShape, Ordering
    <2> QED BY <1>1, <1>3, <2>1 DEF Held, OrdersOf, Ordering
<1>8. WorkInv'
    BY <1>1, <1>5, <1>6, EmptyBatch DEF OrdersInv, WorkInv
<1>9. QueueInv'
    BY <1>1 DEF OrdersInv, QueueInv
<1>10. HeldInv'
    <2> DEFINE H == [l \in Job |-> Held(job[l])]
               N == [l \in Job |-> Held(job'[l])]
               W == Names(worker.batch)
    <2>1. H[j] = {} /\ N[j] = W /\ \A l \in Job \ {j} : N[l] = H[l]
        BY <1>5, <1>7
    <2>2. /\ inflight = W \cup renewer.topped \cup UNION {H[l] : l \in Job}
          /\ W \cap renewer.topped = {}
          /\ \A l \in Job : H[l] \cap (W \cup renewer.topped) = {}
          /\ \A l, m \in Job : l # m => H[l] \cap H[m] = {}
        BY DEF OrdersInv, HeldInv
    <2>3. Names(worker'.batch) = {}
        BY <1>1 DEF Names
    <2> HIDE DEF H, N, W
    <2>4. \A l \in Job : N[l] \subseteq W \cup H[l] /\ H[l] \subseteq N[l]
        BY <2>1
    <2>5. W \cup UNION {H[l] : l \in Job} = UNION {N[l] : l \in Job}
        BY <2>1, <2>4
    <2>6. /\ inflight' = Names(worker'.batch) \cup renewer'.topped \cup UNION {N[l] : l \in Job}
          /\ Names(worker'.batch) \cap renewer'.topped = {}
        BY <1>1, <2>2, <2>3, <2>5
    <2>7. \A l \in Job : N[l] \cap (Names(worker'.batch) \cup renewer'.topped) = {}
        BY <2>2, <2>3, <2>4
    <2>8. ASSUME NEW l \in Job, NEW m \in Job, l # m PROVE N[l] \cap N[m] = {}
        <3>1. CASE l = j
            BY <2>1, <2>2, <2>8, <3>1
        <3>2. CASE m = j
            BY <2>1, <2>2, <2>8, <3>2
        <3>3. CASE l # j /\ m # j
            BY <2>1, <2>2, <2>8, <3>3
        <3> QED BY <3>1, <3>2, <3>3
    <2> QED BY <2>6, <2>7, <2>8 DEF HeldInv, N
<1>11. WildInv'
    <2>1. \A l \in Job : WildsOf(job'[l]) = WildsOf(job[l])
        BY <1>5, <1>7 DEF WildsOf
    <2> QED BY <1>1, <2>1, SMTT(60) DEF OrdersInv, WildInv
<1> QED BY <1>8, <1>9, <1>10, <1>11 DEF OrdersInv

\* The wildcards of a job's fresh plan were nobody's.
LEMMA JobTakesWilds ==
    ASSUME WildInv, NEW j \in Job, NEW new, \A l \in Job \ {j} : job'[l] = job[l],
           WildsOf(job[j]) = {}, WildsOf(job'[j]) = {i \in new : IsWild(i)},
           \A i \in new : IsWild(i) => i \notin inflightIdentifiers,
           inflightIdentifiers' = inflightIdentifiers \cup new
    PROVE  WildInv'
<1> DEFINE H == [l \in Job |-> WildsOf(job[l])]
           N == [l \in Job |-> WildsOf(job'[l])]
           marked == {i \in inflightIdentifiers : IsWild(i)}
           added == {i \in new : IsWild(i)}
<1>1. H[j] = {} /\ N[j] = added /\ \A l \in Job \ {j} : N[l] = H[l]
    OBVIOUS
<1>2. /\ marked = UNION {H[l] : l \in Job}
      /\ \A l, m \in Job : l # m => H[l] \cap H[m] = {}
    BY SMTT(60) DEF WildInv
<1>3. {i \in inflightIdentifiers' : IsWild(i)} = marked \cup added /\ marked \cap added = {}
    OBVIOUS
<1> HIDE DEF H, N, marked, added
<1>4. \A l \in Job : N[l] \subseteq added \cup H[l] /\ H[l] \subseteq N[l] /\ H[l] \cap added = {}
    BY <1>1, <1>2, <1>3, SMTT(60)
<1>5. marked \cup added = UNION {N[l] : l \in Job}
    BY <1>1, <1>2, <1>4, SMTT(60)
<1>6. ASSUME NEW l \in Job, NEW m \in Job, l # m PROVE N[l] \cap N[m] = {}
    <2>1. CASE l = j
        BY <1>1, <1>4, <1>6, <2>1
    <2>2. CASE m = j
        BY <1>1, <1>4, <1>6, <2>2
    <2>3. CASE l # j /\ m # j
        BY <1>1, <1>2, <1>6, <2>3
    <2> QED BY <2>1, <2>2, <2>3
<1>7. {i \in inflightIdentifiers' : IsWild(i)} = UNION {N[l] : l \in Job}
    BY <1>3, <1>5
<1>8. \A l \in Job : N[l] = WildsOf(job'[l])
    BY DEF N
<1> QED BY <1>6, <1>7, <1>8, SMTT(60) DEF WildInv

\* The record of a job whose batch and orders are set.
LEMMA JobPlanned ==
    ASSUME NEW jb, NEW b, NEW os, NEW r,
           jb = [pc |-> jb.pc, batch |-> jb.batch, orders |-> jb.orders, order |-> jb.order,
                 survivors |-> jb.survivors],
           r = [jb EXCEPT !.batch = b, !.orders = os]
    PROVE  /\ r = [pc |-> r.pc, batch |-> r.batch, orders |-> r.orders, order |-> r.order,
                   survivors |-> r.survivors]
           /\ r.batch = b /\ r.orders = os
<1>1. PICK p, c, qs, od, sv :
            jb = [pc |-> p, batch |-> c, orders |-> qs, order |-> od, survivors |-> sv]
    OBVIOUS
<1>2. r = [[pc |-> p, batch |-> c, orders |-> qs, order |-> od, survivors |-> sv]
             EXCEPT !.batch = b, !.orders = os]
    BY <1>1
<1>3. r.batch = b /\ r.orders = os
    BY <1>2
<1>4. r = [pc |-> r.pc, batch |-> r.batch, orders |-> r.orders, order |-> r.order,
           survivors |-> r.survivors]
    BY <1>2
<1> QED BY <1>3, <1>4

\* Planning a batch keeps the invariant: what is left out of the plan is released,
\* what is planned is held by one order (issue).
LEMMA IssueKeeps ==
    ASSUME OrdersInv, NEW j \in Job, issue(j), UNCHANGED renewer
    PROVE  OrdersInv'
<1> DEFINE jb == job[j]
           failing == {r \in jb.batch : ~HasCertificate(r.name) /\ r.name \notin routes}
           requests == jb.batch \ failing
           identifierOf == [n \in Names(requests) |->
                              IF [name |-> n, retried |-> TRUE] \in requests THEN n
                              ELSE planDynamicIdentifier(n)]
           ids == Range(identifierOf)
           orders == planOrders(ids, requests, identifierOf)
           kept == UNION {o.requests : o \in orders}
           planned == [jb EXCEPT !.batch = kept, !.orders = orders]
           nb == NextOrder(planned)
<1>1. /\ jb.pc = "probe"
      /\ inflightIdentifiers' = inflightIdentifiers \cup UNION {o.ids : o \in orders}
      /\ inflight' = inflight \ Names(jb.batch \ kept)
      /\ job' = [job EXCEPT ![j] = nb]
      /\ queue' = queue /\ queued' = queued /\ wake' = wake /\ worker' = worker
      /\ prober' = prober
    BY DEF issue
<1>2. JobShape(jb) /\ job = [l \in Job |-> job[l]]
    BY DEF OrdersInv, WorkInv
<1>3. requests \subseteq jb.batch /\ requests \in Batch
    <2>1. requests \subseteq jb.batch
        OBVIOUS
    <2> HIDE DEF requests
    <2> QED BY <1>2, <2>1, BatchPart DEF JobShape
<1> HIDE DEF requests, identifierOf, ids
<1>4. /\ \A o \in orders : /\ OrderShape(o)
                           /\ o.requests \subseteq requests
                           /\ \A i \in o.ids : IsWild(i) => i \notin inflightIdentifiers
      /\ \A o, p \in orders : o # p => Apart(o, p)
    BY <1>3, PlanApart
<1> HIDE DEF orders
<1>5. kept \subseteq jb.batch /\ kept \in Batch
    <2>1. kept \subseteq jb.batch
        BY <1>3, <1>4
    <2> HIDE DEF kept
    <2> QED BY <1>2, <2>1, BatchPart DEF JobShape
<1>6. /\ planned = [pc |-> planned.pc, batch |-> planned.batch, orders |-> planned.orders,
                    order |-> planned.order, survivors |-> planned.survivors]
      /\ planned.batch = kept /\ planned.orders = orders
    <2> HIDE DEF kept
    <2>1. jb = [pc |-> jb.pc, batch |-> jb.batch, orders |-> jb.orders, order |-> jb.order,
                survivors |-> jb.survivors]
        BY <1>2 DEF JobShape
    <2>2. planned = [jb EXCEPT !.batch = kept, !.orders = orders]
        OBVIOUS
    <2> HIDE DEF planned, jb
    <2> QED BY <2>1, <2>2, JobPlanned
<1> HIDE DEF planned
<1>7. /\ JobShape(nb) /\ Held(nb) = Names(kept)
      /\ UNION {o.ids : o \in OrdersOf(nb)} = UNION {o.ids : o \in orders}
    <2>1. /\ JobShape(nb)
          /\ Held(nb) = Names(UNION {o.requests : o \in planned.orders})
          /\ UNION {o.ids : o \in OrdersOf(nb)} = UNION {o.ids : o \in planned.orders}
        BY <1>4, <1>5, <1>6, NextOrderShape
    <2> QED BY <1>6, <2>1
<1> HIDE DEF nb
<1>8. /\ job' = [l \in Job |-> job'[l]] /\ job'[j] = nb
      /\ \A l \in Job \ {j} : job'[l] = job[l]
    BY <1>1, <1>2, OneJob
<1> HIDE DEF kept
<1>9. WorkInv'
    BY <1>1, <1>7, <1>8 DEF OrdersInv, WorkInv
<1>10. QueueInv'
    BY <1>1 DEF OrdersInv, QueueInv
<1>11. HeldInv'
    <2>1. Held(jb) = Names(kept) \cup Names(jb.batch \ kept)
        BY <1>1, <1>5 DEF Held, Names
    <2>2. Names(kept) \cap Names(jb.batch \ kept) = {}
        BY <1>2, <1>5, SMTT(60) DEF JobShape, Batch, Distinct, Names
    <2> DEFINE gone == Names(jb.batch \ kept)
    <2>3. /\ Held(job[j]) = Held(job'[j]) \cup gone /\ Held(job'[j]) \cap gone = {}
          /\ inflight' = inflight \ gone
        BY <1>1, <1>7, <1>8, <2>1, <2>2
    <2> HIDE DEF gone
    <2> QED BY <1>1, <1>8, <2>3, JobLetsGo DEF OrdersInv
<1>12. WildInv'
    <2>1. WildsOf(jb) = {}
        BY <1>1, <1>2 DEF WildsOf, OrdersOf, JobShape, Ordering
    <2>2. WildsOf(job'[j]) = {i \in UNION {o.ids : o \in orders} : IsWild(i)}
        BY <1>7, <1>8 DEF WildsOf
    <2>3. \A i \in UNION {o.ids : o \in orders} : IsWild(i) => i \notin inflightIdentifiers
        BY <1>4
    <2> DEFINE new == UNION {o.ids : o \in orders}
    <2>4. /\ WildsOf(job'[j]) = {i \in new : IsWild(i)}
          /\ \A i \in new : IsWild(i) => i \notin inflightIdentifiers
          /\ inflightIdentifiers' = inflightIdentifiers \cup new
        BY <1>1, <2>2, <2>3
    <2> HIDE DEF new
    <2> QED BY <1>8, <2>1, <2>4, JobTakesWilds DEF OrdersInv
<1> QED BY <1>9, <1>10, <1>11, <1>12 DEF OrdersInv

\* A job whose order is answered still has to settle the same requests, and holds
\* the same wildcards.
LEMMA AnsweredShape ==
    ASSUME NEW jb, JobShape(jb), jb.pc = "placed",
           NEW sv \in Batch, Names(sv) \subseteq Names(jb.order.requests),
           NEW nb, nb = [pc |-> "answered", batch |-> jb.batch, orders |-> jb.orders,
                         order |-> jb.order, survivors |-> sv]
    PROVE  JobShape(nb) /\ Held(nb) = Held(jb) /\ WildsOf(nb) = WildsOf(jb)
<1>1. /\ nb.pc = "answered" /\ nb.batch = jb.batch /\ nb.orders = jb.orders
      /\ nb.order = jb.order /\ nb.survivors = sv
      /\ nb = [pc |-> nb.pc, batch |-> nb.batch, orders |-> nb.orders, order |-> nb.order,
               survivors |-> nb.survivors]
    OBVIOUS
<1>2. JobShape(nb)
    BY <1>1 DEF JobShape, Ordering
<1>3. Held(nb) = Held(jb)
    BY <1>1 DEF Held
<1>4. OrdersOf(nb) = OrdersOf(jb)
    BY <1>1 DEF OrdersOf, Ordering
<1> QED BY <1>2, <1>3, <1>4 DEF WildsOf

\* A step that only settles how a job's order went keeps the invariant.
LEMMA AnswerKeeps ==
    ASSUME OrdersInv, NEW j \in Job, job[j].pc = "placed",
           NEW sv \in Batch, Names(sv) \subseteq Names(job[j].order.requests),
           job' = [l \in Job |-> job'[l]], \A l \in Job \ {j} : job'[l] = job[l],
           job'[j] = [pc |-> "answered", batch |-> job[j].batch, orders |-> job[j].orders,
                      order |-> job[j].order, survivors |-> sv],
           queue' = queue, queued' = queued, inflight' = inflight,
           inflightIdentifiers' = inflightIdentifiers, wake' = wake, worker' = worker,
           prober' = prober, renewer' = renewer
    PROVE  OrdersInv'
<1>1. JobShape(job[j])
    BY DEF OrdersInv, WorkInv
<1>2. /\ JobShape(job'[j]) /\ Held(job'[j]) = Held(job[j])
      /\ WildsOf(job'[j]) = WildsOf(job[j])
    BY <1>1, AnsweredShape
<1>4. \A l \in Job : /\ JobShape(job'[l]) /\ Held(job'[l]) = Held(job[l])
                     /\ WildsOf(job'[l]) = WildsOf(job[l])
    BY <1>2 DEF OrdersInv, WorkInv
<1>5. WorkInv'
    BY <1>4 DEF OrdersInv, WorkInv
<1>6. QueueInv'
    BY DEF OrdersInv, QueueInv
<1>7. HeldInv'
    BY <1>4, SMTT(60) DEF OrdersInv, HeldInv
<1>8. WildInv'
    BY <1>4, SMTT(60) DEF OrdersInv, WildInv
<1> QED BY <1>5, <1>6, <1>7, <1>8 DEF OrdersInv

\* The record of a job whose step, or step and survivors, are set.
LEMMA JobAnswered ==
    ASSUME NEW J, NEW j \in Job, J = [l \in Job |-> J[l]], NEW sv,
           J[j] = [pc |-> J[j].pc, batch |-> J[j].batch, orders |-> J[j].orders,
                   order |-> J[j].order, survivors |-> J[j].survivors],
           NEW q, NEW K,
           \/ K = [J EXCEPT ![j].pc = q] /\ sv = J[j].survivors
           \/ K = [J EXCEPT ![j].pc = q, ![j].survivors = sv]
    PROVE  /\ K = [l \in Job |-> K[l]] /\ \A l \in Job \ {j} : K[l] = J[l]
           /\ K[j] = [pc |-> q, batch |-> J[j].batch, orders |-> J[j].orders,
                      order |-> J[j].order, survivors |-> sv]
<1>1. PICK p, c, qs, od, so :
            J[j] = [pc |-> p, batch |-> c, orders |-> qs, order |-> od, survivors |-> so]
    OBVIOUS
<1>2. J[j].batch = c /\ J[j].orders = qs /\ J[j].order = od /\ J[j].survivors = so
    BY <1>1, SMTT(60)
<1> DEFINE r == [pc |-> p, batch |-> c, orders |-> qs, order |-> od, survivors |-> so]
           r1 == [r EXCEPT !.pc = q]
           r2 == [r1 EXCEPT !.survivors = sv]
<1>3. r1 = [pc |-> q, batch |-> c, orders |-> qs, order |-> od, survivors |-> so]
    BY SMTT(60)
<1>4. r2 = [pc |-> q, batch |-> c, orders |-> qs, order |-> od, survivors |-> sv]
    <2> HIDE DEF r1
    <2> QED BY <1>3, SMTT(60)
<1>5. CASE K = [J EXCEPT ![j].pc = q] /\ sv = J[j].survivors
    <2>1. K = [l \in Job |-> K[l]] /\ \A l \in Job \ {j} : K[l] = J[l]
        BY <1>5
    <2>2. K[j] = [J[j] EXCEPT !.pc = q]
        BY <1>5
    <2>3. K[j] = r1
        BY <1>1, <2>2
    <2> HIDE DEF r1
    <2>4. sv = so
        BY <1>2, <1>5
    <2> QED BY <1>2, <1>3, <2>1, <2>3, <2>4
<1>6. CASE K = [J EXCEPT ![j].pc = q, ![j].survivors = sv]
    <2> DEFINE M == [J EXCEPT ![j].pc = q]
    <2>1. M = [l \in Job |-> M[l]] /\ \A l \in Job \ {j} : M[l] = J[l]
        OBVIOUS
    <2>2. M[j] = [J[j] EXCEPT !.pc = q]
        OBVIOUS
    <2>3. M[j] = r1
        BY <1>1, <2>2
    <2>4. K = [M EXCEPT ![j].survivors = sv]
        BY <1>6
    <2> HIDE DEF M, r1
    <2>5. K = [l \in Job |-> K[l]] /\ \A l \in Job \ {j} : K[l] = J[l]
        <3> DEFINE x == [M[j] EXCEPT !.survivors = sv]
        <3>1. K = [M EXCEPT ![j] = x]
            BY <2>1, <2>4
        <3> HIDE DEF x
        <3>2. K = [l \in Job |-> K[l]]
            <4>1. DOMAIN M = Job
                BY <2>1
            <4>2. K = [l \in Job |-> IF l = j THEN x ELSE M[l]]
                BY <2>1, <3>1, <4>1
            <4> QED BY <4>2
        <3>3. \A l \in Job \ {j} : K[l] = M[l]
            BY <2>1, <3>1
        <3> QED BY <2>1, <3>2, <3>3
    <2>6. K[j] = [M[j] EXCEPT !.survivors = sv]
        BY <2>1, <2>4
    <2>7. K[j] = r2
        BY <2>3, <2>6
    <2> HIDE DEF r2
    <2> QED BY <1>2, <1>4, <2>5, <2>7
<1> QED BY <1>5, <1>6

\* The requests of an order that get a second chance are a batch of its names.
LEMMA SparedBatch ==
    ASSUME NEW o, OrderShape(o), NEW failed
    PROVE  LET spared == Spared(o, failed)
               again == {[name |-> r.name, retried |-> TRUE] :
                            r \in spared \ {r \in spared : r.retried}}
           IN  /\ spared \in Batch /\ Names(spared) \subseteq Names(o.requests)
               /\ again \in Batch /\ Names(again) \subseteq Names(o.requests)
<1> DEFINE spared == Spared(o, failed)
           fresh == spared \ {r \in spared : r.retried}
           Retried == [r \in fresh |-> [name |-> r.name, retried |-> TRUE]]
           again == {[name |-> r.name, retried |-> TRUE] : r \in fresh}
<1>1. spared \subseteq o.requests
    BY DEF Spared
<1> HIDE DEF spared
<1>2. o.requests \in Batch
    BY DEF OrderShape
<1>3. spared \in Batch /\ fresh \in Batch /\ fresh \subseteq o.requests
    <2>1. fresh \subseteq o.requests
        BY <1>1
    <2> HIDE DEF fresh
    <2> QED BY <1>1, <1>2, <2>1, BatchPart
<1> HIDE DEF fresh
<1>4. IsFiniteSet(again)
    <2>1. Retried \in [fresh -> again] /\ \A a \in again : \E r \in fresh : Retried[r] = a
        OBVIOUS
    <2>2. IsFiniteSet(fresh)
        BY <1>3 DEF Batch
    <2> HIDE DEF Retried, again
    <2>3. Retried \in Surjection(fresh, again)
        BY <2>1 DEF Surjection
    <2> QED BY <2>2, <2>3, FS_Surjection
<1>5. again \subseteq Requests /\ Distinct(again) /\ Names(again) \subseteq Names(o.requests)
    <2>1. \A a \in again : \E r \in fresh : a = [name |-> r.name, retried |-> TRUE]
        OBVIOUS
    <2>2. \A r \in fresh : r \in o.requests /\ r.name \in Name
        BY <1>2, <1>3 DEF Batch, Requests
    <2> HIDE DEF again
    <2>3. \A a \in again : a \in Requests /\ a.retried = TRUE /\ \E r \in fresh : a.name = r.name
        <3> TAKE a \in again
        <3>1. PICK r \in fresh : a = [name |-> r.name, retried |-> TRUE]
            BY <2>1
        <3>2. a.name = r.name /\ a.retried = TRUE
            BY <3>1
        <3>3. a \in [name : Name, retried : BOOLEAN]
            BY <2>2, <3>1
        <3> QED BY <3>2, <3>3 DEF Requests
    <2>4. ASSUME NEW a \in again, NEW b \in again, a.name = b.name PROVE a = b
        <3>1. PICK r \in fresh : a = [name |-> r.name, retried |-> TRUE]
            BY <2>1
        <3>2. PICK t \in fresh : b = [name |-> t.name, retried |-> TRUE]
            BY <2>1
        <3>3. a.name = r.name /\ b.name = t.name
            BY <3>1, <3>2
        <3> QED BY <2>4, <3>1, <3>2, <3>3
    <2> QED BY <2>2, <2>3, <2>4, SMTT(60) DEF Distinct, Names
<1>6. Names(spared) \subseteq Names(o.requests)
    BY <1>1 DEF Names
<1>7. again \in Batch
    BY <1>4, <1>5 DEF Batch
<1> QED BY <1>3, <1>5, <1>6, <1>7 DEF fresh, spared

\* However an order is answered, the step keeps the invariant (issueOrder,
\* handleObtainFailure, handleRateLimited).
LEMMA OrderAnsweredKeeps ==
    ASSUME OrdersInv, NEW j \in Job, OrderAnswered(j), UNCHANGED renewer
    PROVE  OrdersInv'
<1> DEFINE o == job[j].order
           nosv == job[j].survivors
<1>1. /\ job[j].pc = "placed"
      /\ queue' = queue /\ queued' = queued /\ inflight' = inflight
      /\ inflightIdentifiers' = inflightIdentifiers /\ wake' = wake /\ worker' = worker
      /\ prober' = prober
    BY DEF OrderAnswered
<1>2. JobShape(job[j]) /\ job = [l \in Job |-> job[l]]
    BY DEF OrdersInv, WorkInv
<1>3. OrderShape(o) /\ nosv \in Batch /\ Names(nosv) \subseteq Names(o.requests)
    BY <1>2 DEF JobShape
<1>4. \E sv \in Batch :
         /\ Names(sv) \subseteq Names(o.requests)
         /\ \/ job' = [job EXCEPT ![j].pc = "answered"] /\ sv = job[j].survivors
            \/ job' = [job EXCEPT ![j].pc = "answered", ![j].survivors = sv]
    <2>1. PICK answer \in Outcome(o.ids) :
            \/ job' = [job EXCEPT ![j].pc = "answered"]
            \/ OrderFailed(j, answer) \/ OrderLimited(j, answer)
        BY DEF OrderAnswered
    <2>2. CASE job' = [job EXCEPT ![j].pc = "answered"]
        BY <1>3, <2>2
    <2>3. CASE OrderFailed(j, answer)
        <3> DEFINE failed == identifyFailedDomains(answer.named, o.ids, Name)
                   spared == Spared(o, failed)
                   again == {[name |-> r.name, retried |-> TRUE] :
                                r \in spared \ {r \in spared : r.retried}}
        <3>1. job' = [job EXCEPT ![j].pc = "answered", ![j].survivors = again]
            BY <2>3 DEF OrderFailed
        <3> HIDE DEF failed
        <3>2. again \in Batch /\ Names(again) \subseteq Names(o.requests)
            BY <1>3, SparedBatch
        <3> HIDE DEF again, spared
        <3> QED BY <3>1, <3>2
    <2>4. CASE OrderLimited(j, answer)
        <3>1. CASE answer.named = {}
            <4>1. job' = [job EXCEPT ![j].pc = "answered"]
                BY <2>4, <3>1 DEF OrderLimited
            <4> QED BY <1>3, <4>1
        <3>2. CASE answer.named # {}
            <4> DEFINE spared == Spared(o, answer.named)
            <4>1. job' = [job EXCEPT ![j].pc = "answered", ![j].survivors = spared]
                BY <2>4, <3>2 DEF OrderLimited
            <4>2. spared \in Batch /\ Names(spared) \subseteq Names(o.requests)
                BY <1>3, SparedBatch
            <4> HIDE DEF spared
            <4> QED BY <4>1, <4>2
        <3> QED BY <3>1, <3>2
    <2> QED BY <2>1, <2>2, <2>3, <2>4
<1>5. PICK sv \in Batch :
         /\ Names(sv) \subseteq Names(o.requests)
         /\ \/ job' = [job EXCEPT ![j].pc = "answered"] /\ sv = job[j].survivors
            \/ job' = [job EXCEPT ![j].pc = "answered", ![j].survivors = sv]
    BY <1>4
<1>6. /\ job' = [l \in Job |-> job'[l]] /\ \A l \in Job \ {j} : job'[l] = job[l]
      /\ job'[j] = [pc |-> "answered", batch |-> job[j].batch, orders |-> job[j].orders,
                    order |-> job[j].order, survivors |-> sv]
    <2>1. job[j] = [pc |-> job[j].pc, batch |-> job[j].batch, orders |-> job[j].orders,
                    order |-> job[j].order, survivors |-> job[j].survivors]
        BY <1>2 DEF JobShape
    <2>2. CASE job' = [job EXCEPT ![j].pc = "answered"] /\ sv = job[j].survivors
        BY <1>2, <2>1, <2>2, JobAnswered
    <2>3. CASE job' = [job EXCEPT ![j].pc = "answered", ![j].survivors = sv]
        BY <1>2, <2>1, <2>3, JobAnswered
    <2> QED BY <1>5, <2>2, <2>3
<1> QED BY <1>1, <1>5, <1>6, AnswerKeeps

\* The requests of one queue behind those of another.
LEMMA Concatenated ==
    ASSUME NEW q \in Seq(Requests), NEW t \in Seq(Requests)
    PROVE  /\ q \o t \in Seq(Requests) /\ DOMAIN (q \o t) = 1 .. Len(q) + Len(t)
           /\ \A p \in 1 .. Len(q) : (q \o t)[p] = q[p]
           /\ \A p \in 1 .. Len(t) : (q \o t)[Len(q) + p] = t[p]
           /\ Len(t) = 0 => q \o t = q
<1>1. Len(q \o t) = Len(q) + Len(t)
    BY SMTT(60)
<1>2. q \o t \in Seq(Requests)
    BY SMTT(60)
<1>3. DOMAIN (q \o t) = 1 .. Len(q) + Len(t)
    BY <1>1, <1>2, SMTT(60)
<1>4. \A p \in 1 .. Len(q) : (q \o t)[p] = q[p]
    BY SMTT(60)
<1>5. \A p \in 1 .. Len(t) : (q \o t)[Len(q) + p] = t[p]
    BY SMTT(60)
<1>6. ASSUME Len(t) = 0 PROVE q \o t = q
    <2>1. \A p \in 1 .. Len(q) : (q \o t)[p] = q[p]
        BY <1>4
    <2>2. Len(q \o t) = Len(q)
        BY <1>1, <1>6, SMTT(60)
    <2> QED BY <1>2, <2>1, <2>2, SMTT(60)
<1> QED BY <1>2, <1>3, <1>4, <1>5, <1>6

\* Q is c requests t behind n requests q, all with different names.
Behind(n, c, q, t, Q) ==
    /\ n \in Nat /\ c \in Nat
    /\ \A p \in 1 .. n : Q[p] = q[p]
    /\ \A p \in 1 .. c : Q[n + p] = t[p]
    /\ \A p1, p2 \in 1 .. n : q[p1].name = q[p2].name => p1 = p2
    /\ \A p1, p2 \in 1 .. c : t[p1].name = t[p2].name => p1 = p2
    /\ \A p1 \in 1 .. n, p2 \in 1 .. c : q[p1].name # t[p2].name

\* Q has the names of q and of t, each once.
Merged(n, c, q, t, Q) ==
    /\ \A p1, p2 \in 1 .. n + c : Q[p1].name = Q[p2].name => p1 = p2
    /\ \A p \in 1 .. n + c : \/ \E m \in 1 .. n : Q[p].name = q[m].name
                            \/ \E m \in 1 .. c : Q[p].name = t[m].name
    /\ \A m \in 1 .. n : \E p \in 1 .. n + c : q[m].name = Q[p].name
    /\ \A m \in 1 .. c : \E p \in 1 .. n + c : t[m].name = Q[p].name

\* Requests with new and distinct names behind a sound queue make a sound queue.
LEMMA NamesBehind ==
    ASSUME NEW n, NEW c, NEW q, NEW t, NEW Q, Behind(n, c, q, t, Q)
    PROVE  Merged(n, c, q, t, Q)
<1> USE DEF Behind
<1>1. ASSUME NEW p \in 1 .. n + c
      PROVE  (p \in 1 .. n /\ Q[p] = q[p]) \/ (\E m \in 1 .. c : p = n + m /\ Q[p] = t[m])
    <2>1. CASE p <= n
        BY <2>1, SMTT(60)
    <2>2. CASE ~(p <= n)
        <3>1. p - n \in 1 .. c /\ p = n + (p - n)
            BY <2>2, SMTT(60)
        <3> QED BY <3>1, SMTT(60)
    <2> QED BY <2>1, <2>2
<1>2. ASSUME NEW p1 \in 1 .. n + c, NEW p2 \in 1 .. n + c, Q[p1].name = Q[p2].name
      PROVE  p1 = p2
    BY <1>1, <1>2, SMTT(60)
<1>3. \A p \in 1 .. n : p \in 1 .. n + c
    BY SMTT(60)
<1>4. \A p \in 1 .. c : n + p \in 1 .. n + c
    BY SMTT(60)
<1>5. \A p \in 1 .. n + c : \/ \E m \in 1 .. n : Q[p].name = q[m].name
                            \/ \E m \in 1 .. c : Q[p].name = t[m].name
    BY <1>1
<1>6. /\ \A m \in 1 .. n : \E p \in 1 .. n + c : q[m].name = Q[p].name
      /\ \A m \in 1 .. c : \E p \in 1 .. n + c : t[m].name = Q[p].name
    BY <1>3, <1>4
<1> QED BY <1>2, <1>5, <1>6 DEF Merged

\* A sequence that lists a batch lists each of its requests once.
LEMMA BatchListed ==
    ASSUME NEW again \in Batch, NEW tail \in [1 .. Cardinality(again) -> again],
           IsInjective(tail)
    PROVE  /\ tail \in Seq(Requests) /\ Len(tail) = Cardinality(again)
           /\ Names(again) = {tail[p].name : p \in 1 .. Cardinality(again)}
           /\ \A p1, p2 \in 1 .. Cardinality(again) : tail[p1].name = tail[p2].name => p1 = p2
<1> DEFINE c == Cardinality(again)
<1>1. IsFiniteSet(again) /\ c \in Nat
    BY FS_CardinalityType DEF Batch
<1>2. again \subseteq Requests /\ Distinct(again)
    BY DEF Batch
<1>3. tail \in Surjection(1 .. c, again)
    <2>1. tail \in Injection(1 .. c, again)
        BY DEF Injection
    <2>2. Cardinality(1 .. c) = c
        BY <1>1, FS_Interval, SMTT(60)
    <2> QED BY <1>1, <2>1, <2>2, FS_Injection
<1>4. \A r \in again : \E p \in 1 .. c : tail[p] = r
    BY <1>3 DEF Surjection
<1>5. \A p1, p2 \in 1 .. c : tail[p1].name = tail[p2].name => p1 = p2
    BY <1>2 DEF Distinct, IsInjective
<1> HIDE DEF c
<1>6. tail \in [1 .. c -> again]
    BY DEF c
<1>7. tail \in Seq(Requests) /\ Len(tail) = c
    <2>1. tail \in [1 .. c -> Requests]
        BY <1>2, <1>6
    <2> QED BY <1>1, <2>1, SMTT(60)
<1>8. Names(again) = {tail[p].name : p \in 1 .. c}
    <2>1. \A p \in 1 .. c : tail[p] \in again
        BY <1>6
    <2> QED BY <1>4, <2>1 DEF Names
<1> QED BY <1>5, <1>7, <1>8 DEF c

QueueNames(q) == {q[p].name : p \in DOMAIN q}

\* Requests of a batch that are not queued can be put at the back of the queue.
LEMMA QueueGrows ==
    ASSUME queue \in Seq(Requests), DistinctQueue(queue),
           queued = {queue[p].name : p \in DOMAIN queue},
           NEW again \in Batch, Names(again) \cap queued = {},
           NEW tail \in [1 .. Cardinality(again) -> again], IsInjective(tail),
           NEW Q, Q = queue \o tail
    PROVE  /\ Q \in Seq(Requests) /\ DistinctQueue(Q)
           /\ queued \cup Names(again) = QueueNames(Q)
           /\ again = {} => Q = queue
<1> DEFINE c == Cardinality(again)
           n == Len(queue)
<1>1. /\ tail \in Seq(Requests) /\ Len(tail) = c
      /\ Names(again) = {tail[p].name : p \in 1 .. c}
      /\ \A p1, p2 \in 1 .. c : tail[p1].name = tail[p2].name => p1 = p2
    BY BatchListed
<1>2. c \in Nat /\ n \in Nat /\ DOMAIN queue = 1 .. n /\ (again = {} => c = 0)
    BY <1>1, FS_EmptySet, SMTT(60)
<1> HIDE DEF c
<1>3. /\ Q \in Seq(Requests) /\ DOMAIN Q = 1 .. n + c
      /\ \A p \in 1 .. n : Q[p] = queue[p]
      /\ \A p \in 1 .. c : Q[n + p] = tail[p]
      /\ c = 0 => Q = queue
    <2>1. /\ queue \o tail \in Seq(Requests) /\ DOMAIN (queue \o tail) = 1 .. n + Len(tail)
          /\ \A p \in 1 .. n : (queue \o tail)[p] = queue[p]
          /\ \A p \in 1 .. Len(tail) : (queue \o tail)[n + p] = tail[p]
          /\ Len(tail) = 0 => queue \o tail = queue
        BY <1>1, Concatenated
    <2> QED BY <1>1, <2>1
<1> HIDE DEF n
<1>4. \A p1, p2 \in 1 .. n : queue[p1].name = queue[p2].name => p1 = p2
    BY <1>2 DEF DistinctQueue
<1>5. ASSUME NEW p1 \in 1 .. n, NEW p2 \in 1 .. c PROVE queue[p1].name # tail[p2].name
    <2>1. queue[p1].name \in queued
        BY <1>2
    <2>2. tail[p2].name \in Names(again)
        BY <1>1
    <2> QED BY <2>1, <2>2
<1>6. /\ \A p1, p2 \in 1 .. n + c : Q[p1].name = Q[p2].name => p1 = p2
      /\ \A p \in 1 .. n + c : \/ \E m \in 1 .. n : Q[p].name = queue[m].name
                              \/ \E m \in 1 .. c : Q[p].name = tail[m].name
      /\ \A m \in 1 .. n : \E p \in 1 .. n + c : queue[m].name = Q[p].name
      /\ \A m \in 1 .. c : \E p \in 1 .. n + c : tail[m].name = Q[p].name
    <2>1. Behind(n, c, queue, tail, Q)
        BY <1>1, <1>2, <1>3, <1>4, <1>5 DEF Behind
    <2>2. Merged(n, c, queue, tail, Q)
        BY <2>1, NamesBehind
    <2> QED BY <2>2 DEF Merged
<1>7. DistinctQueue(Q)
    BY <1>3, <1>6 DEF DistinctQueue
<1>8. queued \cup Names(again) = QueueNames(Q)
    <2> DEFINE A == {Q[p].name : p \in 1 .. n + c}
               B == {queue[p].name : p \in 1 .. n}
               C == {tail[p].name : p \in 1 .. c}
    <2>1. \A p \in 1 .. n + c : Q[p].name \in B \cup C
        BY <1>6
    <2>2. \A p \in 1 .. n : queue[p].name \in A
        BY <1>6
    <2>3. \A p \in 1 .. c : tail[p].name \in A
        BY <1>6
    <2>4. A \subseteq B \cup C
        BY <2>1
    <2>5. B \subseteq A
        BY <2>2
    <2>6. C \subseteq A
        BY <2>3
    <2>7. queued = B /\ Names(again) = C /\ QueueNames(Q) = A
        BY <1>1, <1>2, <1>3 DEF QueueNames
    <2> HIDE DEF A, B, C
    <2> QED BY <2>4, <2>5, <2>6, <2>7
<1> QED BY <1>2, <1>3, <1>7, <1>8

\* Releasing a batch keeps the invariant: its names are let go of, and those that
\* are queued again are no longer in flight (finishBatch).
LEMMA FinishBatchKeeps ==
    ASSUME OrdersInv, NEW j \in Job, finishBatch(j), UNCHANGED renewer
    PROVE  OrdersInv'
<1> DEFINE jb == job[j]
           again == {r \in jb.survivors : r.name \notin queued}
           gone == Names(jb.order.requests)
<1>1. PICK tail \in [1 .. Cardinality(again) -> again] :
            IsInjective(tail) /\ queue' = queue \o tail
    BY DEF finishBatch
<1>2. /\ jb.pc = "answered"
      /\ queued' = queued \cup Names(again) /\ wake' = (wake \/ jb.survivors # {})
      /\ inflight' = inflight \ gone
      /\ job' = [job EXCEPT ![j].pc = "release"]
      /\ inflightIdentifiers' = inflightIdentifiers /\ worker' = worker /\ prober' = prober
    BY DEF finishBatch
<1>3. JobShape(jb) /\ job = [l \in Job |-> job[l]]
    BY DEF OrdersInv, WorkInv
<1>4. /\ job' = [l \in Job |-> job'[l]] /\ \A l \in Job \ {j} : job'[l] = job[l]
      /\ job'[j] = [pc |-> "release", batch |-> jb.batch, orders |-> jb.orders,
                    order |-> jb.order, survivors |-> jb.survivors]
    <2>1. job[j] = [pc |-> job[j].pc, batch |-> job[j].batch, orders |-> job[j].orders,
                    order |-> job[j].order, survivors |-> job[j].survivors]
        BY <1>3 DEF JobShape
    <2> QED BY <1>2, <1>3, <2>1, JobAnswered
<1>5. /\ job'[j].pc = "release" /\ job'[j].batch = jb.batch /\ job'[j].orders = jb.orders
      /\ job'[j].order = jb.order /\ job'[j].survivors = jb.survivors
      /\ job'[j] = [pc |-> job'[j].pc, batch |-> job'[j].batch, orders |-> job'[j].orders,
                    order |-> job'[j].order, survivors |-> job'[j].survivors]
    BY <1>4, SMTT(60)
<1>6. JobShape(job'[j])
    BY <1>2, <1>3, <1>5 DEF JobShape, Ordering
<1>7. again \in Batch /\ Names(again) \cap queued = {} /\ Names(again) \subseteq gone
    <2>1. again \subseteq jb.survivors /\ Names(again) \cap queued = {}
        BY DEF Names
    <2> HIDE DEF again
    <2>2. Names(again) \subseteq Names(jb.survivors)
        BY <2>1 DEF Names
    <2> QED BY <1>3, <2>1, <2>2, BatchPart DEF JobShape
<1>e. again # {} => jb.survivors # {}
    OBVIOUS
<1> HIDE DEF again
<1>8. /\ queue' \in Seq(Requests) /\ DistinctQueue(queue')
      /\ queued' = {queue'[p].name : p \in DOMAIN queue'}
      /\ again = {} => queue' = queue
    <2>1. /\ queue \in Seq(Requests) /\ DistinctQueue(queue)
          /\ queued = {queue[p].name : p \in DOMAIN queue}
        BY DEF OrdersInv, WorkInv, QueueInv
    <2>2. /\ queue' \in Seq(Requests) /\ DistinctQueue(queue')
          /\ queued \cup Names(again) = QueueNames(queue')
          /\ again = {} => queue' = queue
        BY <1>1, <1>7, <2>1, QueueGrows
    <2> QED BY <1>2, <2>2 DEF QueueNames
<1>9. WorkInv'
    BY <1>2, <1>4, <1>6, <1>8 DEF OrdersInv, WorkInv
<1>10. QueueInv'
    <2>1. queued' \cap inflight' = {}
        BY <1>2, <1>7 DEF OrdersInv, QueueInv
    <2>2. queue' # <<>> => wake' \/ worker'.pc # "asleep"
        <3>1. CASE again = {}
            BY <1>2, <1>8, <3>1 DEF OrdersInv, QueueInv
        <3>2. CASE again # {}
            BY <1>2, <1>e, <3>2
        <3> QED BY <3>1, <3>2
    <2> QED BY <1>8, <2>1, <2>2 DEF QueueInv
<1>11. HeldInv'
    <2>1. /\ Held(jb) = Names(jb.order.requests \cup UNION {o.requests : o \in jb.orders})
          /\ Held(job'[j]) = Names(UNION {o.requests : o \in jb.orders})
        BY <1>2, <1>5 DEF Held
    <2>2. \A o \in jb.orders : Names(jb.order.requests) \cap Names(o.requests) = {}
        BY <1>2, <1>3 DEF JobShape, Ordering, Apart
    <2>3. Held(jb) = Held(job'[j]) \cup gone
        BY <2>1 DEF Names
    <2>4. Held(job'[j]) \cap gone = {}
        BY <2>1, <2>2, SMTT(60) DEF Names
    <2> HIDE DEF gone
    <2> QED BY <1>2, <1>4, <2>3, <2>4, JobLetsGo DEF OrdersInv
<1>12. WildInv'
    <2>1. OrdersOf(job'[j]) = OrdersOf(jb)
        BY <1>2, <1>5 DEF OrdersOf, Ordering
    <2>2. \A l \in Job : WildsOf(job'[l]) = WildsOf(job[l])
        BY <1>4, <2>1 DEF WildsOf
    <2> QED BY <1>2, <2>2, SMTT(60) DEF OrdersInv, WildInv
<1> QED BY <1>9, <1>10, <1>11, <1>12 DEF OrdersInv

\* Releasing an order's identifiers and going on keeps the invariant
\* (releaseIdentifiers).
LEMMA ReleaseIdentifiersKeeps ==
    ASSUME OrdersInv, NEW j \in Job, releaseIdentifiers(j), UNCHANGED renewer
    PROVE  OrdersInv'
<1> DEFINE jb == job[j]
           rest == [jb EXCEPT !.batch = @ \ jb.order.requests]
           nb == NextOrder(rest)
<1>1. /\ jb.pc = "release" /\ inflightIdentifiers' = inflightIdentifiers \ jb.order.ids
      /\ job' = [job EXCEPT ![j] = nb]
      /\ queue' = queue /\ queued' = queued /\ inflight' = inflight /\ wake' = wake
      /\ worker' = worker /\ prober' = prober
    <2>1. job' = [job EXCEPT ![j] = nb]
        BY DEF releaseIdentifiers
    <2> QED BY <2>1 DEF releaseIdentifiers
<1>2. JobShape(jb) /\ job = [l \in Job |-> job[l]]
    BY DEF OrdersInv, WorkInv
<1>3. /\ rest = [pc |-> rest.pc, batch |-> rest.batch, orders |-> rest.orders,
                 order |-> rest.order, survivors |-> rest.survivors]
      /\ rest.batch = jb.batch \ jb.order.requests /\ rest.orders = jb.orders
    <2>1. jb = [pc |-> jb.pc, batch |-> jb.batch, orders |-> jb.orders, order |-> jb.order,
                survivors |-> jb.survivors]
        BY <1>2 DEF JobShape
    <2> DEFINE b == jb.batch \ jb.order.requests
    <2>2. rest = [jb EXCEPT !.batch = b]
        OBVIOUS
    <2> HIDE DEF rest, jb, b
    <2>3. PICK p, c, qs, od, sv :
            jb = [pc |-> p, batch |-> c, orders |-> qs, order |-> od, survivors |-> sv]
        BY <2>1
    <2>4. rest = [[pc |-> p, batch |-> c, orders |-> qs, order |-> od, survivors |-> sv]
                    EXCEPT !.batch = b]
        BY <2>2, <2>3
    <2>5. rest.batch = b /\ rest.orders = qs /\ jb.orders = qs
        BY <2>3, <2>4
    <2>6. rest = [pc |-> rest.pc, batch |-> rest.batch, orders |-> rest.orders,
                  order |-> rest.order, survivors |-> rest.survivors]
        BY <2>4
    <2> QED BY <2>5, <2>6 DEF b
<1> HIDE DEF rest
<1>4. rest.batch \in Batch
    <2>1. rest.batch \subseteq jb.batch
        BY <1>3
    <2> QED BY <1>2, <2>1, BatchPart DEF JobShape
<1>5. /\ \A o \in rest.orders : OrderShape(o)
      /\ \A o, p \in rest.orders : o # p => Apart(o, p)
    BY <1>2, <1>3 DEF JobShape
<1>6. /\ JobShape(nb)
      /\ Held(nb) = Names(UNION {o.requests : o \in rest.orders})
      /\ UNION {o.ids : o \in OrdersOf(nb)} = UNION {o.ids : o \in rest.orders}
    BY <1>3, <1>4, <1>5, NextOrderShape
<1> HIDE DEF nb
<1>7. /\ job' = [l \in Job |-> job'[l]] /\ job'[j] = nb
      /\ \A l \in Job \ {j} : job'[l] = job[l]
    BY <1>1, <1>2, OneJob
<1>8. WorkInv'
    BY <1>1, <1>6, <1>7 DEF OrdersInv, WorkInv
<1>9. QueueInv'
    BY <1>1 DEF OrdersInv, QueueInv
<1>10. HeldInv'
    <2>1. Held(jb) = Names(UNION {o.requests : o \in jb.orders})
        BY <1>1 DEF Held
    <2>2. Held(job[j]) = Held(job'[j]) \cup {} /\ Held(job'[j]) \cap {} = {}
          /\ inflight' = inflight \ {}
        BY <1>1, <1>3, <1>6, <1>7, <2>1
    <2> QED BY <1>1, <1>7, <2>2, JobLetsGo DEF OrdersInv
<1>11. WildInv'
    <2> DEFINE gone == jb.order.ids
               others == UNION {o.ids : o \in jb.orders}
    <2>1. UNION {o.ids : o \in OrdersOf(jb)} = others \cup gone
        BY <1>1 DEF OrdersOf, Ordering
    <2>2. others \cap gone = {}
        BY <1>1, <1>2, SMTT(60) DEF JobShape, Ordering, Apart
    <2>3. UNION {o.ids : o \in OrdersOf(job'[j])} = others
        BY <1>3, <1>6, <1>7
    <2> HIDE DEF gone, others
    <2>4. /\ WildsOf(job[j]) = WildsOf(job'[j]) \cup {i \in gone : IsWild(i)}
          /\ WildsOf(job'[j]) \cap gone = {}
        BY <2>1, <2>2, <2>3 DEF WildsOf
    <2>5. inflightIdentifiers' = inflightIdentifiers \ gone
        BY <1>1 DEF gone
    <2> QED BY <1>7, <2>4, <2>5, JobDropsWilds DEF OrdersInv
<1> QED BY <1>8, <1>9, <1>10, <1>11 DEF OrdersInv

-----------------------------------------------------------------------------
(***************************************************************************)
(* The renewer's and the prober's steps keep the invariant.                *)
(***************************************************************************)
\* Going to the next certificate leaves no top-up behind.
LEMMA NextCertificateShape ==
    ASSUME NEW todo
    PROVE  RenewerShape(NextCertificate(todo)) /\ NextCertificate(todo).topped = {}
    BY DEF NextCertificate, IdleRenewer, RenewerShape

\* Going to the next part keeps the top-up.
LEMMA NextPartShape ==
    ASSUME NEW r, {"pc", "topped"} \subseteq DOMAIN r
    PROVE  RenewerShape(NextPart(r)) /\ NextPart(r).topped = r.topped
<1>1. CASE r.parts = {}
    <2>1. NextPart(r) = [r EXCEPT !.pc = "finish"]
        BY <1>1 DEF NextPart
    <2> QED BY <2>1 DEF RenewerShape
<1>2. CASE r.parts # {}
    <2> DEFINE p == CHOOSE p \in r.parts : TRUE
    <2>1. NextPart(r) = [r EXCEPT !.pc = "placed", !.part = p, !.parts = @ \ {p}]
        BY <1>2 DEF NextPart
    <2> HIDE DEF p
    <2> QED BY <2>1 DEF RenewerShape
<1> QED BY <1>1, <1>2

\* Filling a batch up from the queue keeps the invariant: what was taken was not in
\* flight, and what is kept of it is marked (topUpBatch, takePending).
LEMMA TopUpKeeps ==
    ASSUME OrdersInv, topUpBatch,
           UNCHANGED <<inflightIdentifiers, worker, job, prober>>
    PROVE  OrdersInv'
<1> DEFINE domains == renewer.domains
           tenants == {owner[n] : n \in domains \cap dynamic}
           room == BatchSize - Cardinality(domains)
           taken == IF tenants = {} \/ BatchSize <= 1 \/ room <= 0 THEN {}
                    ELSE PendingFor(CHOOSE s \in tenants : TRUE, room)
           failing == {r \in taken : ~HasCertificate(r.name) /\ r.name \notin routes}
           kept == Names(taken \ failing)
<1>1. /\ renewer.pc = "assemble" /\ queue' = Without(taken) /\ queued' = queued \ Names(taken)
      /\ inflight' = inflight \cup kept /\ wake' = (wake \/ failing # {})
    BY DEF topUpBatch
<1>2. \E parts : renewer' = NextPart([renewer EXCEPT !.domains = {}, !.topped = kept, !.parts = parts])
    BY DEF topUpBatch
<1>3. /\ queue \in Seq(Requests) /\ DistinctQueue(queue) /\ RenewerShape(renewer)
      /\ queued = {queue[p].name : p \in DOMAIN queue}
    BY DEF OrdersInv, WorkInv, QueueInv
<1>4. renewer.topped = {} /\ {"pc", "topped"} \subseteq DOMAIN renewer
    BY <1>1, <1>3 DEF RenewerShape
<1>5. \E ps \in SUBSET {p \in DOMAIN queue : issuable(queue[p].name)} : taken = At(ps)
    <2>1. CASE taken = {}
        <3>1. At({}) = {}
            BY DEF At
        <3> QED BY <2>1, <3>1
    <2>2. ASSUME NEW s, NEW k
          PROVE  \E ps \in SUBSET {p \in DOMAIN queue : issuable(queue[p].name)} :
                    PendingFor(s, k) = At(ps)
        <3> DEFINE own == {p \in DOMAIN queue : owner[queue[p].name] = s /\ issuable(queue[p].name)}
        <3>1. PendingFor(s, k) = At(First(own, k))
            BY DEF PendingFor
        <3>2. First(own, k) \subseteq own
            BY DEF First
        <3>3. own \subseteq {p \in DOMAIN queue : issuable(queue[p].name)}
            OBVIOUS
        <3> HIDE DEF own
        <3> QED BY <3>1, <3>2, <3>3
    <2>3. taken = {} \/ \E s, k : taken = PendingFor(s, k)
        OBVIOUS
    <2> HIDE DEF taken
    <2> QED BY <2>1, <2>2, <2>3
<1>6. PICK ps \in SUBSET {p \in DOMAIN queue : issuable(queue[p].name)} : taken = At(ps)
    BY <1>5
<1>7. /\ taken \subseteq {queue[p] : p \in DOMAIN queue}
      /\ \A r \in taken : r.name \notin inflight
    BY <1>6 DEF At, issuable
<1>8. kept \cap inflight = {} /\ kept \subseteq Names(taken)
    BY <1>7 DEF Names
<1> HIDE DEF taken, failing, kept
<1>10. /\ queue' \in Seq(Requests) /\ DistinctQueue(queue')
       /\ queued' = {queue'[p].name : p \in DOMAIN queue'}
       /\ queue' # <<>> => queue # <<>>
    <2>1. /\ Without(taken) \in Seq(Requests) /\ DistinctQueue(Without(taken))
          /\ queued \ Names(taken) = {Without(taken)[p].name : p \in DOMAIN Without(taken)}
          /\ Without(taken) # <<>> => queue # <<>>
        BY <1>3, <1>7, QueueWithout
    <2> QED BY <1>1, <2>1
<1>11. PICK parts : renewer' = NextPart([renewer EXCEPT !.domains = {}, !.topped = kept, !.parts = parts])
    BY <1>2
<1>12. RenewerShape(renewer') /\ renewer'.topped = kept
    <2> DEFINE r == [renewer EXCEPT !.domains = {}, !.topped = kept, !.parts = parts]
    <2>1. {"pc", "topped"} \subseteq DOMAIN r /\ r.topped = kept
        BY <1>4
    <2>2. renewer' = NextPart(r)
        BY <1>11
    <2> HIDE DEF r
    <2> QED BY <2>1, <2>2, NextPartShape
<1>13. WorkInv'
    BY <1>10, <1>12 DEF OrdersInv, WorkInv
<1>14. QueueInv'
    <2>1. queued' \cap inflight' = {}
        BY <1>1, <1>8 DEF OrdersInv, QueueInv
    <2>2. queue' # <<>> => wake' \/ worker'.pc # "asleep"
        BY <1>1, <1>10 DEF OrdersInv, QueueInv
    <2> QED BY <1>10, <2>1, <2>2 DEF QueueInv
<1>15. HeldInv'
    BY <1>1, <1>4, <1>8, <1>12, FreshNamesHeld DEF OrdersInv
<1>16. WildInv'
    BY DEF OrdersInv, WildInv
<1> QED BY <1>13, <1>14, <1>15, <1>16 DEF OrdersInv

\* Ending a renewal releases the top-up and keeps the invariant (releasePending).
LEMMA RenewalEndsKeeps ==
    ASSUME OrdersInv, RenewalEnds, UNCHANGED <<inflightIdentifiers, worker, job, prober>>
    PROVE  OrdersInv'
<1>1. /\ inflight' = inflight \ renewer.topped /\ wake' = (wake \/ renewer.topped # {})
      /\ renewer' = NextCertificate(renewer.todo) /\ queue' = queue /\ queued' = queued
    BY DEF RenewalEnds
<1>2. RenewerShape(renewer') /\ renewer'.topped = {}
    BY <1>1, NextCertificateShape
<1>3. WorkInv'
    BY <1>1, <1>2 DEF OrdersInv, WorkInv
<1>4. QueueInv'
    <2>1. queue' # <<>> => wake' \/ worker'.pc # "asleep"
        BY <1>1 DEF OrdersInv, QueueInv
    <2>2. queued' \cap inflight' = {}
        BY <1>1 DEF OrdersInv, QueueInv
    <2> QED BY <1>1, <2>1, <2>2 DEF OrdersInv, QueueInv
<1>5. HeldInv'
    <2> DEFINE held == UNION {Held(job[j]) : j \in Job}
               W == Names(worker.batch)
    <2>1. /\ inflight = W \cup renewer.topped \cup held
          /\ W \cap renewer.topped = {}
          /\ \A j \in Job : Held(job[j]) \cap (W \cup renewer.topped) = {}
          /\ \A j, l \in Job : j # l => Held(job[j]) \cap Held(job[l]) = {}
        BY DEF OrdersInv, HeldInv
    <2>2. held \cap renewer.topped = {}
        BY <2>1
    <2>3. held' = held /\ W' = W
        OBVIOUS
    <2> HIDE DEF held, W
    <2>4. inflight' = W \cup renewer'.topped \cup held
        BY <1>1, <1>2, <2>1, <2>2
    <2>5. /\ W \cap renewer'.topped = {}
          /\ \A j \in Job : Held(job[j]) \cap (W \cup renewer'.topped) = {}
        BY <1>2, <2>1
    <2> QED BY <2>1, <2>3, <2>4, <2>5 DEF HeldInv, held, W
<1>6. WildInv'
    BY DEF OrdersInv, WildInv
<1> QED BY <1>3, <1>4, <1>5, <1>6 DEF OrdersInv

\* The renewer's steps keep the invariant.
LEMMA RenewerKeeps ==
    ASSUME OrdersInv, RenewerStep
    PROVE  OrdersInv'
<1>0. UNCHANGED <<inflightIdentifiers, worker, job, prober>> /\ RenewerShape(renewer)
    BY DEF RenewerStep, OrdersInv, WorkInv
<1>1. ASSUME queue' = queue, queued' = queued, inflight' = inflight, wake' = wake,
             RenewerShape(renewer'), renewer'.topped = renewer.topped
      PROVE  OrdersInv'
    BY <1>0, <1>1, OrdersStay
<1>2. CASE ReconcileStarts
    <2>1. renewer.topped = {} /\ renewer' = NextCertificate(ManagedCertificates)
        BY <1>0, <1>2 DEF ReconcileStarts, RenewerShape
    <2> QED BY <1>1, <1>2, <2>1, NextCertificateShape DEF ReconcileStarts
<1>3. CASE reconcile
    <2>1. renewer.topped = {}
        BY <1>0, <1>3 DEF reconcile, RenewerShape
    <2>2. \/ \E todo : renewer' = NextCertificate(todo)
          \/ \E c, todo : renewer' = [IdleRenewer EXCEPT !.pc = "probe", !.cert = c, !.todo = todo]
        BY <1>3 DEF reconcile
    <2>3. RenewerShape(renewer') /\ renewer'.topped = {}
        <3>1. CASE \E todo : renewer' = NextCertificate(todo)
            BY <3>1, NextCertificateShape
        <3>2. ASSUME NEW c, NEW todo,
                     renewer' = [IdleRenewer EXCEPT !.pc = "probe", !.cert = c, !.todo = todo]
              PROVE  RenewerShape(renewer') /\ renewer'.topped = {}
            BY <3>2 DEF IdleRenewer, RenewerShape
        <3> QED BY <2>2, <3>1, <3>2
    <2>4. queue' = queue /\ queued' = queued /\ inflight' = inflight /\ wake' = wake
        BY <1>3 DEF reconcile
    <2> QED BY <1>1, <2>1, <2>3, <2>4
<1>4. CASE FilterMembers
    <2>1. renewer.topped = {} /\ renewer.pc = "probe"
        BY <1>0, <1>4 DEF FilterMembers, RenewerShape
    <2>2. \/ renewer' = NextCertificate(renewer.todo)
          \/ \E kept : renewer' = [renewer EXCEPT !.pc = "assemble", !.domains = kept]
        BY <1>4 DEF FilterMembers
    <2>3. RenewerShape(renewer') /\ renewer'.topped = {}
        <3>1. CASE renewer' = NextCertificate(renewer.todo)
            BY <3>1, NextCertificateShape
        <3>2. ASSUME NEW kept, renewer' = [renewer EXCEPT !.pc = "assemble", !.domains = kept]
              PROVE  RenewerShape(renewer') /\ renewer'.topped = {}
            BY <1>0, <2>1, <3>2 DEF RenewerShape
        <3> QED BY <2>2, <3>1, <3>2
    <2>4. queue' = queue /\ queued' = queued /\ inflight' = inflight /\ wake' = wake
        BY <1>4 DEF FilterMembers
    <2> QED BY <1>1, <2>1, <2>3, <2>4
<1>5. CASE topUpBatch
    BY <1>0, <1>5, TopUpKeeps
<1>6. CASE renewPartition
    <2>1. \E r : /\ renewer' = NextPart(r)
                 /\ \/ \E a : r = [renewer EXCEPT !.adopted = a]
                    \/ r = [renewer EXCEPT !.all = FALSE]
                    \/ \E ps : r = [renewer EXCEPT !.all = FALSE, !.parts = ps]
        BY <1>6 DEF renewPartition
    <2>2. PICK r : /\ renewer' = NextPart(r)
                   /\ \/ \E a : r = [renewer EXCEPT !.adopted = a]
                      \/ r = [renewer EXCEPT !.all = FALSE]
                      \/ \E ps : r = [renewer EXCEPT !.all = FALSE, !.parts = ps]
        BY <2>1
    <2>3. {"pc", "topped"} \subseteq DOMAIN r /\ r.topped = renewer.topped
        <3>0. {"pc", "topped"} \subseteq DOMAIN renewer
            BY <1>0 DEF RenewerShape
        <3>1. ASSUME NEW a, r = [renewer EXCEPT !.adopted = a]
              PROVE  {"pc", "topped"} \subseteq DOMAIN r /\ r.topped = renewer.topped
            BY <3>0, <3>1
        <3>2. CASE r = [renewer EXCEPT !.all = FALSE]
            BY <3>0, <3>2
        <3>3. ASSUME NEW ps, r = [renewer EXCEPT !.all = FALSE, !.parts = ps]
              PROVE  {"pc", "topped"} \subseteq DOMAIN r /\ r.topped = renewer.topped
            BY <3>0, <3>3
        <3> QED BY <2>2, <3>1, <3>2, <3>3
    <2>4. queue' = queue /\ queued' = queued /\ inflight' = inflight /\ wake' = wake
        BY <1>6 DEF renewPartition
    <2>5. RenewerShape(renewer') /\ renewer'.topped = renewer.topped
        BY <2>2, <2>3, NextPartShape
    <2> QED BY <1>1, <2>4, <2>5
<1>7. CASE RenewalEnds
    BY <1>0, <1>7, RenewalEndsKeeps
<1> QED BY <1>2, <1>3, <1>4, <1>5, <1>6, <1>7 DEF RenewerStep
================================================================================
