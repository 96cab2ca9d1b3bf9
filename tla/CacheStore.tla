----------------------------- MODULE CacheStore -----------------------------
(***************************************************************************)
(* The two stores a proxy keeps for itself: entries in memory, or one file  *)
(* per entry under an index that a restart rebuilds                         *)
(* (internal/server/cache_store_memory.go, cache_store_file.go).  Both are  *)
(* least-recently-used lists under a byte budget.  The memory store does    *)
(* each operation under its lock; the file store writes and reads its files *)
(* outside of it, so every such operation is several steps here.            *)
(***************************************************************************)
EXTENDS Integers, Sequences, FiniteSets, SequencesExt, FiniteSetsExt

CONSTANTS
    Key,
    Service,    \* Service[k]: the service the entries of a key belong to
    Size,       \* sizes an entry may have
    MaxBytes,   \* the budget
    Overhead,   \* how much larger an encoded file is than the entry's size()
    Proc,       \* concurrent callers
    MaxOps,     \* bound on operations
    MaxRestarts,
    None

VARIABLES
    kind,     \* which store this is
    order,    \* records, most recently used first
    bytes,
    usage,    \* services: entries and bytes of each
    files,    \* entry files by key
    temps,    \* temporary files on disk, by the write that made them
    proc,     \* the operation each caller is in
    reply,    \* what each caller's last Get returned
    dead,     \* entries past their stale window
    hist      \* operations so far, restarts, what purges removed

vars == <<kind, order, bytes, usage, files, temps, proc, reply, dead, hist>>

Version == 1..MaxOps

Services == {Service[k] : k \in Key}

File == [version : Version, size : Size]

Idle == [pc |-> "idle", key |-> None, size |-> 0, version |-> 0]

TypeOK ==
    /\ kind \in {"memory", "file"}
    /\ \A i \in DOMAIN order : order[i] \in [key : Key, size : Nat, version : Version]
    /\ \A i, j \in DOMAIN order : order[i].key = order[j].key => i = j
    /\ bytes \in Nat
    /\ usage \in [Services -> [entries : Nat, bytes : Nat]]
    /\ files \in [Key -> File \cup {None}]
    /\ temps \subseteq Version
    /\ \A p \in Proc : proc[p] = Idle \/ proc[p] \in
         [pc : {"rename", "index", "read", "forget"}, key : Key,
          size : Size \cup {0}, version : 0..MaxOps]
    /\ dead \subseteq Version
    /\ hist \in [ops : 0..MaxOps, restarts : 0..MaxRestarts,
                 purged : SUBSET Version, reopened : BOOLEAN]

Init ==
    /\ kind \in {"memory", "file"}
    /\ order = <<>>
    /\ bytes = 0
    /\ usage = [s \in Services |-> [entries |-> 0, bytes |-> 0]]
    /\ files = [k \in Key |-> None]
    /\ temps = {}
    /\ proc = [p \in Proc |-> Idle]
    /\ reply = [p \in Proc |-> None]
    /\ dead = {}
    /\ hist = [ops |-> 0, restarts |-> 0, purged |-> {}, reopened |-> FALSE]

----------------------------------------------------------------------------
(* The index, as one value: a critical section does several of these.      *)

Index == [order |-> order, bytes |-> bytes, usage |-> usage, files |-> files]

Becomes(ix) ==
    /\ order' = ix.order
    /\ bytes' = ix.bytes
    /\ usage' = ix.usage
    /\ files' = ix.files

Records(ix, keys) == {rec \in Range(ix.order) : rec.key \in keys}

addUsage(ix, s, size) ==
    [ix EXCEPT !.usage[s] = [entries |-> @.entries + 1, bytes |-> @.bytes + size]]

removeUsage_KeepsBytes(ix, s, size) == [ix EXCEPT !.usage[s].entries = @ - 1]

removeUsage(ix, s, size) ==
    [ix EXCEPT !.usage[s] = [entries |-> @.entries - 1, bytes |-> @.bytes - size]]

dropIndex(ix, rec) ==
    removeUsage([ix EXCEPT !.order = Remove(@, rec), !.bytes = @ - rec.size],
                Service[rec.key], rec.size)

index(ix, rec) ==
    addUsage([ix EXCEPT !.order = <<rec>> \o @, !.bytes = @ + rec.size],
             Service[rec.key], rec.size)

removeElement_KeepsFile(ix, rec) == dropIndex(ix, rec)

\* removeElement: the file goes with the record.
removeElement(ix, rec) == [dropIndex(ix, rec) EXCEPT !.files[rec.key] = None]

MoveToFront(ix, rec) == [ix EXCEPT !.order = <<rec>> \o Remove(@, rec)]

\* The eviction loop: from the back of the list while over the budget.
evict(ix) ==
    FoldLeft(LAMBDA x, rec : IF x.bytes > MaxBytes
                               THEN removeElement(x, Last(x.order)) ELSE x,
             ix, ix.order)

\* store, under the lock: the key's record is replaced, then the budget kept.
\* The memory store drops the old record even if the new one can never fit.
store(ix, rec, remove(_, _)) ==
    LET without == FoldSet(LAMBDA old, x : remove(x, old), ix, Records(ix, {rec.key}))
    IN  IF rec.size > MaxBytes THEN without ELSE evict(index(without, rec))

----------------------------------------------------------------------------
(* Set and Get of the memory store: one critical section each.             *)

Counted == hist.ops < MaxOps /\ hist' = [hist EXCEPT !.ops = @ + 1]

Stored == hist' = [hist EXCEPT !.ops = @ + 1, !.reopened = FALSE]

MemorySet(p, k, size) ==
    /\ kind = "memory" /\ hist.ops < MaxOps
    /\ Becomes(store(Index, [key |-> k, size |-> size, version |-> hist.ops + 1],
                     removeElement))
    /\ Stored
    /\ UNCHANGED <<kind, temps, proc, reply, dead>>

Reply(p, k, version) ==
    reply' = [reply EXCEPT ![p] = [key |-> k, version |-> version]]

MemoryGet(p, k) ==
    /\ kind = "memory" /\ Counted
    /\ \/ /\ Records(Index, {k}) = {}
          /\ Becomes(Index) /\ Reply(p, k, None)
       \/ \E rec \in Records(Index, {k}) :
            IF rec.version \in dead
              THEN Becomes(removeElement(Index, rec)) /\ Reply(p, k, None)
              ELSE Becomes(MoveToFront(Index, rec)) /\ Reply(p, k, rec.version)
    /\ UNCHANGED <<kind, temps, proc, dead>>

----------------------------------------------------------------------------
(* Set and Get of the file store.                                          *)

At(p, pc) == kind = "file" /\ proc[p].pc = pc

Go(p, state) == proc' = [proc EXCEPT ![p] = state]

\* Set up to a complete temporary file; an entry that can never fit is refused
\* before anything is touched.
FileSet(p, k, size) ==
    /\ At(p, "idle") /\ Counted
    /\ IF size > MaxBytes
         THEN UNCHANGED <<temps, proc>>
         ELSE /\ temps' = temps \cup {hist.ops + 1}
              /\ Go(p, [pc |-> "rename", key |-> k, size |-> size,
                        version |-> hist.ops + 1])
    /\ UNCHANGED <<kind, order, bytes, usage, files, reply, dead>>

\* writeFile's end: the rename, or an error that removes the temporary file.
RenameFile(p) ==
    LET op == proc[p] IN
    /\ At(p, "rename")
    /\ temps' = temps \ {op.version}
    /\ \/ /\ files' = [files EXCEPT ![op.key] =
                         [version |-> op.version, size |-> op.size]]
          /\ Go(p, [op EXCEPT !.pc = "index"])
       \/ Go(p, Idle) /\ UNCHANGED files
    /\ UNCHANGED <<kind, order, bytes, usage, reply, dead, hist>>

\* store, under the lock: the old record goes, the file on its path stays.
IndexFile(p) ==
    LET op == proc[p] IN
    /\ At(p, "index")
    /\ Becomes(store(Index, [key |-> op.key, size |-> op.size,
                             version |-> op.version], dropIndex))
    /\ hist' = [hist EXCEPT !.reopened = FALSE]
    /\ Go(p, Idle)
    /\ UNCHANGED <<kind, temps, reply, dead>>

\* Get, under the lock.  A record's expiry counts from when it was indexed, so an
\* entry that is past its window may still be found.
FileGet(p, k) ==
    /\ At(p, "idle") /\ Counted
    /\ \/ /\ Records(Index, {k}) = {}
          /\ Becomes(Index) /\ Reply(p, k, None) /\ UNCHANGED proc
       \/ \E rec \in Records(Index, {k}) :
            \/ /\ rec.version \in dead
               /\ Becomes(removeElement(Index, rec)) /\ Reply(p, k, None)
               /\ UNCHANGED proc
            \/ /\ Becomes(MoveToFront(Index, rec))
               /\ Go(p, [pc |-> "read", key |-> k, size |-> 0,
                         version |-> rec.version])
               /\ UNCHANGED reply
    /\ UNCHANGED <<kind, temps, dead>>

ReadFile_FromRecord(p) ==
    /\ At(p, "read")
    /\ Go(p, Idle) /\ Reply(p, proc[p].key, proc[p].version)
    /\ UNCHANGED <<kind, order, bytes, usage, files, temps, dead, hist>>

\* Get, after the lock: whatever file is at the path by now.
ReadFile(p) ==
    LET k == proc[p].key IN
    /\ At(p, "read")
    /\ \/ /\ files[k] # None
          /\ Go(p, Idle) /\ Reply(p, k, files[k].version)
       \/ /\ files[k] = None
          /\ Go(p, [proc[p] EXCEPT !.pc = "forget"]) /\ UNCHANGED reply
    /\ UNCHANGED <<kind, order, bytes, usage, files, temps, dead, hist>>

\* forget: whatever record the key has by now goes, with its file.
Forget(p) ==
    LET k == proc[p].key IN
    /\ At(p, "forget")
    /\ Becomes(FoldSet(LAMBDA rec, x : removeElement(x, rec), Index,
                       Records(Index, {k})))
    /\ Go(p, Idle) /\ Reply(p, k, None)
    /\ UNCHANGED <<kind, temps, dead, hist>>

----------------------------------------------------------------------------
\* What a Get of the key would find.
Visible(k) ==
    IF kind = "file" THEN IF files[k] = None THEN None ELSE files[k].version
    ELSE IF Records(Index, {k}) = {} THEN None
         ELSE (CHOOSE rec \in Records(Index, {k}) : TRUE).version

\* Purge: every record of the service below the path, under the lock.
Purge ==
    /\ hist.ops < MaxOps
    /\ \E s \in Services, below \in {Key} \cup {{k} : k \in Key} :
         LET recs == Records(Index, {k \in below : Service[k] = s}) IN
         /\ Becomes(FoldSet(LAMBDA rec, x : removeElement(x, rec), Index, recs))
         /\ hist' = [hist EXCEPT !.ops = @ + 1,
              !.purged = @ \cup ({Visible(rec.key) : rec \in recs} \ {None})]
    /\ UNCHANGED <<kind, temps, proc, reply, dead>>

\* rebuildIndex: expired files are removed, the others indexed by their size on
\* disk, in the fixed order of their names, and no budget is applied.
rebuildIndex ==
    LET kept == {k \in Key : files[k] # None /\ files[k].version \notin dead}
        empty == [order |-> <<>>, bytes |-> 0,
                  usage |-> [s \in Services |-> [entries |-> 0, bytes |-> 0]],
                  files |-> [k \in Key |-> IF k \in kept THEN files[k] ELSE None]]
    IN  FoldLeft(LAMBDA ix, k : index(ix, [key |-> k, size |-> files[k].size + Overhead,
                                           version |-> files[k].version]),
                 empty, SetToSeq(kept))

\* The process ends, at any point of any call, and the next one opens the store.
Restart ==
    /\ hist.restarts < MaxRestarts
    /\ Becomes(rebuildIndex)
    /\ proc' = [p \in Proc |-> Idle]
    /\ hist' = [hist EXCEPT !.restarts = @ + 1, !.reopened = TRUE]
    /\ UNCHANGED <<kind, temps, reply, dead>>

Die ==
    /\ \E k \in Key : Visible(k) \notin dead \cup {None} /\ dead' = dead \cup {Visible(k)}
    /\ UNCHANGED <<kind, order, bytes, usage, files, temps, proc, reply, hist>>

Next ==
    \/ \E p \in Proc, k \in Key, size \in Size : MemorySet(p, k, size) \/ FileSet(p, k, size)
    \/ \E p \in Proc, k \in Key : MemoryGet(p, k) \/ FileGet(p, k)
    \/ \E p \in Proc : RenameFile(p) \/ IndexFile(p) \/ ReadFile(p) \/ Forget(p)
    \/ Purge \/ Restart \/ Die

Spec == Init /\ [][Next]_vars

----------------------------------------------------------------------------
(* Properties.                                                             *)

\* The byte count and the per-service counts are those of the records held,
\* whatever mix of replacements, evictions, purges, forgotten files and restarts
\* led there: the budget and cache stats are computed from them (addUsage,
\* removeUsage).
Accounted ==
    /\ bytes = SumFunction([i \in DOMAIN order |-> order[i].size])
    /\ \A s \in Services :
         LET held == {i \in DOMAIN order : Service[order[i].key] = s} IN
         usage[s] = [entries |-> Cardinality(held),
                     bytes |-> MapThenSumSet(LAMBDA i : order[i].size, held)]

\* The store is inside its budget after every write that it indexes; only what a
\* restart finds on disk may exceed it until the next one (store's loop).
WithinBudget == ~hist.reopened => bytes <= MaxBytes

\* The store keeps to its budget by exact accounts (addUsage, removeUsage, store).
BudgetKept == Accounted /\ WithinBudget

\* A file on disk is in the index, where eviction and purge reach it, or its
\* writer is about to put it there: concurrent writes, expiry and forgetting of
\* one path leave no file behind that nobody accounts for.
NoLeakedFile ==
    \A k \in Key : files[k] # None =>
        \/ Records(Index, {k}) # {}
        \/ \E p \in Proc : At(p, "index") /\ proc[p].key = k

\* What a purge removed is never seen again, restarts included ("a purge that left
\* the file behind would be undone by the next restart", removeElement).
PurgedStaysGone == \A k \in Key : Visible(k) \notin hist.purged

\* No entry is left where eviction, purge and restart disagree about it
\* (removeElement, store, rebuild).
NothingLeftBehind == NoLeakedFile /\ PurgedStaysGone

Lossy == INSTANCE LossyCache WITH current <- [k \in Key |-> Visible(k)]

\* Both stores are a lossy map with atomic writes: a Get that overlaps writes,
\* evictions, purges and a restart returns the last entry that landed at its key,
\* whole, or nothing.
ImplementsLossyCache == Lossy!Spec

\* The comment of writeFile: "a crash mid-write leaves no half-file behind".
NoHalfFile ==
    temps \subseteq {proc[p].version : p \in {q \in Proc : proc[q].pc = "rename"}}
=============================================================================
