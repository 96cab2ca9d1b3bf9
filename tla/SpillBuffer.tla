----------------------------- MODULE SpillBuffer -----------------------------
(***************************************************************************)
(* The Buffer of internal/server/buffer.go, which request and response     *)
(* bodies are collected in: the first bytes in memory, the rest in a spill *)
(* file, up to a limit.  A limit of 0 is no limit.                         *)
(***************************************************************************)
EXTENDS Naturals, Sequences

NewBuffer == [mem |-> <<>>, disk |-> <<>>, spill |-> FALSE, overflowed |-> FALSE]

Size(b) == Len(b.mem) + Len(b.disk)

(* setReader: memory first, then the file. *)
Contents(b) == b.mem \o b.disk

(* writeToDisk may come up short. *)
writeToDisk(b, p) ==
    {[buf |-> [b EXCEPT !.disk = @ \o p], err |-> "none"]} \cup
    {[buf |-> [b EXCEPT !.disk = @ \o SubSeq(p, 1, k)], err |-> "disk"] : k \in 0..(Len(p) - 1)}

(* createSpill may fail. *)
createSpill(b, p, maxMem) ==
    LET room == maxMem - Len(b.mem)
    IN  {[buf |-> b, err |-> "disk"]} \cup
        writeToDisk([b EXCEPT !.spill = TRUE, !.mem = @ \o SubSeq(p, 1, room)],
                    SubSeq(p, room + 1, Len(p)))

(* The outcomes of Write. *)
Write(b, p, maxBytes, maxMem) ==
    IF maxBytes > 0 /\ Size(b) + Len(p) > maxBytes
    THEN {[buf |-> [b EXCEPT !.overflowed = TRUE], err |-> "too large"]}
    ELSE IF b.spill THEN writeToDisk(b, p)
    ELSE IF Len(b.mem) + Len(p) <= maxMem
         THEN {[buf |-> [b EXCEPT !.mem = @ \o p], err |-> "none"]}
         ELSE createSpill(b, p, maxMem)

(* discardSpill. *)
Close(b) == [b EXCEPT !.disk = <<>>, !.spill = FALSE]
=============================================================================
