----------------------------- MODULE DiskStream -----------------------------
(***************************************************************************)
(* disk_stream_seek and disk_stream_read (disk/stream.c): bytes from a       *)
(* position of the disk, sector by sector, by a recursion that ends with the *)
(* sector the request does not fill.  A step is one level of the recursion.  *)
(* A byte of the disk is known by its position.  Whoever reads composes its  *)
(* own steps with StartRead and ReadSector.                                  *)
(***************************************************************************)
EXTENDS Integers

CONSTANTS
    SectorSize,         \* SECTOR_SIZE
    Memory              \* the addresses of the memory reads go to

ASSUME StreamAssumption ==
    SectorSize \in Nat \ {0} /\ Memory \subseteq Nat

VARIABLES
    memory,             \* by address: the byte of the disk that was copied there
    pos,                \* disk_stream_t.pos
    out, total,         \* the arguments of this level
    reading,            \* the recursion has not ended
    request             \* history: pos, out, total and memory as the read began

streamVars == <<memory, pos, out, total, reading, request>>

Untouched == -1

StreamInit ==
    /\ memory = [a \in Memory |-> Untouched]
    /\ pos = 0 /\ out = 0 /\ total = 0
    /\ reading = FALSE
    /\ request = [pos |-> 0, out |-> 0, total |-> 0, memory |-> memory]

\* disk_stream_seek, and the call of disk_stream_read
StartRead(position, length, to) ==
    /\ ~reading
    /\ pos' = position /\ total' = length /\ out' = to
    /\ reading' = TRUE
    /\ request' = [pos |-> position, out |-> to, total |-> length, memory |-> memory]
    /\ UNCHANGED memory

sector == pos \div SectorSize

\* Mutant: every sector is copied from its start.
offsetZero == 0
offset == pos % SectorSize

overflow == offset + total >= SectorSize

total_to_read == IF overflow THEN SectorSize - offset ELSE total

\* Mutant: the last byte of the sector's part is left out.
CopyButLast ==
    memory' = [a \in Memory |->
                 IF out <= a /\ a < out + total_to_read - 1
                   THEN sector * SectorSize + offset + (a - out)
                   ELSE memory[a]]
Copy ==
    memory' = [a \in Memory |->
                 IF out <= a /\ a < out + total_to_read
                   THEN sector * SectorSize + offset + (a - out)
                   ELSE memory[a]]

Advance ==
    /\ pos' = pos + total_to_read
    /\ out' = out + total_to_read
    /\ total' = total - total_to_read

\* One level: the sector of the position is read and copied from there to its
\* end, or as far as the request goes.
ReadSector ==
    /\ reading
    /\ Copy
    /\ Advance
    /\ reading' = overflow
    /\ UNCHANGED request

StreamNext ==
    \/ \E position, length, to \in Nat : StartRead(position, length, to)
    \/ ReadSector

StreamSpec == StreamInit /\ [][StreamNext]_streamVars
-----------------------------------------------------------------------------
StreamTypeOK ==
    /\ memory \in [Memory -> Nat \cup {Untouched}]
    /\ pos \in Nat /\ out \in Nat /\ total \in Nat
    /\ reading \in BOOLEAN
    /\ request \in [pos : Nat, out : Nat, total : Nat, memory : [Memory -> Nat \cup {Untouched}]]

copied == pos - request.pos

\* what the caller's memory holds when n bytes of the request have been read
Filled(n) ==
    [a \in Memory |-> IF request.out <= a /\ a < request.out + n
                        THEN request.pos + (a - request.out)
                        ELSE request.memory[a]]

\* At every level the bytes before the stream's position have been copied, in
\* order: none is lost or copied twice where a sector ends, and the memory
\* around them is as it was.
Progress ==
    /\ copied \in Nat
    /\ out = request.out + copied /\ total = request.total - copied
    /\ memory = Filled(copied)

\* A read gives exactly the bytes asked for, writes no other byte and leaves the
\* stream just after them (stream.c:27-59).
StreamExact ==
    ~reading => /\ pos = request.pos + request.total
                /\ memory = Filled(request.total)
=============================================================================
