---------------------------- MODULE FatReadProofs ----------------------------
(***************************************************************************)
(* fat16_read keeps to the promise of the stream it reads with, and writes  *)
(* the caller's bytes and no other, for every size of sector and cluster,   *)
(* every volume, whatever the table holds, and every request.               *)
(***************************************************************************)
EXTENDS FatRead, TLAPS

-----------------------------------------------------------------------------
(* The stream on its own: disk_stream_read returns exactly the bytes asked   *)
(* for, for every sector size, every sequence of reads, and every position,  *)
(* length and whereto.                                                       *)

\* The invariant that is inductive: where the copy stands at each level, and
\* that the recursion ends with nothing left.
StreamInv == StreamTypeOK /\ Progress /\ (~reading => total = 0)

\* Where a position lies: its sector and its offset there give it back.
LEMMA SectorArithmetic ==
    ASSUME NEW p \in Nat
    PROVE  /\ p \div SectorSize \in Nat
           /\ p % SectorSize \in 0..(SectorSize - 1)
           /\ (p \div SectorSize) * SectorSize + (p % SectorSize) = p
  BY StreamAssumption

LEMMA StreamInitInv == StreamInit => StreamInv
<1> SUFFICES ASSUME StreamInit PROVE StreamInv
  OBVIOUS
<1>1. StreamTypeOK
  BY DEF StreamInit, StreamTypeOK, Untouched
<1>2. memory = Filled(0)
  BY StreamAssumption DEF StreamInit, Filled
<1>3. Progress
  BY <1>2 DEF StreamInit, Progress, copied
<1> QED BY <1>1, <1>3 DEF StreamInit, StreamInv

\* A read begins with nothing copied.
LEMMA StartReadInv ==
    ASSUME StreamInv, NEW position \in Nat, NEW length \in Nat, NEW whereto \in Nat,
           StartRead(position, length, whereto)
    PROVE  StreamInv'
<1>1. StreamTypeOK'
  BY DEF StreamInv, StreamTypeOK, StartRead
<1>2. copied' = 0
  BY DEF StartRead, copied
<1>3. memory' = Filled(copied)'
  <2>1. request' = [pos |-> position, out |-> whereto, total |-> length, memory |-> memory]
        /\ memory' = memory /\ memory \in [Memory -> Nat \cup {Untouched}]
    BY DEF StartRead, StreamInv, StreamTypeOK
  <2> QED BY <1>2, <2>1, StreamAssumption DEF Filled
<1>4. Progress'
  BY <1>2, <1>3 DEF StartRead, Progress
<1> QED BY <1>1, <1>4 DEF StreamInv, StartRead

\* One level copies the next bytes and no other.
LEMMA ReadSectorInv ==
    ASSUME StreamInv, ReadSector
    PROVE  StreamInv'
<1> DEFINE n == total_to_read
<1>1. /\ pos \in Nat /\ total \in Nat /\ out \in Nat
      /\ memory \in [Memory -> Nat \cup {Untouched}]
      /\ request.pos \in Nat /\ request.out \in Nat /\ request.total \in Nat
      /\ copied \in Nat /\ pos = request.pos + copied
      /\ out = request.out + copied /\ total = request.total - copied
      /\ memory = Filled(copied)
  BY DEF StreamInv, StreamTypeOK, Progress, copied
<1>2. sector \in Nat /\ offset \in 0..(SectorSize - 1) /\ sector * SectorSize + offset = pos
  BY <1>1, SectorArithmetic DEF sector, offset
<1>3. n \in 0..total /\ (~overflow => n = total) /\ overflow \in BOOLEAN
  BY <1>1, <1>2, StreamAssumption DEF total_to_read, overflow
<1>4. /\ pos' = pos + n /\ out' = out + n /\ total' = total - n
      /\ reading' = overflow /\ request' = request
      /\ memory' = [a \in Memory |->
                      IF out <= a /\ a < out + n
                        THEN sector * SectorSize + offset + (a - out) ELSE memory[a]]
  BY DEF ReadSector, Copy, Advance
<1>5. memory' = Filled(copied + n)
  <2> HIDE DEF n
  <2> SUFFICES ASSUME NEW a \in Memory
               PROVE  (IF out <= a /\ a < out + n
                         THEN sector * SectorSize + offset + (a - out) ELSE memory[a])
                      = IF request.out <= a /\ a < request.out + (copied + n)
                          THEN request.pos + (a - request.out) ELSE request.memory[a]
    BY <1>4 DEF Filled
  <2>1. a \in Nat
    BY StreamAssumption
  <2>2. memory[a] = IF request.out <= a /\ a < request.out + copied
                      THEN request.pos + (a - request.out) ELSE request.memory[a]
    BY <1>1 DEF Filled
  <2>3. CASE out <= a /\ a < out + n
    <3>1. sector * SectorSize + offset + (a - out) = pos + (a - out)
      BY <1>2
    <3> QED BY <1>1, <1>3, <2>1, <2>3, <3>1
  <2>4. CASE ~(out <= a /\ a < out + n)
    BY <1>1, <1>3, <2>1, <2>2, <2>4
  <2> QED BY <2>3, <2>4
<1> HIDE DEF n
<1>6. Progress'
  <2>1. copied' = copied + n
    BY <1>1, <1>3, <1>4 DEF copied
  <2>2. memory' = Filled(copied)'
    BY <1>4, <1>5, <2>1 DEF Filled
  <2> QED BY <1>1, <1>3, <1>4, <2>1, <2>2 DEF Progress
<1>7. StreamTypeOK'
  <2>1. memory' \in [Memory -> Nat \cup {Untouched}]
    <3> SUFFICES ASSUME NEW a \in Memory
                 PROVE  (IF out <= a /\ a < out + n
                           THEN sector * SectorSize + offset + (a - out) ELSE memory[a])
                        \in Nat \cup {Untouched}
      BY <1>4
    <3>1. sector * SectorSize + offset + (a - out) = pos + (a - out)
      BY <1>2
    <3> QED BY <1>1, <3>1, StreamAssumption
  <2>2. request' \in [pos : Nat, out : Nat, total : Nat, memory : [Memory -> Nat \cup {Untouched}]]
    BY <1>4 DEF StreamInv, StreamTypeOK
  <2> QED BY <1>1, <1>3, <1>4, <2>1, <2>2 DEF StreamTypeOK
<1>8. ~reading' => total' = 0
  BY <1>1, <1>3, <1>4
<1> QED BY <1>6, <1>7, <1>8 DEF StreamInv

\* What the stream's invariant says of a read that has ended.
LEMMA StreamInvExact == StreamInv => StreamExact
<1> SUFFICES ASSUME StreamInv, ~reading PROVE StreamExact
  BY DEF StreamExact
<1>1. /\ copied = request.total /\ pos = request.pos + copied
      /\ pos \in Nat /\ request.pos \in Nat
  BY DEF StreamInv, StreamTypeOK, Progress, copied
<1>2. memory = Filled(request.total)
  BY <1>1 DEF StreamInv, Progress
<1> QED BY <1>1, <1>2 DEF StreamExact

LEMMA StreamStepInv ==
    ASSUME StreamInv, [StreamNext]_streamVars
    PROVE  StreamInv'
<1>1. ASSUME NEW position \in Nat, NEW length \in Nat, NEW whereto \in Nat,
             StartRead(position, length, whereto)
      PROVE  StreamInv'
  BY <1>1, StartReadInv
<1>2. CASE ReadSector
  BY <1>2, ReadSectorInv
<1>3. CASE UNCHANGED streamVars
  BY <1>3 DEF StreamInv, StreamTypeOK, Progress, Filled, copied, streamVars
<1> QED BY <1>1, <1>2, <1>3 DEF StreamNext

\* At every level of every read the copy is complete up to the stream's position.
THEOREM StreamInvariant == StreamSpec => []StreamInv
<1>1. StreamInit => StreamInv
  BY StreamInitInv
<1>2. StreamInv /\ [StreamNext]_streamVars => StreamInv'
  BY StreamStepInv
<1> QED BY <1>1, <1>2, PTL DEF StreamSpec

\* Where a sector ends no byte is lost or copied twice, and the memory around the
\* copy stays as it was, at every level of the recursion (stream.c:38-58).
THEOREM StreamProgress == StreamSpec => []Progress
<1>1. StreamInv => Progress
  BY DEF StreamInv
<1> QED BY StreamInvariant, <1>1, PTL

\* disk_stream_read returns exactly the bytes from the stream's position on, as
\* many as asked for, and moves the stream by as much, for every sector size.
THEOREM StreamReadIsExact == StreamSpec => []StreamExact
  BY StreamInvariant, StreamInvExact, PTL

-----------------------------------------------------------------------------
(* The read of a file, which drives the stream.                              *)

FatTypeOK ==
    /\ fpos \in Nat /\ size \in Nat \ {0} /\ nmemb \in Nat \ {0}
    /\ chain[0] \in Clusters
    /\ word \in [Numbers -> Entries]
    /\ i \in 0..nmemb
    /\ fileOffset \in Nat /\ left \in 1..size /\ to \in Nat
    /\ cluster_to_use \in Numbers /\ ahead \in Nat
    /\ res \in {"walk", "copy", "ok", "EIO"}

\* the addresses that are written are those below n
WrittenTo(mem, n) == \A a \in Memory : mem[a] # Untouched <=> a < n

\* where the read stands between two calls of the stream, and during one
Standing ==
    /\ to = i * size + (size - left)
    /\ res = "ok" => i = nmemb /\ left = size
    /\ res # "ok" => i < nmemb
    /\ res = "copy" => /\ request.out = to /\ request.total = TotalToRead
                       /\ WrittenTo(request.memory, to)
    /\ res # "copy" => ~reading /\ WrittenTo(memory, to)

FatInv == FatTypeOK /\ Standing

LEMMA ClusterSizePositive == ClusterSize \in Nat \ {0}
  BY StreamAssumption, VolumeAssumption DEF ClusterSize

LEMMA TotalToReadRange == FatTypeOK => TotalToRead \in 1..left
  BY ClusterSizePositive DEF FatTypeOK, TotalToRead

LEMMA StartingPosNat == FatTypeOK => StartingPos(cluster_to_use) \in Nat
<1> SUFFICES ASSUME FatTypeOK PROVE StartingPos(cluster_to_use) \in Nat
  OBVIOUS
<1>1. cluster_to_use - NearCluster \in Nat
  BY VolumeAssumption DEF FatTypeOK, Numbers, Clusters, NearCluster, FarCluster
<1>2. (cluster_to_use - NearCluster) * ClusterSize \in Nat
  BY <1>1, ClusterSizePositive
<1>3. fileOffset % ClusterSize \in Nat
  BY ClusterSizePositive DEF FatTypeOK
<1> QED BY <1>2, <1>3 DEF StartingPos, PositionOf

LEMMA InitFatInv == Init => FatInv
<1> SUFFICES ASSUME Init PROVE FatInv
  OBVIOUS
<1>1. PICK n \in 1..(LastCluster - 1) :
        /\ chain \in [0..(n - 1) -> Clusters]
        /\ fpos \in 0..MaxStart
        /\ size \in 1..(n * ClusterSize)
        /\ nmemb \in 1..MaxCount
  BY DEF Init
<1>2. n \in Nat /\ n * ClusterSize \in Nat
  BY ClusterSizePositive, VolumeAssumption
<1>3. FatTypeOK
  BY <1>1, <1>2, VolumeAssumption DEF Init, FatTypeOK, Numbers
<1>4. to = i * size + (size - left)
  BY <1>3 DEF Init, FatTypeOK
<1>5. WrittenTo(memory, to)
  BY StreamAssumption DEF Init, StreamInit, WrittenTo, Untouched
<1> QED BY <1>3, <1>4, <1>5 DEF Init, StreamInit, FatInv, FatTypeOK, Standing

LEMMA WalkChainInv ==
    ASSUME FatInv, WalkChain
    PROVE  FatInv'
<1>1. FatTypeOK'
  BY DEF FatInv, FatTypeOK, WalkChain, EndOfChain, place, walk, volume, call, Entries, Numbers, Stop
<1>2. Standing'
  BY DEF FatInv, Standing, FatTypeOK, WalkChain, EndOfChain, place, walk, volume, call, streamVars, WrittenTo
<1> QED BY <1>1, <1>2 DEF FatInv

LEMMA StartPartInv ==
    ASSUME FatInv, StartPart
    PROVE  FatInv'
<1>1. FatTypeOK'
  BY DEF FatInv, FatTypeOK, StartPart, place, walk, volume, call
<1>2. TotalToRead' = TotalToRead
  BY DEF StartPart, place, TotalToRead
<1>3. request'.out = to /\ request'.total = TotalToRead /\ request'.memory = memory
  BY DEF StartPart, StartRead
<1>4. Standing'
  BY <1>2, <1>3 DEF FatInv, Standing, StartPart, place, walk, volume, call, WrittenTo
<1> QED BY <1>1, <1>4 DEF FatInv

LEMMA CopyPartInv ==
    ASSUME FatInv, CopyPart
    PROVE  FatInv'
<1>1. UNCHANGED fatVars /\ request' = request
  BY DEF CopyPart, ReadSector
<1>2. FatTypeOK'
  BY <1>1 DEF FatInv, FatTypeOK, fatVars
<1>3. res = "copy"
  BY DEF FatInv, Standing, CopyPart, ReadSector
<1>4. TotalToRead' = TotalToRead
  BY <1>1 DEF fatVars, TotalToRead
<1>5. Standing'
  BY <1>1, <1>3, <1>4 DEF FatInv, Standing, fatVars, WrittenTo
<1> QED BY <1>2, <1>5 DEF FatInv

LEMMA EndPartInv ==
    ASSUME StreamInv, FatInv, EndPart
    PROVE  FatInv'
<1>1. /\ FatTypeOK /\ TotalToRead \in 1..left
      /\ res = "copy" /\ ~reading /\ i < nmemb
      /\ to = i * size + (size - left)
      /\ request.out = to /\ request.total = TotalToRead
      /\ WrittenTo(request.memory, to)
  BY TotalToReadRange DEF FatInv, Standing, EndPart
<1>2. /\ i \in Nat /\ nmemb \in Nat /\ size \in Nat \ {0} /\ left \in 1..size /\ to \in Nat
      /\ fileOffset \in Nat
  BY <1>1 DEF FatTypeOK
<1>3. /\ UNCHANGED <<streamVars, volume, call>>
      /\ to' = to + TotalToRead /\ fileOffset' = fileOffset + TotalToRead
      /\ cluster_to_use' = chain[0] /\ ahead' = 0
  BY DEF EndPart
<1>4. WrittenTo(memory, to + TotalToRead)
  <2>1. StreamExact
    BY StreamInvExact
  <2>2. memory = Filled(TotalToRead)
    BY <1>1, <2>1 DEF StreamExact
  <2>3. request.pos \in Nat
    BY DEF StreamInv, StreamTypeOK
  <2> SUFFICES ASSUME NEW a \in Memory
               PROVE  memory[a] # Untouched <=> a < to + TotalToRead
    BY DEF WrittenTo
  <2>4. a \in Nat
    BY StreamAssumption
  <2>5. memory[a] = IF to <= a /\ a < to + TotalToRead THEN request.pos + (a - to)
                    ELSE request.memory[a]
    BY <1>1, <2>2 DEF Filled
  <2>6. request.memory[a] # Untouched <=> a < to
    BY <1>1 DEF WrittenTo
  <2> QED BY <1>1, <1>2, <2>3, <2>4, <2>5, <2>6 DEF Untouched
<1>5. WrittenTo(memory, to)'
  BY <1>3, <1>4 DEF WrittenTo, streamVars
<1>6. ~reading'
  BY <1>1, <1>3 DEF streamVars
<1>7. CASE left > TotalToRead /\ left' = left - TotalToRead /\ res' = "walk" /\ UNCHANGED i
  <2>1. FatTypeOK'
    BY <1>1, <1>2, <1>3, <1>7 DEF FatTypeOK, volume, call, Numbers
  <2>2. to' = i' * size' + (size' - left')
    <3>1. i' = i /\ size' = size
      BY <1>3, <1>7 DEF call
    <3>2. i * size \in Nat
      BY <1>2
    <3> QED BY <1>1, <1>2, <1>3, <1>7, <3>1, <3>2
  <2>3. i' < nmemb'
    BY <1>1, <1>3, <1>7 DEF call
  <2>4. Standing'
    BY <1>5, <1>6, <1>7, <2>2, <2>3 DEF Standing, WrittenTo
  <2> QED BY <2>1, <2>4 DEF FatInv
<1>8. CASE left <= TotalToRead /\ NextElement
  <2>1. left = TotalToRead
    BY <1>1, <1>2, <1>8
  <2>2. /\ i' = i + 1 /\ left' = size
        /\ res' = IF i + 1 = nmemb THEN "ok" ELSE "walk"
        /\ size' = size /\ nmemb' = nmemb
    BY <1>3, <1>8 DEF NextElement, call
  <2>3. FatTypeOK'
    BY <1>1, <1>2, <1>3, <2>2 DEF FatTypeOK, volume, call, Numbers
  <2>4. to' = i' * size' + (size' - left')
    <3>1. (i + 1) * size = i * size + size /\ i * size \in Nat
      BY <1>2
    <3> QED BY <1>1, <1>2, <1>3, <2>1, <2>2, <3>1
  <2>5. res' = "ok" => i' = nmemb' /\ left' = size'
    BY <2>2
  <2>6. res' # "ok" => i' < nmemb'
    BY <1>1, <1>2, <2>2
  <2>7. res' # "copy"
    BY <2>2
  <2>8. Standing'
    BY <1>5, <1>6, <2>4, <2>5, <2>6, <2>7 DEF Standing, WrittenTo
  <2> QED BY <2>3, <2>8 DEF FatInv
<1> QED BY <1>7, <1>8 DEF EndPart

\* Every step of a read is one of the stream it reads with, or leaves it alone.
LEMMA StepOfStream ==
    ASSUME FatInv, [Next]_vars
    PROVE  [StreamNext]_streamVars
<1>1. CASE WalkChain
  BY <1>1 DEF WalkChain
<1>2. CASE StartPart
  <2>1. TotalToRead \in Nat /\ to \in Nat
    BY TotalToReadRange DEF FatInv, FatTypeOK
  <2>2. StartingPos(cluster_to_use) \in Nat
    BY StartingPosNat DEF FatInv
  <2>3. StartRead(StartingPos(cluster_to_use), TotalToRead, to)
    BY <1>2 DEF StartPart
  <2> QED BY <2>1, <2>2, <2>3 DEF StreamNext
<1>3. CASE CopyPart
  BY <1>3 DEF CopyPart, StreamNext
<1>4. CASE EndPart
  BY <1>4 DEF EndPart
<1>5. CASE UNCHANGED vars
  BY <1>5 DEF vars
<1> QED BY <1>1, <1>2, <1>3, <1>4, <1>5 DEF Next

\* The invariant of the composition: that of the stream, and where the read
\* stands in the file, in the chain and in the caller's memory.
THEOREM FatReadInvariant == Spec => [](StreamInv /\ FatInv)
<1>1. Init => StreamInv /\ FatInv
  BY StreamInitInv, InitFatInv DEF Init
<1>2. StreamInv /\ FatInv /\ [Next]_vars => StreamInv' /\ FatInv'
  <2> SUFFICES ASSUME StreamInv, FatInv, [Next]_vars PROVE StreamInv' /\ FatInv'
    OBVIOUS
  <2>1. StreamInv'
    <3>1. [StreamNext]_streamVars
      BY StepOfStream
    <3> QED BY <3>1, StreamStepInv
  <2>2. CASE WalkChain
    BY <2>1, <2>2, WalkChainInv
  <2>3. CASE StartPart
    BY <2>1, <2>3, StartPartInv
  <2>4. CASE CopyPart
    BY <2>1, <2>4, CopyPartInv
  <2>5. CASE EndPart
    BY <2>1, <2>5, EndPartInv
  <2>6. CASE UNCHANGED vars
    <3>1. FatInv'
      BY <2>6 DEF FatInv, FatTypeOK, Standing, WrittenTo, TotalToRead, vars, fatVars, streamVars
    <3> QED BY <2>1, <3>1
  <2> QED BY <2>2, <2>3, <2>4, <2>5, <2>6 DEF Next
<1> QED BY <1>1, <1>2, PTL DEF Spec

\* fat16_read uses the stream as disk_stream_read expects to be used: the read
\* of a file implements the stream, so what holds of the stream holds here.
THEOREM FatReadUsesStream == Spec => StreamSpec
<1>1. Init => StreamInit
  BY DEF Init
<1>2. (StreamInv /\ FatInv) /\ [Next]_vars => [StreamNext]_streamVars
  BY StepOfStream
<1> QED BY <1>1, <1>2, FatReadInvariant, PTL DEF Spec, StreamSpec

\* The stream's copy is complete up to its position at every moment of the read of
\* a file: what the stream promises alone holds under fat16_read (fat16.c:487).
THEOREM FatReadProgress == Spec => []Progress
  BY FatReadUsesStream, StreamProgress, PTL

\* Each part of a file that is read is exactly the bytes at its place on the disk.
THEOREM FatReadPartsExact == Spec => []StreamExact
  BY FatReadUsesStream, StreamReadIsExact, PTL

\* fat16_read writes all the bytes the caller asked for if it succeeds, and never
\* one behind them, whatever the walk along the chain meets.
THEOREM FatReadStaysInside == Spec => []ReadsWhatWasAsked
<1>1. StreamInv /\ FatInv => ReadsWhatWasAsked
  <2> SUFFICES ASSUME StreamInv, FatInv PROVE ReadsWhatWasAsked
    OBVIOUS
  <2>1. /\ size \in Nat \ {0} /\ nmemb \in Nat \ {0} /\ i \in 0..nmemb /\ left \in 1..size
        /\ to = i * size + (size - left) /\ to \in Nat
        /\ TotalToRead \in 1..left
    BY TotalToReadRange DEF FatInv, FatTypeOK, Standing
  <2>2. size * nmemb \in Nat /\ i * size \in Nat
    BY <2>1
  <2>3. res # "ok" => to + left <= size * nmemb
    <3> SUFFICES ASSUME res # "ok" PROVE to + left <= size * nmemb
      OBVIOUS
    <3>1. i < nmemb
      BY DEF FatInv, Standing
    <3>2. to + left = (i + 1) * size
      BY <2>1
    <3>3. i + 1 <= nmemb
      BY <2>1, <3>1
    <3>4. (i + 1) * size <= nmemb * size
      BY <2>1, <3>3
    <3> QED BY <2>1, <3>2, <3>4
  <2>4. res = "ok" => to = size * nmemb
    BY <2>1 DEF FatInv, Standing
  <2>5. ASSUME NEW k \in Memory
        PROVE  /\ k >= size * nmemb => memory[k] = Untouched
               /\ res = "ok" /\ k < size * nmemb => memory[k] # Untouched
    <3>1. k \in Nat
      BY StreamAssumption
    <3>2. CASE res # "copy"
      <4>1. memory[k] # Untouched <=> k < to
        BY <3>2 DEF FatInv, Standing, WrittenTo
      <4> QED BY <2>1, <2>2, <2>3, <2>4, <3>1, <4>1
    <3>3. CASE res = "copy"
      <4>1. /\ request.out = to /\ request.total = TotalToRead
            /\ (request.memory[k] # Untouched <=> k < to)
        BY <3>3 DEF FatInv, Standing, WrittenTo
      <4>2. copied \in Nat /\ total \in Nat /\ total = request.total - copied /\ memory = Filled(copied)
        BY DEF StreamInv, StreamTypeOK, Progress
      <4>3. copied <= TotalToRead
        BY <2>1, <4>1, <4>2
      <4>4. k >= size * nmemb => ~(to <= k /\ k < to + copied)
        BY <2>1, <2>2, <2>3, <3>1, <3>3, <4>2, <4>3
      <4>5. memory[k] = IF to <= k /\ k < to + copied
                          THEN request.pos + (k - to) ELSE request.memory[k]
        BY <4>1, <4>2 DEF Filled
      <4> QED BY <2>1, <2>2, <2>3, <3>1, <3>3, <4>1, <4>4, <4>5
    <3> QED BY <3>2, <3>3
  <2> QED BY <2>5 DEF ReadsWhatWasAsked
<1> QED BY <1>1, FatReadInvariant, PTL
-----------------------------------------------------------------------------
(* What short reads give: the bytes of the file.                             *)

Contiguous == \A k \in DOMAIN chain : chain[k] = chain[0] + k

\* the reads that need no walk along the chain
Short ==
    \/ fpos + size * nmemb <= ClusterSize
    \/ nmemb = 1 /\ fpos < ClusterSize /\ size <= ClusterSize /\ Contiguous

\* the place on the disk of the first byte of a file
First == PositionOf(chain[0])

\* the addresses below n hold the bytes of the file, counted from the first cluster
StraightTo(mem, n) == \A a \in Memory : a < n => mem[a] = First + fpos + a

\* The request lies in the file, and a short one is read from its first cluster.
InFile(n) ==
    /\ chain \in [0..(n - 1) -> Clusters]
    /\ fpos + size * nmemb <= n * ClusterSize
ShortInv ==
    /\ \E n \in Nat \ {0} : InFile(n)
    /\ fileOffset = fpos + to
    /\ size <= ClusterSize => left = size
    /\ Short => /\ cluster_to_use = chain[0] /\ ahead = 0
                /\ res = "copy" => /\ request.pos = First + fileOffset
                                   /\ StraightTo(request.memory, to)
                /\ res # "copy" => StraightTo(memory, to)

\* Inside a cluster and in the one behind it, the quotient and the remainder are known.
LEMMA FirstClusters ==
    ASSUME NEW c \in Nat \ {0}, NEW p \in Nat, p < 2 * c
    PROVE  /\ p < c => p \div c = 0 /\ p % c = p
           /\ p >= c => p \div c = 1 /\ p % c = p - c
<1>1. /\ p \div c \in Nat /\ p % c \in 0..(c - 1)
      /\ (p \div c) * c + (p % c) = p
  OBVIOUS
<1> DEFINE q == p \div c
           r == p % c
<1>2. q \in Nat /\ r \in 0..(c - 1) /\ q * c + r = p
  BY <1>1
<1> HIDE DEF q, r
<1>3. q >= 1 => q * c >= c
  BY <1>2
<1>4. q >= 2 => q * c >= 2 * c
  BY <1>2
<1>5. q < 2
  BY <1>2, <1>4
<1>6. CASE q = 0
  BY <1>2, <1>6 DEF q, r
<1>7. CASE q = 1
  BY <1>2, <1>7 DEF q, r
<1> QED BY <1>2, <1>5, <1>6, <1>7

LEMMA FirstNat == chain[0] \in Clusters => First \in Nat
<1> SUFFICES ASSUME chain[0] \in Clusters PROVE First \in Nat
  OBVIOUS
<1>1. chain[0] - NearCluster \in Nat
  BY VolumeAssumption DEF Clusters, NearCluster
<1>2. (chain[0] - NearCluster) * ClusterSize \in Nat
  BY <1>1, ClusterSizePositive
<1> QED BY <1>2 DEF First, PositionOf

\* The bytes of a short request lie one behind the other on the disk.
LEMMA ShortIsStraight ==
    ASSUME FatTypeOK, ShortInv, Short, NEW k \in Nat, k < size * nmemb
    PROVE  PlaceOf(fpos + k) = First + fpos + k
<1> DEFINE c == ClusterSize
           p == fpos + k
<1>1. c \in Nat \ {0} /\ p \in Nat /\ fpos \in Nat /\ size \in Nat /\ nmemb \in Nat
      /\ size * nmemb \in Nat /\ First \in Nat /\ chain[0] \in Clusters
  BY ClusterSizePositive, FirstNat DEF FatTypeOK
<1>2. PICK n \in Nat \ {0} : InFile(n)
  BY DEF ShortInv
<1>3. PlaceOf(p) = PositionOf(chain[p \div c]) + (p % c)
  BY DEF PlaceOf
<1> HIDE DEF c
<1>4. CASE p < c
  <2>1. p \div c = 0 /\ p % c = p
    BY <1>1, <1>4, FirstClusters
  <2> QED BY <1>1, <1>3, <2>1 DEF First
<1>5. CASE p >= c
  <2>1. nmemb = 1 /\ fpos < c /\ size <= c /\ Contiguous
    BY <1>1, <1>5 DEF Short, c
  <2>2. p < 2 * c
    BY <1>1, <2>1
  <2>3. p \div c = 1 /\ p % c = p - c
    BY <1>1, <1>5, <2>2, FirstClusters
  <2>4. n > 1
    BY <1>1, <1>2, <1>5, <2>1 DEF InFile, c
  <2>5. chain[1] = chain[0] + 1
    BY <1>2, <2>1, <2>4 DEF Contiguous, InFile
  <2>6. PositionOf(chain[1]) = First + c
    <3>1. chain[0] - NearCluster \in Int /\ chain[0] \in Int /\ NearCluster \in Int
      BY <1>1, VolumeAssumption DEF Clusters, NearCluster
    <3>2. ((chain[0] - NearCluster) + 1) * c = (chain[0] - NearCluster) * c + c
      BY <1>1, <3>1
    <3>3. chain[1] - NearCluster = (chain[0] - NearCluster) + 1
      BY <2>5, <3>1
    <3> QED BY <3>2, <3>3 DEF First, PositionOf, c
  <2> QED BY <1>1, <1>3, <2>3, <2>6
<1> QED BY <1>1, <1>4, <1>5

\* A level of a short read that has not ended begins in the first cluster.
LEMMA ShortStarts ==
    ASSUME FatInv, ShortInv, Short, res # "ok"
    PROVE  fileOffset < ClusterSize /\ to + left <= size * nmemb
<1>1. /\ size \in Nat \ {0} /\ nmemb \in Nat \ {0} /\ i \in Nat /\ i < nmemb /\ left \in 1..size
      /\ to = i * size + (size - left) /\ to \in Nat /\ fpos \in Nat
      /\ fileOffset = fpos + to
  BY DEF FatInv, FatTypeOK, Standing, ShortInv
<1>2. to + left <= size * nmemb
  <2>1. to + left = (i + 1) * size
    BY <1>1
  <2>2. (i + 1) * size <= nmemb * size
    BY <1>1
  <2> QED BY <1>1, <2>1, <2>2
<1>3. CASE fpos + size * nmemb <= ClusterSize
  <2>1. size * nmemb \in Nat
    BY <1>1
  <2> QED BY <1>1, <1>2, <1>3, <2>1, ClusterSizePositive
<1>4. CASE nmemb = 1 /\ fpos < ClusterSize /\ size <= ClusterSize
  <2>1. left = size /\ i = 0
    BY <1>1, <1>4 DEF ShortInv
  <2>2. to = 0
    BY <1>1, <2>1
  <2> QED BY <1>1, <1>2, <1>4, <2>2
<1> QED BY <1>3, <1>4 DEF Short

LEMMA InitShortInv == Init => ShortInv
<1> SUFFICES ASSUME Init PROVE ShortInv
  OBVIOUS
<1>1. PICK n \in 1..(LastCluster - 1) : InFile(n)
  BY DEF Init, InFile
<1>2. \E m \in Nat \ {0} : InFile(m)
  BY <1>1, VolumeAssumption
<1>3. fpos \in Nat
  BY VolumeAssumption DEF Init
<1>4. StraightTo(memory, to)
  BY StreamAssumption DEF Init, StraightTo
<1> QED BY <1>2, <1>3, <1>4 DEF Init, ShortInv

\* A short read does not walk.
LEMMA WalkChainShort ==
    ASSUME FatInv, ShortInv, WalkChain
    PROVE  ShortInv'
<1>1. /\ UNCHANGED <<memory, request, chain, fpos, size, nmemb, fileOffset, left, to>>
      /\ res = "walk" /\ ahead < clusters_ahead
  BY DEF WalkChain, streamVars, volume, call, place
<1>2. ~Short
  <2> SUFFICES ASSUME Short PROVE FALSE
    OBVIOUS
  <2>1. fileOffset < ClusterSize /\ fileOffset \in Nat
    BY <1>1, ShortStarts DEF FatInv, FatTypeOK
  <2>2. fileOffset \div ClusterSize = 0
    BY <2>1, ClusterSizePositive, FirstClusters
  <2> QED BY <1>1, <2>2 DEF ShortInv, clusters_ahead
<1>3. ~Short'
  BY <1>1, <1>2 DEF Short, Contiguous
<1>4. (\E n \in Nat \ {0} : InFile(n))'
  BY <1>1 DEF ShortInv, InFile
<1> QED BY <1>1, <1>3, <1>4 DEF ShortInv

\* A part of a short read is sought at its place in the file.
LEMMA StartPartShort ==
    ASSUME FatInv, ShortInv, StartPart
    PROVE  ShortInv'
<1>1. /\ UNCHANGED <<chain, fpos, size, nmemb, fileOffset, left, to, cluster_to_use, ahead>>
      /\ res = "walk" /\ res' = "copy"
      /\ request'.pos = StartingPos(cluster_to_use) /\ request'.memory = memory
  BY DEF StartPart, StartRead, volume, call, place, walk
<1>2. (\E n \in Nat \ {0} : InFile(n))'
  BY <1>1 DEF ShortInv, InFile
<1>3. Short' => Short /\ First' = First
  BY <1>1 DEF Short, Contiguous, First, PositionOf
<1>4. ASSUME Short
      PROVE  StartingPos(cluster_to_use) = First + fileOffset /\ StraightTo(memory, to)
  <2>1. fileOffset < ClusterSize /\ fileOffset \in Nat
    BY <1>1, <1>4, ShortStarts DEF FatInv, FatTypeOK
  <2>2. fileOffset % ClusterSize = fileOffset
    BY <2>1, ClusterSizePositive, FirstClusters
  <2> QED BY <1>1, <1>4, <2>2 DEF ShortInv, StartingPos, First
<1>5. Short' => /\ cluster_to_use' = chain'[0] /\ ahead' = 0
                /\ request'.pos = First' + fileOffset'
                /\ StraightTo(request.memory, to)'
  BY <1>1, <1>3, <1>4 DEF ShortInv, StraightTo
<1> QED BY <1>1, <1>2, <1>5 DEF ShortInv

\* The stream copies a part without a change to the read above it.
LEMMA CopyPartShort ==
    ASSUME FatInv, ShortInv, CopyPart
    PROVE  ShortInv'
<1>1. UNCHANGED fatVars /\ request' = request /\ res = "copy"
  BY DEF FatInv, Standing, CopyPart, ReadSector
<1> QED BY <1>1 DEF ShortInv, InFile, Short, Contiguous, First, PositionOf, StraightTo, fatVars

\* What a part has copied are the next bytes of the file.
LEMMA EndPartShort ==
    ASSUME StreamInv, FatInv, ShortInv, EndPart
    PROVE  ShortInv'
<1>1. /\ UNCHANGED <<memory, request, chain, fpos, size, nmemb>>
      /\ res = "copy" /\ res' # "copy" /\ ~reading
      /\ fileOffset' = fileOffset + TotalToRead /\ to' = to + TotalToRead
      /\ cluster_to_use' = chain[0] /\ ahead' = 0
  BY DEF EndPart, NextElement, streamVars, volume, call
<1>2. /\ TotalToRead \in 1..left /\ left \in 1..size /\ size \in Nat /\ to \in Nat /\ fpos \in Nat
      /\ fileOffset = fpos + to /\ chain[0] \in Clusters
  BY TotalToReadRange DEF FatInv, FatTypeOK, ShortInv
<1>3. fileOffset' = fpos' + to'
  BY <1>1, <1>2
<1>4. size' <= ClusterSize => left' = size'
  <2>1. CASE left > TotalToRead /\ left' = left - TotalToRead
    <3>1. left > ClusterSize
      BY <1>2, <2>1, ClusterSizePositive DEF TotalToRead
    <3> QED BY <1>1, <1>2, <3>1, ClusterSizePositive
  <2>2. CASE NextElement
    BY <1>1, <2>2 DEF NextElement
  <2> QED BY <2>1, <2>2 DEF EndPart
<1>5. (\E n \in Nat \ {0} : InFile(n))'
  BY <1>1 DEF ShortInv, InFile
<1>6. Short' => Short /\ First' = First
  BY <1>1 DEF Short, Contiguous, First, PositionOf
<1>7. ASSUME Short PROVE StraightTo(memory, to + TotalToRead)
  <2>1. /\ request.pos = First + fileOffset /\ StraightTo(request.memory, to)
        /\ request.out = to /\ request.total = TotalToRead
    BY <1>1, <1>7 DEF FatInv, Standing, ShortInv
  <2>2. memory = Filled(TotalToRead)
    BY <1>1, <2>1, StreamInvExact DEF StreamExact
  <2> SUFFICES ASSUME NEW a \in Memory, a < to + TotalToRead
               PROVE  memory[a] = First + fpos + a
    BY DEF StraightTo
  <2>3. memory[a] = IF to <= a /\ a < to + TotalToRead THEN request.pos + (a - to)
                    ELSE request.memory[a]
    BY <2>1, <2>2 DEF Filled
  <2>4. a \in Nat /\ First \in Nat
    BY <1>2, StreamAssumption, FirstNat
  <2>5. CASE a < to
    BY <1>2, <2>1, <2>3, <2>4, <2>5 DEF StraightTo
  <2>6. CASE a >= to
    BY <1>2, <2>1, <2>3, <2>4, <2>6
  <2> QED BY <1>2, <2>4, <2>5, <2>6
<1>8. Short' => StraightTo(memory, to)'
  BY <1>1, <1>6, <1>7 DEF StraightTo
<1> QED BY <1>1, <1>3, <1>4, <1>5, <1>8 DEF ShortInv

\* A short read that succeeds has the bytes of the file.
LEMMA ShortIsExact ==
    ASSUME FatInv, ShortInv, Short, res = "ok"
    PROVE  Exact
<1>1. /\ WrittenTo(memory, to) /\ StraightTo(memory, to)
      /\ to = size * nmemb
  <2>1. /\ i = nmemb /\ left = size /\ to = i * size + (size - left)
        /\ size \in Nat /\ nmemb \in Nat
    BY DEF FatInv, FatTypeOK, Standing
  <2>2. nmemb * size \in Nat /\ nmemb * size = size * nmemb
    BY <2>1
  <2>3. to = size * nmemb
    BY <2>1, <2>2
  <2> QED BY <2>3 DEF FatInv, Standing, ShortInv
<1> SUFFICES ASSUME NEW k \in Memory
             PROVE  memory[k] = IF k < size * nmemb THEN PlaceOf(fpos + k) ELSE Untouched
  BY DEF Exact
<1>2. CASE k < size * nmemb
  <2>1. k \in Nat /\ FatTypeOK
    BY StreamAssumption DEF FatInv
  <2>2. PlaceOf(fpos + k) = First + fpos + k
    BY <1>2, <2>1, ShortIsStraight
  <2> QED BY <1>1, <1>2, <2>2 DEF StraightTo
<1>3. CASE ~(k < size * nmemb)
  BY <1>1, <1>3 DEF WrittenTo
<1> QED BY <1>2, <1>3

LEMMA ShortStepInv ==
    ASSUME StreamInv, FatInv, ShortInv, [Next]_vars
    PROVE  ShortInv'
<1>1. CASE WalkChain
  BY <1>1, WalkChainShort
<1>2. CASE StartPart
  BY <1>2, StartPartShort
<1>3. CASE CopyPart
  BY <1>3, CopyPartShort
<1>4. CASE EndPart
  BY <1>4, EndPartShort
<1>5. CASE UNCHANGED vars
  <2>1. UNCHANGED <<memory, request, chain, fpos, size, nmemb, fileOffset, left, to,
                    cluster_to_use, ahead, res>>
    BY <1>5 DEF vars, fatVars, streamVars
  <2> QED BY <2>1 DEF ShortInv, InFile, Short, Contiguous, First, PositionOf, StraightTo
<1> QED BY <1>1, <1>2, <1>3, <1>4, <1>5 DEF Next

\* A short read stays in the file's first cluster, or goes straight on behind it, and
\* the bytes before the level's place in the caller's memory are those of the file.
THEOREM ShortReadInvariant == Spec => []ShortInv
<1>1. Init => ShortInv
  BY InitShortInv
<1>2. (StreamInv /\ FatInv) /\ ShortInv /\ [Next]_vars => ShortInv'
  BY ShortStepInv
<1> QED BY <1>1, <1>2, FatReadInvariant, PTL DEF Spec

\* Where the walk along the chain is not needed, a read that succeeds gives the bytes
\* of the file and writes no other, for every volume, chain and request: within the
\* first cluster, and one element that begins there, if the clusters lie one behind
\* the other (fat16.c:465-503).
THEOREM ShortReadsGiveTheFile == Spec => []ReadsTheFile
<1>1. FatInv /\ ShortInv => ReadsTheFile
  <2> SUFFICES ASSUME FatInv, ShortInv PROVE ReadsTheFile
    OBVIOUS
  <2>1. res = "ok" /\ Short => Exact
    BY ShortIsExact
  <2> QED BY <2>1 DEF ReadsTheFile, Short, Contiguous
<1> QED BY <1>1, FatReadInvariant, ShortReadInvariant, PTL
=============================================================================
