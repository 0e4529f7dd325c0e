------------------------------- MODULE FatRead -------------------------------
(***************************************************************************)
(* Reading a file (fs/fat/fat16.c:375-510, 718-739, fs/file.c:260-279): the  *)
(* walk along the cluster chain, the recursion of                           *)
(* fat16_read_internal_from_stream, and under each of its levels the read of *)
(* the disk stream, sector by sector.  Positions are counted from one        *)
(* cluster before the data, where cluster 1 would lie: the clusters of the   *)
(* data are numbered from 2.                                                 *)
(***************************************************************************)
EXTENDS DiskStream

CONSTANTS
    SectorsPerCluster,
    LastCluster,        \* the data clusters of the volume are 2..LastCluster
    MaxStart,           \* bound on the position a read starts at
    MaxCount            \* bound on nmemb

ClusterSize == SectorsPerCluster * SectorSize

ASSUME VolumeAssumption ==
    /\ SectorsPerCluster \in Nat \ {0}
    /\ LastCluster \in Nat /\ LastCluster >= 2
    /\ MaxStart \in Nat /\ MaxCount \in Nat \ {0}

Clusters == 2..LastCluster
NearCluster == 1                \* the number before the data clusters
FarCluster == LastCluster + 1   \* any cluster number past the volume, as 0xFFF8
Numbers == Clusters \cup {NearCluster, FarCluster}
Stop == 0                       \* an entry the walk refuses: 0x000, 0xFF0,
                                \* 0xFF6, 0xFF7, 0xFF8, 0xFFF
Entries == Numbers \cup {Stop}
EIO == -1

VARIABLES
    chain,              \* the clusters of the file, from cluster 0 on
    word,               \* the 16 bits fat16_get_fat_entry reads for each cluster
    fpos, size, nmemb,  \* the request: fat_file_descriptor_t.pos, fread's arguments
    i,                  \* the element fat16_read is at
    fileOffset, left, to,   \* offset, total and out of this level of the recursion
    cluster_to_use, ahead,  \* the walk of this level, and how far it has come
    res                 \* "walk", "copy", then "ok" or "EIO"

fatVars == <<chain, word, fpos, size, nmemb, i, fileOffset, left, to,
             cluster_to_use, ahead, res>>
volume == <<chain, word>>
call == <<fpos, size, nmemb>>
place == <<i, fileOffset, left, to>>
walk == <<cluster_to_use, ahead>>
vars == <<streamVars, fatVars>>

\* The position fat16_get_fat_entry seeks is fat_table_position * (cluster * 2),
\* where the table has fat_table_position + cluster * 2: the word lies in the
\* data area, and can be anything.
Init ==
    /\ StreamInit
    /\ \E n \in 1..(LastCluster - 1) :
        /\ chain \in [0..(n - 1) -> Clusters]
        /\ \A j, k \in 0..(n - 1) : j # k => chain[j] # chain[k]
        /\ fpos \in 0..MaxStart
        /\ size \in 1..(n * ClusterSize)
        /\ nmemb \in 1..MaxCount
        /\ fpos + size * nmemb <= n * ClusterSize
    /\ word \in [Numbers -> Entries]
    /\ i = 0
    /\ fileOffset = fpos /\ left = size /\ to = 0
    /\ cluster_to_use = chain[0] /\ ahead = 0
    /\ res = "walk"

\* fat16_cluster_to_sector, in bytes
PositionOf(cluster) == (cluster - NearCluster) * ClusterSize

\* Mutant: the offset in the cluster is forgotten.
ClusterStart(cluster) == PositionOf(cluster)
StartingPos(cluster) == PositionOf(cluster) + (fileOffset % ClusterSize)

\* Mutant: a level always reads a cluster.
WholeCluster == ClusterSize
TotalToRead == IF left > ClusterSize THEN ClusterSize ELSE left

EndOfChain == res' = "EIO" /\ UNCHANGED walk

clusters_ahead == fileOffset \div ClusterSize

\* One step of the loop of fat16_get_cluster_for_offset; an entry it refuses
\* ends the whole read.
WalkChain ==
    /\ res = "walk" /\ ahead < clusters_ahead
    /\ LET entry == word[cluster_to_use]
       IN  \/ entry = Stop /\ EndOfChain
           \/ /\ entry # Stop
              /\ cluster_to_use' = entry /\ ahead' = ahead + 1
              /\ UNCHANGED res
    /\ UNCHANGED <<streamVars, volume, call, place>>

\* a level that has found its cluster seeks and calls the stream
StartPart ==
    /\ res = "walk" /\ ahead = clusters_ahead
    /\ StartRead(StartingPos(cluster_to_use), TotalToRead, to)
    /\ res' = "copy"
    /\ UNCHANGED <<volume, call, place, walk>>

\* the stream's recursion below the level
CopyPart == ReadSector /\ UNCHANGED fatVars

\* the loop of fat16_read goes on to the next element of the request
NextElement ==
    /\ i' = i + 1
    /\ left' = size
    /\ res' = IF i + 1 = nmemb THEN "ok" ELSE "walk"

\* the stream has returned: the next level, or the next element of fat16_read
EndPart ==
    /\ res = "copy" /\ ~reading
    /\ fileOffset' = fileOffset + TotalToRead
    /\ to' = to + TotalToRead
    /\ cluster_to_use' = chain[0] /\ ahead' = 0
    /\ \/ left > TotalToRead /\ left' = left - TotalToRead /\ res' = "walk" /\ UNCHANGED i
       \/ left <= TotalToRead /\ NextElement
    /\ UNCHANGED <<streamVars, volume, call>>

Next == WalkChain \/ StartPart \/ CopyPart \/ EndPart

Spec == Init /\ [][Next]_vars
-----------------------------------------------------------------------------
\* the place on the disk of byte k of the file
PlaceOf(k) == PositionOf(chain[k \div ClusterSize]) + (k % ClusterSize)

Exact == \A k \in Memory :
            memory[k] = IF k < size * nmemb THEN PlaceOf(fpos + k) ELSE Untouched

\* A read that succeeds writes as many bytes as the caller asked for, and none
\* behind them, whatever the table holds; one that fails writes no more than a
\* part of them (fat16.c:465-503, 718-739).
ReadsWhatWasAsked ==
    /\ \A k \in Memory : k >= size * nmemb => memory[k] = Untouched
    /\ res = "ok" => \A k \in Memory : k < size * nmemb => memory[k] # Untouched

\* What is read is the file's own contents as long as the walk along the chain
\* is not needed: for a read that stays in the first cluster, and for one
\* element of at most a cluster that begins there, if the file is contiguous.
\* The second reads past the end of the first cluster, as total_to_read does not
\* count the offset in the cluster (fat16.c:477-481).
ReadsTheFile ==
    LET bytes == size * nmemb
        contiguous == \A k \in DOMAIN chain : chain[k] = chain[0] + k
    IN  res = "ok"
        /\ \/ fpos + bytes <= ClusterSize
           \/ nmemb = 1 /\ fpos < ClusterSize /\ size <= ClusterSize /\ contiguous
        => Exact

\* fat16.c:419 "Gets the correct cluster to use based on the starting cluster and
\* the offset": the cluster of the chain the offset lies in.
CorrectCluster == res = "walk" => cluster_to_use = chain[ahead]
=============================================================================
