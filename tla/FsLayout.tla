------------------------------ MODULE FsLayout ------------------------------
(***************************************************************************)
(* Where the file-system tool writes (tools/fs_driver/main.c).  It computes *)
(* in 32-bit bytes; all its sizes are whole sectors, so that the model      *)
(* counts sectors, modulo 2^32 / 512.                                       *)
(***************************************************************************)
EXTENDS Integers, Sequences

SectorWrap == 2^23
InodeTable == 256                     \* 1024 inodes of 128 bytes
Block == 8                            \* 4096 bytes
BlockPool == Block * 2^12
Pool == InodeTable + BlockPool
LagorType == 49                       \* 0x31
Unset == [type |-> -1, first |-> -1, sectors |-> -1]

\* The entries up to the first of type 0; the last of Lagor's type is taken.
Scanned(table) ==
    {i \in DOMAIN table : \A j \in 1 .. i : table[j].type # 0}
Found(table) == {i \in Scanned(table) : table[i].type = LagorType}
FindPartition(table) ==
    IF Found(table) = {} THEN Unset
    ELSE table[CHOOSE i \in Found(table) : \A j \in Found(table) : j <= i]

\* The superblock is taken off, the rest divided into pools.
TotalSize(part) == ((part.sectors % SectorWrap) - 1) % SectorWrap
TotUnits(part) == TotalSize(part) \div Pool

\* lseek to a sector of the partition: the sum wraps.
Seek(part, sector) == (part.first + sector) % SectorWrap

\* Mutant: the skip to the next inode table forgets the table just written.
BugTableStart(part, u) == Seek(part, 1) + u * BlockPool

\* The inode table of pool u: written, then the blocks are skipped, from where it ends.
TableStart(part, u) == Seek(part, 1) + u * Pool

\* A block of the first pool.
BlockStart(part, n) == Seek(part, 1 + InodeTable + n * Block)

\* What the tool writes, in this order: superblock, inode tables, the first sector of
\* the first table again (two inodes), the root directory and the first file.
Written(from, n) == [from |-> from, to |-> from + n - 1]
Superblock(part) == Written(Seek(part, 0), 1)
Tables(part) == {Written(TableStart(part, u), InodeTable) : u \in 0 .. TotUnits(part) - 1}
FirstInodes(part) == Written(Seek(part, 1), 1)
Blocks(part) == {Written(BlockStart(part, n), 1) : n \in {1, 2}}

=============================================================================
