---------------------------- MODULE CommandsProofs ----------------------------
(***************************************************************************)
(* What a command does to the modem and to its files, for every command    *)
(* line, every disk and list of documents, every number of sectors and of  *)
(* retries, and wherever a failure strikes:                                *)
(*   FileIsPrefixHolds  a file that is read holds what the partition holds *)
(*   CheckedFirstHolds  nothing is changed before all is loaded and checked*)
(*   OthersKeptHolds    what nothing asks for is kept                      *)
(*   ExitIsTrueHolds    a command that succeeds has done what it was asked *)
(***************************************************************************)
EXTENDS Commands, SequenceTheorems, FiniteSetTheorems, WellFoundedInduction, TLAPS
-----------------------------------------------------------------------------
(* The inductive invariant.                                                *)

\* The first n halves of a partition.
Held(part, n) == [k \in 1..n |-> << part, k >>]

\* A file on the way: complete sectors up to `done', where the next write
\* goes, and perhaps more behind that from a read that broke off.
Partial(part, n, d, l) ==
    [open |-> TRUE, data |-> Held(part, n), at |-> 2 * d, done |-> d, left |-> l]

Reading == pc = "work" /\ steps # << >> /\ Do.do = "read"

FileHeld ==
    file = NoFile \/
        \E n \in 0..(2 * Sectors), d \in 0..Sectors, l \in Int :
            2 * d <= n /\ file = Partial(Do.part, n, d, l)

IInv ==
    /\ file.open => Reading
    /\ FileHeld
    /\ \A part \in DOMAIN saved : saved[part] = Image(part)
-----------------------------------------------------------------------------
(* Reading into the file.                                                  *)

\* What is held is a sequence as long as it says.
LEMMA HeldIsSequence ==
    ASSUME NEW part, NEW n \in Nat
    PROVE  Held(part, n) \in Seq({part} \X Nat) /\ Len(Held(part, n)) = n
<1>1. Held(part, n) \in [1..n -> {part} \X Nat]
  BY DEF Held
<1>2. Held(part, n) \in Seq({part} \X Nat)
  BY <1>1, SeqDef
<1> QED
  BY <1>1, <1>2, LenProperties

\* Writing m halves behind the complete sectors leaves a beginning of the
\* partition, whatever an earlier attempt left there.
LEMMA WrittenIsHeld ==
    ASSUME NEW part, NEW n \in 0..(2 * Sectors), NEW d \in 0..Sectors, NEW l \in Int,
           2 * d <= n, NEW m \in 0..(2 * (Sectors - d))
    PROVE  Written(Partial(part, n, d, l), part, m)
              = Held(part, IF 2 * d + m > n THEN 2 * d + m ELSE n)
<1> DEFINE f == Partial(part, n, d, l)
           top == IF 2 * d + m > n THEN 2 * d + m ELSE n
<1>1. f.at = 2 * d /\ f.done = d /\ f.data = Held(part, n) /\ Len(f.data) = n
  <2>1. n \in Nat
    BY PartitionConstants DEF PartitionConstants
  <2> QED
    BY <2>1, HeldIsSequence DEF Partial
<1>2. top \in 0..(2 * Sectors)
  BY PartitionConstants DEF PartitionConstants
<1>3. ASSUME NEW k \in 1..top
      PROVE  (IF k > f.at /\ k <= f.at + m THEN Image(part)[2 * f.done + k - f.at]
              ELSE f.data[k]) = << part, k >>
  <2>1. CASE k > f.at /\ k <= f.at + m
    <3>1. 2 * f.done + k - f.at = k /\ k \in 1..(2 * Sectors)
      BY <1>1, <1>2, PartitionConstants DEF PartitionConstants
    <3> QED
      BY <2>1, <3>1 DEF Image
  <2>2. CASE ~(k > f.at /\ k <= f.at + m)
    <3>1. k \in 1..n
      BY <1>1, <2>2, PartitionConstants DEF PartitionConstants
    <3> QED
      BY <1>1, <2>2, <3>1 DEF Held
  <2> QED
    BY <2>1, <2>2
<1> HIDE DEF f, top
<1>4. Written(f, part, m) =
        [k \in 1..top |-> IF k > f.at /\ k <= f.at + m
                          THEN Image(part)[2 * f.done + k - f.at] ELSE f.data[k]]
  BY <1>1 DEF Written, top
<1>5. Written(f, part, m) = Held(part, top)
  BY <1>3, <1>4 DEF Held
<1> QED
  BY <1>5 DEF f, top
-----------------------------------------------------------------------------
(* What the steps do with the file.                                        *)

Handles == OpenFile \/ ReadSectors \/ ReadBreaks \/ HostDiskFull

\* A step that has nothing to do with a file is not taken while one is read.
Apart == ~Reading /\ UNCHANGED << file, saved >>

LEMMA TablesApart ==
    ASSUME Tables
    PROVE  Apart
<1> USE DEF Apart, Reading, dataVars, Tabled, GptStep, Scans, NandCall
<1>1. CASE UseCache
  BY <1>1 DEF UseCache
<1>2. CASE HeaderUnread \/ HeaderBlank \/ HeaderInvalid
  BY <1>2 DEF HeaderUnread, HeaderBlank, HeaderInvalid
<1>3. CASE EntriesRead \/ EntriesUnread \/ EntriesPrinted
  BY <1>3 DEF EntriesRead, EntriesUnread, EntriesPrinted
<1>4. CASE NandTable \/ NandPrint \/ NandNoMibib \/ NandUnread
  BY <1>4 DEF NandTable, NandPrint, NandNoMibib, NandUnread
<1> QED
  BY <1>1, <1>2, <1>3, <1>4 DEF Tables

LEMMA StepsApart ==
    ASSUME PartitionStep
    PROVE  Apart \/ Handles
<1> USE DEF Apart, Reading, dataVars, Busy
<1>1. CASE Tables
  BY <1>1, TablesApart
<1>2. ASSUME NEW onNand, NEW then, WithLabel(onNand, then) \/ ForEach(onNand, then)
      PROVE  Apart
  BY <1>2 DEF WithLabel, ForEach
<1>3. CASE \/ GptReadPartition \/ GptReadToDir \/ GptErasePartition \/ GptWritePartition
           \/ GptReadAll \/ GptEraseAll
  BY <1>2, <1>3 DEF GptReadPartition, GptReadToDir, GptErasePartition, GptWritePartition,
                    GptReadAll, GptEraseAll
<1>4. CASE \/ NandReadPartition \/ NandReadToDir \/ NandErasePartition \/ NandWritePartition
           \/ NandReadAll \/ NandEraseAll
  BY <1>2, <1>4 DEF NandReadPartition, NandReadToDir, NandErasePartition,
                    NandWritePartition, NandReadAll, NandEraseAll
<1>5. CASE GptMakeXml \/ NandMakeXml
  BY <1>5 DEF GptMakeXml, NandMakeXml, XmlFor
<1>6. CASE NoDirectory \/ ActiveSlot \/ SetSlot \/ Check
  BY <1>6 DEF NoDirectory, ActiveSlot, SetSlot, Check
<1>7. CASE StorageInfo \/ CountLuns \/ Probe
  BY <1>7 DEF StorageInfo, CountLuns, Probe
<1>8. CASE Backup \/ Erase \/ Patch \/ Program \/ ImageMissing \/ Power
  BY <1>8 DEF Backup, Erase, Patch, Program, ImageMissing, Power, Changes
<1> QED
  BY <1>1, <1>3, <1>4, <1>5, <1>6, <1>7, <1>8 DEF PartitionStep, Handles

\* Only the four steps of a read touch its file.
LEMMA OthersApart ==
    ASSUME Next
    PROVE  Apart \/ (Handles /\ PartitionStep) \/ UNCHANGED vars
<1> USE DEF Apart, Reading, Busy, work, partVars, dataVars
<1>1. CASE Start \/ Load
  BY <1>1 DEF Start, Load, LoadDocument, CheckFusing, VerifyMd5, Hang
<1>2. CASE Reach
  <2>1. CASE ScanOther \/ ScanClaims \/ ScanCannotClaim \/ DiagSwitch \/ DiagToEdl
    BY <1>2, <2>1 DEF Reach, ScanOther, ScanClaims, ScanCannotClaim, DiagSwitch, DiagToEdl
  <2>2. CASE PcieWrite \/ PcieUploads \/ PcieFails(PrepareFailed) \/ ComPrepare
    BY <1>2, <2>2 DEF Reach, PcieWrite, PcieUploads, PcieFails, ComPrepare
  <2>3. CASE PcieOpens \/ OpenFails(Fails("exit")) \/ SaharaRuns(AfterSahara)
              \/ SaharaFails(Fails("exit"))
    BY <1>2, <2>3 DEF Reach, PcieOpens, OpenFails, SaharaRuns, SaharaFails
  <2> QED
    BY <1>2, <2>1, <2>2, <2>3 DEF Reach
<1>3. CASE User
  BY <1>3 DEF User, Plug
<1>4. CASE Configure \/ Worked \/ Close
  BY <1>4 DEF Configure, Worked, Close
<1>5. CASE Resolve \/ PlanOps
  BY <1>5 DEF Resolve, PlanOps
<1>6. CASE SendUfs \/ SetBootable \/ LunInfo
  BY <1>6 DEF SendUfs, SetBootable, LunInfo
<1>7. CASE Work
  BY <1>7, StepsApart DEF Work
<1> QED
  BY <1>1, <1>2, <1>3, <1>4, <1>5, <1>6, <1>7 DEF Next, Run
-----------------------------------------------------------------------------
(* The invariant is kept.                                                  *)

\* A file that is open is being read.
LEMMA OpenIsHeld ==
    ASSUME IInv, file.open
    PROVE  \E n \in 0..(2 * Sectors), d \in 0..Sectors, l \in Int :
              2 * d <= n /\ file = Partial(Do.part, n, d, l)
  BY DEF IInv, FileHeld, NoFile

\* There is no file but an open one.
LEMMA ClosedIsNone ==
    ASSUME IInv, ~file.open
    PROVE  file = NoFile
  BY DEF IInv, FileHeld, Partial

\* When the file is closed only what was saved matters.
LEMMA ClosingPreserves ==
    ASSUME file' = NoFile,
           \A part \in DOMAIN saved' : saved'[part] = Image(part)
    PROVE  IInv'
  BY DEF IInv, FileHeld, NoFile, Image

\* As long as the read goes on, its file is a beginning of the partition.
LEMMA ReadingPreserves ==
    ASSUME IInv, Reading, UNCHANGED << pc, steps, saved >>,
           NEW n \in 0..(2 * Sectors), NEW d \in 0..Sectors, NEW l \in Int,
           2 * d <= n, file' = Partial(Do.part, n, d, l)
    PROVE  IInv'
<1>1. Do' = Do
  BY DEF Do
<1>2. FileHeld'
  BY <1>1 DEF FileHeld, Partial, Held
<1>3. Reading'
  BY <1>1 DEF Reading
<1> QED
  BY <1>2, <1>3 DEF IInv, Image

\* What is read is saved under its partition, beside what was saved before.
LEMMA SavedBeside ==
    ASSUME NEW part, \A q \in DOMAIN saved : saved[q] = Image(q)
    PROVE  \A q \in DOMAIN Put(saved, part, Image(part)) :
              Put(saved, part, Image(part))[q] = Image(q)
  BY DEF Put

\* The four steps of a read keep the invariant.
LEMMA ReadPreserves ==
    ASSUME IInv, Handles
    PROVE  IInv'
<1> USE PartitionConstants DEF PartitionConstants
<1>1. CASE OpenFile
  <2>1. saved' = saved /\ Reading /\ ~file.open
    BY <1>1 DEF OpenFile, Busy, Reading
  <2>2. CASE file' = file
    BY <2>1, <2>2, ClosedIsNone, ClosingPreserves DEF IInv
  <2>3. CASE /\ file' = [open |-> TRUE, data |-> << >>, at |-> 0, done |-> 0, left |-> Retries]
             /\ UNCHANGED << pc, steps >>
    <3>1. Held(Do.part, 0) = << >>
      BY DEF Held
    <3>2. 2 * 0 = 0
      OBVIOUS
    <3>3. file' = Partial(Do.part, 0, 0, Retries)
      BY <2>3, <3>1, <3>2, Zenon DEF Partial
    <3>4. 0 \in 0..(2 * Sectors) /\ 0 \in 0..Sectors /\ Retries \in Int /\ 2 * 0 <= 0
      OBVIOUS
    <3> QED
      BY <2>1, <2>3, <3>3, <3>4, ReadingPreserves
  <2> QED
    BY <1>1, <2>2, <2>3 DEF OpenFile
<1>2. CASE ReadSectors
  <2>1. PICK n \in 0..(2 * Sectors), d \in 0..Sectors, l \in Int :
            2 * d <= n /\ file = Partial(Do.part, n, d, l)
    BY <1>2, OpenIsHeld DEF ReadSectors
  <2>2. Left(file) = 2 * (Sectors - d)
    BY <2>1 DEF Left, Partial
  <2>3. Left(file) \in 0..(2 * (Sectors - d))
        /\ 2 * Sectors = (IF 2 * d + Left(file) > n THEN 2 * d + Left(file) ELSE n)
    BY <2>1, <2>2
  <2>4. Written(file, Do.part, Left(file)) = Held(Do.part, 2 * Sectors)
    BY <2>1, <2>3, WrittenIsHeld
  <2>5. Written(file, Do.part, Left(file)) = Image(Do.part)
    BY <2>4 DEF Held, Image
  <2>6. saved' = Put(saved, Do.part, Written(file, Do.part, Left(file)))
        /\ file' = NoFile
    BY <1>2 DEF ReadSectors
  <2>7. \A part \in DOMAIN saved' : saved'[part] = Image(part)
    BY <2>5, <2>6, SavedBeside DEF IInv
  <2> QED
    BY <2>6, <2>7, ClosingPreserves
<1>3. CASE ReadBreaks
  <2>1. saved' = saved /\ Reading
    BY <1>3 DEF ReadBreaks, Busy, Reading
  <2>2. CASE file' = NoFile
    BY <2>1, <2>2, ClosingPreserves DEF IInv
  <2>3. ASSUME file' # NoFile
        PROVE  IInv'
    <3>1. PICK n \in 0..(2 * Sectors), d \in 0..Sectors, l \in Int :
              2 * d <= n /\ file = Partial(Do.part, n, d, l)
      BY <1>3, OpenIsHeld DEF ReadBreaks
    <3>2. PICK m \in 0..Left(file) :
             /\ file' = Resumed(file, Written(file, Do.part, m), file.at + m)
             /\ UNCHANGED << pc, steps >>
      BY <1>3, <2>3 DEF ReadBreaks
    <3>3. file.at = 2 * d /\ m \in 0..(2 * (Sectors - d))
      BY <3>1, <3>2 DEF Left, Partial
    <3> DEFINE top == IF 2 * d + m > n THEN 2 * d + m ELSE n
               e == (2 * d + m) \div 2
    <3>4. Written(file, Do.part, m) = Held(Do.part, top)
      BY <3>1, <3>3, WrittenIsHeld
    <3>5. /\ top \in 0..(2 * Sectors) /\ e \in 0..Sectors /\ l - 1 \in Int
          /\ 2 * e <= top
      BY <3>1, <3>3
    <3>6. file' = Partial(Do.part, top, e, l - 1)
      BY <3>1, <3>2, <3>3, <3>4 DEF Resumed, Partial
    <3> HIDE DEF top, e
    <3> QED
      BY <2>1, <3>2, <3>5, <3>6, ReadingPreserves
  <2> QED
    BY <2>2, <2>3
<1>4. CASE HostDiskFull
  BY <1>4, ClosingPreserves DEF HostDiskFull, IInv
<1> QED
  BY <1>1, <1>2, <1>3, <1>4 DEF Handles

\* The command starts with no file.
LEMMA InitHolds == Init => IInv
  BY DEF Init, PartInit, IInv, FileHeld, NoFile

\* Every step keeps the invariant.
LEMMA NextPreserves == IInv /\ [Next]_vars => IInv'
<1> SUFFICES ASSUME IInv, [Next]_vars PROVE IInv'
  OBVIOUS
<1>1. CASE Handles
  BY <1>1, ReadPreserves
<1>2. CASE Apart
  <2>1. file = NoFile
    BY <1>2, ClosedIsNone DEF Apart, IInv
  <2> QED
    BY <1>2, <2>1, ClosingPreserves DEF Apart, IInv
<1>3. CASE UNCHANGED vars
  <2>1. UNCHANGED << pc, steps, file, saved >>
    BY <1>3 DEF vars, qdlVars, partVars
  <2>2. Do' = Do
    BY <2>1 DEF Do
  <2> QED
    BY <2>1, <2>2 DEF IInv, FileHeld, Reading, Partial, Held, Image
<1> QED
  BY <1>1, <1>2, <1>3, OthersApart

\* The invariant holds in every reachable state.
THEOREM Invariant == Spec => []IInv
  BY InitHolds, NextPreserves, PTL DEF Spec

\* However often a read breaks off, after any number of bytes, and is taken
\* up again, the file holds the sectors of its partition in place, and all of
\* them when firehose_read_to_file() succeeds: for every size of the
\* partitions, number of retries, disk and command line.
THEOREM FileIsPrefixHolds == Spec => []FileIsPrefix
<1>1. ASSUME IInv
      PROVE  FileIsPrefix
  <2>1. CASE ~file.open
    BY <1>1, <2>1 DEF IInv, FileIsPrefix
  <2>2. CASE file.open
    <3>1. PICK n \in 0..(2 * Sectors), d \in 0..Sectors, l \in Int :
              2 * d <= n /\ file = Partial(Do.part, n, d, l)
      BY <1>1, <2>2, OpenIsHeld
    <3>2. n \in Nat /\ 2 * Sectors \in Nat /\ n <= 2 * Sectors
      BY PartitionConstants DEF PartitionConstants
    <3>3. file.data = Held(Do.part, n) /\ Len(file.data) = n
      BY <3>1, <3>2, HeldIsSequence DEF Partial
    <3>4. Image(Do.part) = Held(Do.part, 2 * Sectors)
      BY DEF Image, Held
    <3>5. SubSeq(Image(Do.part), 1, n) = Held(Do.part, n)
      BY <3>2, <3>4, HeldIsSequence DEF Held
    <3> QED
      BY <1>1, <3>3, <3>5 DEF IInv, FileIsPrefix
  <2> QED
    BY <2>1, <2>2
<1> QED
  BY <1>1, Invariant, PTL
-----------------------------------------------------------------------------
(* Sequences, and what is chosen from them.                                *)

\* A set of natural numbers has a least one.
LEMMA Least ==
    ASSUME NEW T, T \subseteq Nat, T # {}
    PROVE  \E x \in T : \A y \in T : x <= y
<1>1. IsWellFoundedOn({p \in Nat \X Nat : p[1] < p[2]}, Nat)
  BY NatLessThanWellFounded DEF OpToRel
<1>2. PICK x \in T : \A y \in T : ~(<< y, x >> \in {p \in Nat \X Nat : p[1] < p[2]})
  BY <1>1, WFMin
<1>3. \A y \in T : ~(y < x)
  BY <1>2
<1> QED
  BY <1>3

\* Induction over the numbers, as a set.
LEMMA Induction ==
    ASSUME NEW S, 0 \in S, \A n \in Nat : n \in S => n + 1 \in S
    PROVE  Nat \subseteq S
<1> SUFFICES ASSUME Nat \ S # {} PROVE FALSE
  OBVIOUS
<1>1. PICK x \in Nat \ S : \A y \in Nat \ S : x <= y
  BY Least
<1>2. x - 1 \in Nat /\ x - 1 \in S
  BY <1>1
<1> QED
  BY <1>1, <1>2

\* The concatenation of the first i sequences, for every i up to n.
Concatenates(f, ss, n) ==
    f = [i \in 1..n |-> IF i = 1 THEN ss[i] ELSE f[i - 1] \o ss[i]]

\* There is such a function, so FlattenSeq takes it.
LEMMA Concatenation ==
    ASSUME NEW ss, NEW n \in Nat \ {0}, Len(ss) = n
    PROVE  \E f : Concatenates(f, ss, n) /\ FlattenSeq(ss) = f[n]
<1> DEFINE S == {m \in Nat : \E f : Concatenates(f, ss, m)}
<1>1. 0 \in S
  <2> DEFINE f == [i \in 1..0 |-> ss]
  <2>1. f = [i \in 1..0 |-> IF i = 1 THEN ss[i] ELSE f[i - 1] \o ss[i]]
    OBVIOUS
  <2> QED
    BY <2>1 DEF Concatenates
<1>2. ASSUME NEW m \in Nat, m \in S PROVE m + 1 \in S
  <2>1. PICK f : f = [i \in 1..m |-> IF i = 1 THEN ss[i] ELSE f[i - 1] \o ss[i]]
    BY <1>2 DEF Concatenates
  <2> DEFINE g == [i \in 1..(m + 1) |->
                     IF i \in 1..m THEN f[i] ELSE IF i = 1 THEN ss[i] ELSE f[i - 1] \o ss[i]]
  <2>2. ASSUME NEW i \in 1..(m + 1)
        PROVE  g[i] = IF i = 1 THEN ss[i] ELSE g[i - 1] \o ss[i]
    <3>1. i # 1 => i - 1 \in 1..(m + 1) /\ i - 1 \in 1..m
      OBVIOUS
    <3>2. i # 1 => g[i - 1] = f[i - 1]
      BY <3>1
    <3>3. CASE i \in 1..m
      <4>1. g[i] = f[i]
        BY <3>3
      <4>2. f[i] = IF i = 1 THEN ss[i] ELSE f[i - 1] \o ss[i]
        BY <2>1, <3>3
      <4> HIDE DEF g
      <4> QED
        BY <3>2, <4>1, <4>2
    <3>4. CASE i \notin 1..m
      <4>1. g[i] = IF i = 1 THEN ss[i] ELSE f[i - 1] \o ss[i]
        BY <3>4
      <4> HIDE DEF g
      <4> QED
        BY <3>2, <4>1
    <3> QED
      BY <3>3, <3>4
  <2>3. g = [i \in 1..(m + 1) |-> g[i]]
    OBVIOUS
  <2> HIDE DEF g
  <2>4. g = [i \in 1..(m + 1) |-> IF i = 1 THEN ss[i] ELSE g[i - 1] \o ss[i]]
    BY <2>2, <2>3
  <2>5. Concatenates(g, ss, m + 1)
    BY <2>4 DEF Concatenates
  <2>6. \E h : Concatenates(h, ss, m + 1)
    BY <2>5
  <2> QED
    BY <2>6
<1>3. n \in S
  <2> HIDE DEF S
  <2> QED
    BY <1>1, <1>2, Induction
<1> DEFINE c == CHOOSE f : f = [i \in 1..Len(ss) |-> IF i = 1 THEN ss[i] ELSE f[i - 1] \o ss[i]]
<1>4. c = [i \in 1..n |-> IF i = 1 THEN ss[i] ELSE c[i - 1] \o ss[i]]
  BY <1>3 DEF Concatenates
<1>5. FlattenSeq(ss) = c[n]
  BY DEF FlattenSeq
<1> HIDE DEF c
<1> QED
  BY <1>4, <1>5 DEF Concatenates

\* The elements of the first j of some sequences, and nothing else.
Gathers(f, ss, S, j) ==
    /\ f \in Seq(S)
    /\ \A i \in 1..j : \A k \in 1..Len(ss[i]) : \E m \in 1..Len(f) : f[m] = ss[i][k]
    /\ \A m \in 1..Len(f) : \E i \in 1..j : \E k \in 1..Len(ss[i]) : f[m] = ss[i][k]

\* What is in the first j sequences and in the next one is in the first j + 1.
LEMMA GathersNext ==
    ASSUME NEW S, NEW ss, NEW j \in Nat, NEW a, Gathers(a, ss, S, j), ss[j + 1] \in Seq(S)
    PROVE  Gathers(a \o ss[j + 1], ss, S, j + 1)
<1> DEFINE b == ss[j + 1]
           c == a \o b
<1>1. a \in Seq(S) /\ b \in Seq(S)
  BY DEF Gathers
<1>2. /\ c \in Seq(S) /\ Len(c) = Len(a) + Len(b) /\ Len(a) \in Nat /\ Len(b) \in Nat
      /\ \A m \in 1..Len(a) : m \in 1..Len(c) /\ c[m] = a[m]
      /\ \A m \in 1..Len(b) : Len(a) + m \in 1..Len(c) /\ c[Len(a) + m] = b[m]
      /\ \A m \in 1..Len(c) : m \in 1..Len(a) \/ (m - Len(a) \in 1..Len(b) /\ c[m] = b[m - Len(a)])
  <2> HIDE DEF b
  <2> QED
    BY <1>1, ConcatProperties
<1> HIDE DEF c
<1>3. ASSUME NEW i \in 1..(j + 1), NEW k \in 1..Len(ss[i])
      PROVE  \E m \in 1..Len(c) : c[m] = ss[i][k]
  <2>1. CASE i = j + 1
    BY <1>2, <2>1
  <2>2. CASE i # j + 1
    <3>1. i \in 1..j
      BY <2>2
    <3>2. PICK m \in 1..Len(a) : a[m] = ss[i][k]
      BY <3>1 DEF Gathers
    <3> QED
      BY <1>2, <3>2
  <2> QED
    BY <2>1, <2>2
<1>4. ASSUME NEW m \in 1..Len(c)
      PROVE  \E i \in 1..(j + 1) : \E k \in 1..Len(ss[i]) : c[m] = ss[i][k]
  <2>1. CASE m \in 1..Len(a)
    <3>1. PICK i \in 1..j : \E k \in 1..Len(ss[i]) : a[m] = ss[i][k]
      BY <2>1 DEF Gathers
    <3>2. i \in 1..(j + 1)
      BY <3>1
    <3>3. c[m] = a[m]
      BY <1>2, <2>1
    <3> QED
      BY <3>1, <3>2, <3>3
  <2>2. CASE m - Len(a) \in 1..Len(b) /\ c[m] = b[m - Len(a)]
    <3>1. j + 1 \in 1..(j + 1)
      OBVIOUS
    <3> QED
      BY <2>2, <3>1
  <2> QED
    BY <1>2, <2>1, <2>2
<1> QED
  BY <1>2, <1>3, <1>4 DEF Gathers, c

\* A sequence of sequences one after the other: every element of each of them
\* is in it, and nothing else.
LEMMA Flattened ==
    ASSUME NEW S, NEW ss, Len(ss) \in Nat, ss = << >> \/ Len(ss) # 0,
           \A i \in 1..Len(ss) : ss[i] \in Seq(S)
    PROVE  Gathers(FlattenSeq(ss), ss, S, Len(ss))
<1> DEFINE n == Len(ss)
<1>1. CASE n = 0
  <2>1. ss = << >> /\ FlattenSeq(ss) = ss
    BY <1>1 DEF FlattenSeq
  <2>2. FlattenSeq(ss) \in Seq(S)
    <3>1. << >> \in Seq(S)
      OBVIOUS
    <3>2. FlattenSeq(ss) = << >>
      BY <2>1
    <3> QED
      BY <3>1, <3>2, Zenon
  <2>3. Len(FlattenSeq(ss)) = 0
    BY <2>1
  <2>4. \A k : k \notin 1..0
    OBVIOUS
  <2> QED
    BY <1>1, <2>2, <2>3, <2>4 DEF Gathers
<1>2. CASE n # 0
  <2>1. PICK f : Concatenates(f, ss, n) /\ FlattenSeq(ss) = f[n]
    BY <1>2, Concatenation
  <2>2. \A i \in 1..n : f[i] = IF i = 1 THEN ss[i] ELSE f[i - 1] \o ss[i]
    BY <2>1 DEF Concatenates
  <2> DEFINE T == {j \in Nat : j \in 1..n => Gathers(f[j], ss, S, j)}
  <2>3. 0 \in T
    OBVIOUS
  <2>4. ASSUME NEW j \in Nat, j \in T PROVE j + 1 \in T
    <3> SUFFICES ASSUME j + 1 \in 1..n PROVE Gathers(f[j + 1], ss, S, j + 1)
      BY <2>4
    <3>1. CASE j = 0
      <4>1. f[1] = ss[1] /\ 1 \in 1..n /\ ss[1] \in Seq(S)
        BY <2>2, <3>1
      <4>2. \A i \in 1..1 : i = 1
        OBVIOUS
      <4>3. Gathers(f[1], ss, S, 1)
        BY <4>1, <4>2 DEF Gathers
      <4> QED
        BY <3>1, <4>3
    <3>2. CASE j # 0
      <4>1. j \in 1..n /\ j + 1 # 1 /\ j + 1 - 1 = j
        BY <3>2
      <4>2. f[j + 1] = f[j] \o ss[j + 1]
        <5>1. f[j + 1] = IF j + 1 = 1 THEN ss[j + 1] ELSE f[j + 1 - 1] \o ss[j + 1]
          BY <2>2
        <5> QED
          BY <4>1, <5>1
      <4>3. Gathers(f[j], ss, S, j) /\ ss[j + 1] \in Seq(S)
        BY <2>4, <4>1
      <4> QED
        BY <4>2, <4>3, GathersNext
    <3> QED
      BY <3>1, <3>2
  <2> HIDE DEF T
  <2>5. n \in T
    BY <2>3, <2>4, Induction
  <2>6. Gathers(f[n], ss, S, n)
    BY <1>2, <2>5 DEF T
  <2> QED
    BY <2>1, <2>6
<1> QED
  BY <1>1, <1>2

\* What is chosen from a sequence are the elements at the indices asked for.
LEMMA ChosenAre ==
    ASSUME NEW S, NEW s \in Seq(S), NEW K
    PROVE  /\ Chosen(s, K) \in Seq(S)
           /\ \A n \in 1..Len(s) : n \in K => \E m \in 1..Len(Chosen(s, K)) : Chosen(s, K)[m] = s[n]
           /\ \A m \in 1..Len(Chosen(s, K)) :
                 \E n \in 1..Len(s) : n \in K /\ Chosen(s, K)[m] = s[n]
<1> DEFINE ss == [n \in 1..Len(s) |-> IF n \in K THEN << s[n] >> ELSE << >>]
<1>1. Len(s) \in Nat /\ Len(ss) = Len(s) /\ (ss = << >> \/ Len(ss) # 0)
  <2>1. Len(s) \in Nat
    OBVIOUS
  <2>2. ss \in Seq({<< s[n] >> : n \in 1..Len(s)} \cup {<< >>})
    BY <2>1, SeqDef
  <2>3. Len(ss) = Len(s)
    BY <2>1, <2>2, LenProperties
  <2>4. Len(ss) = 0 => ss = << >>
    BY <2>2, EmptySeq
  <2> QED
    BY <2>1, <2>3, <2>4
<1>2. \A n \in 1..Len(ss) : ss[n] = IF n \in K THEN << s[n] >> ELSE << >>
  BY <1>1
<1>3. \A n \in 1..Len(ss) : s[n] \in S
  BY <1>1, ElementOfSeq
<1> HIDE DEF ss
<1>4. ASSUME NEW n \in 1..Len(ss) PROVE ss[n] \in Seq(S)
  <2>1. << s[n] >> \in Seq(S) /\ << >> \in Seq(S)
    BY <1>3
  <2> QED
    BY <1>2, <2>1
<1>5. Chosen(s, K) = FlattenSeq(ss)
  BY Zenon DEF Chosen, ss
<1>6. ASSUME NEW n \in 1..Len(ss), n \in K PROVE 1 \in 1..Len(ss[n]) /\ ss[n][1] = s[n]
  <2>1. ss[n] = << s[n] >>
    BY <1>2, <1>6
  <2> QED
    BY <2>1
<1>7. ASSUME NEW n \in 1..Len(ss), NEW k \in 1..Len(ss[n]) PROVE n \in K /\ ss[n][k] = s[n]
  <2>1. CASE n \in K
    <3>1. ss[n] = << s[n] >>
      BY <1>2, <2>1
    <3> QED
      BY <2>1, <3>1
  <2>2. CASE n \notin K
    <3>1. ss[n] = << >>
      BY <1>2, <2>2
    <3> QED
      BY <3>1
  <2> QED
    BY <2>1, <2>2
<1>8. Gathers(FlattenSeq(ss), ss, S, Len(ss))
  BY <1>1, <1>4, Flattened
<1>9. ASSUME NEW n \in 1..Len(s), n \in K
      PROVE  \E m \in 1..Len(Chosen(s, K)) : Chosen(s, K)[m] = s[n]
  <2>1. n \in 1..Len(ss) /\ 1 \in 1..Len(ss[n]) /\ ss[n][1] = s[n]
    BY <1>1, <1>6, <1>9
  <2>2. \E m \in 1..Len(FlattenSeq(ss)) : FlattenSeq(ss)[m] = ss[n][1]
    BY <1>8, <2>1 DEF Gathers
  <2> QED
    BY <1>5, <2>1, <2>2
<1>10. ASSUME NEW m \in 1..Len(Chosen(s, K))
       PROVE  \E n \in 1..Len(s) : n \in K /\ Chosen(s, K)[m] = s[n]
  <2>1. PICK i \in 1..Len(ss) : \E k \in 1..Len(ss[i]) : FlattenSeq(ss)[m] = ss[i][k]
    BY <1>5, <1>8 DEF Gathers
  <2> QED
    BY <1>1, <1>5, <1>7, <2>1
<1> QED
  BY <1>5, <1>8, <1>9, <1>10 DEF Gathers
-----------------------------------------------------------------------------
(* What is fixed with the command line.                                    *)

\* What the disk holds when the program starts does not change, as the command
\* line does not.
LEMMA FixedDisk ==
    ASSUME setup' = setup
    PROVE  /\ Disk' = Disk /\ Parts' = Parts /\ Nand' = Nand /\ Cmd' = Cmd /\ Flash' = Flash
  BY DEF Disk, Parts, Nand, Cmd, Flash

\* Nor do the documents and their order.
LEMMA FixedLists ==
    ASSUME setup' = setup
    PROVE  LoadOrder' = LoadOrder /\ Tags' = Tags
<1>1. LoadOrder' = LoadOrder
  BY DEF LoadOrder, OfType
<1>2. Tags' = Tags
  BY <1>1 DEF Tags
<1> QED
  BY <1>1, <1>2

\* Nor does the place of a label.
LEMMA FixedLabel ==
    ASSUME setup' = setup, NEW label
    PROVE  Place(label)' = Place(label)
<1>1. Called(label)' = Called(label)
  BY FixedDisk DEF Called, LabelOf
<1>2. FirstLun(label)' = FirstLun(label)
  BY <1>1 DEF FirstLun
<1> QED
  BY <1>1, <1>2, FixedDisk DEF Place

\* Nor do the tags that apply to a partition.
LEMMA FixedPlaces ==
    ASSUME setup' = setup, NEW kinds, NEW part
    PROVE  Applying(kinds, part)' = Applying(kinds, part)
<1>1. \A tag : PlaceOf(tag)' = PlaceOf(tag)
  BY FixedLabel DEF PlaceOf
<1> QED
  BY <1>1, FixedLists DEF Applying, Applies

\* Nor does what is asked of a partition.
LEMMA FixedAsked ==
    ASSUME setup' = setup, NEW part
    PROVE  Asked(part)' = Asked(part)
<1>1. \A kinds : LastOf(kinds, part)' = LastOf(kinds, part)
  BY FixedPlaces DEF LastOf
<1>2. \A label : Place(label)' = Place(label)
  BY FixedLabel
<1> QED
  BY <1>1, <1>2, FixedLists, FixedDisk DEF Asked

\* The first and the last of a set of places in a list are in it.
LEMMA Extremes ==
    ASSUME NEW S, NEW N \in Nat, S \subseteq 1..N, S # {}
    PROVE  /\ Min(S) \in S /\ \A x \in S : Min(S) <= x
           /\ Max(S) \in S /\ \A x \in S : x <= Max(S)
<1>1. S \subseteq Nat
  OBVIOUS
<1>2. PICK a \in S : \A x \in S : a <= x
  BY <1>1, Least
<1>3. Min(S) \in S /\ \A x \in S : Min(S) <= x
  BY <1>2 DEF Min
<1> DEFINE T == {N - x : x \in S}
<1>4. T \subseteq Nat /\ T # {}
  OBVIOUS
<1>5. PICK t \in T : \A u \in T : t <= u
  <2> HIDE DEF T
  <2> QED
    BY <1>4, Least
<1>6. PICK b \in S : t = N - b
  BY <1>5
<1>7. ASSUME NEW x \in S PROVE x <= b
  <2>1. N - x \in T /\ x \in Nat /\ b \in Nat
    OBVIOUS
  <2>2. N - b <= N - x
    BY <1>5, <1>6, <2>1
  <2> QED
    BY <2>1, <2>2
<1>8. Max(S) \in S /\ \A x \in S : x <= Max(S)
  <2>1. \E y \in S : \A x \in S : y >= x
    BY <1>6, <1>7 DEF Gathers
  <2>2. Max(S) \in S /\ \A x \in S : Max(S) >= x
    BY <2>1 DEF Max
  <2> QED
    BY <2>2
<1> QED
  BY <1>3, <1>8
-----------------------------------------------------------------------------
(* The documents.                                                          *)

\* A document as the command line may have it.
DocFits(doc) ==
    /\ doc \in Documents
    /\ doc.type = "command" => Len(doc.tags) = 1
    /\ doc.type # "ufs" =>
          \A n \in 1..Len(doc.tags) : doc.tags[n] \in DocTags /\ TagFits(doc.type, doc.tags[n])

\* Each document of a command line has the shape that is assumed.
LEMMA DocumentsFit ==
    ASSUME setup \in Setups
    PROVE  setup.docs \in Seq({doc \in Documents : DocFits(doc)})
<1>1. SetupFits(setup)
  BY SetupsAssumption
<1>2. setup.docs \in Seq(Documents)
  BY <1>1 DEF SetupFits
<1>3. \A d \in 1..Len(setup.docs) : DocFits(setup.docs[d])
  <2> SUFFICES ASSUME NEW d \in 1..Len(setup.docs) PROVE DocFits(setup.docs[d])
    OBVIOUS
  <2>1. setup.docs[d] \in Documents
    BY <1>2, ElementOfSeq
  <2>2. ASSUME setup.docs[d].type # "ufs", NEW n \in 1..Len(setup.docs[d].tags)
        PROVE  setup.docs[d].tags[n] \in DocTags
    <3>1. setup.docs[d].tags \in Seq(DocTags)
      BY <2>1, <2>2 DEF Documents
    <3> QED
      BY <2>2, <3>1, ElementOfSeq
  <2> QED
    BY <1>1, <2>1, <2>2 DEF SetupFits, DocFits
<1> HIDE DEF DocFits
<1>4. setup.docs \in [1..Len(setup.docs) -> {doc \in Documents : DocFits(doc)}]
  BY <1>2, <1>3
<1> QED
  BY <1>2, <1>4

\* The order of a firmware directory takes nothing but documents.
LEMMA OrderFits ==
    ASSUME setup \in Setups
    PROVE  LoadOrder \in Seq({doc \in Documents : DocFits(doc)})
<1> DEFINE F == {doc \in Documents : DocFits(doc)}
<1>1. setup.docs \in Seq(F)
  BY DocumentsFit
<1> HIDE DEF F
<1>2. \A type : OfType(type) \in Seq(F)
  BY <1>1, ChosenAre DEF OfType
<1>3. OfType("read") \o OfType("program") \o OfType("patch") \in Seq(F)
  BY <1>2
<1> QED
  BY <1>1, <1>3 DEF LoadOrder, F

\* The tags are those of the documents that are loaded.
LEMMA TagsAre ==
    ASSUME setup \in Setups
    PROVE  /\ Tags \in Seq(DocTags)
           /\ \A d \in 1..Len(LoadOrder) : LoadOrder[d].type # "ufs" =>
                 \A n \in 1..Len(LoadOrder[d].tags) :
                    \E m \in 1..Len(Tags) : Tags[m] = LoadOrder[d].tags[n]
           /\ \A m \in 1..Len(Tags) :
                 \E d \in 1..Len(LoadOrder) : LoadOrder[d].type # "ufs" /\
                    \E n \in 1..Len(LoadOrder[d].tags) : Tags[m] = LoadOrder[d].tags[n]
<1> DEFINE ss == [d \in 1..Len(LoadOrder) |->
                    IF LoadOrder[d].type = "ufs" THEN << >> ELSE LoadOrder[d].tags]
<1>1. LoadOrder \in Seq({doc \in Documents : DocFits(doc)}) /\ Len(LoadOrder) \in Nat
  BY OrderFits
<1>2. Len(ss) = Len(LoadOrder) /\ (ss = << >> \/ Len(ss) # 0)
  <2>1. ss \in Seq({ss[d] : d \in 1..Len(LoadOrder)})
    BY <1>1, SeqDef
  <2>2. Len(ss) = Len(LoadOrder)
    BY <1>1, <2>1, LenProperties
  <2>3. Len(ss) = 0 => ss = << >>
    BY <2>1, EmptySeq
  <2> QED
    BY <2>2, <2>3
<1>3. \A d \in 1..Len(ss) :
         ss[d] = IF LoadOrder[d].type = "ufs" THEN << >> ELSE LoadOrder[d].tags
  BY <1>2
<1>4. ASSUME NEW d \in 1..Len(LoadOrder), LoadOrder[d].type # "ufs"
      PROVE  LoadOrder[d].tags \in Seq(DocTags)
  <2>1. LoadOrder[d] \in Documents
    BY <1>1, ElementOfSeq
  <2> QED
    BY <1>4, <2>1 DEF Documents
<1> HIDE DEF ss
<1>5. ASSUME NEW d \in 1..Len(ss) PROVE ss[d] \in Seq(DocTags)
  <2>1. << >> \in Seq(DocTags)
    OBVIOUS
  <2> QED
    BY <1>2, <1>3, <1>4, <2>1
<1>11. Len(ss) \in Nat /\ (ss = << >> \/ Len(ss) # 0) /\ \A i \in 1..Len(ss) : ss[i] \in Seq(DocTags)
  BY <1>1, <1>2, <1>5
<1>6. Gathers(FlattenSeq(ss), ss, DocTags, Len(ss))
  BY <1>11, Flattened
<1>7. Tags = FlattenSeq(ss)
  BY Zenon DEF Tags, ss
<1>8. \A d \in 1..Len(ss) : \A k \in 1..Len(ss[d]) : LoadOrder[d].type # "ufs" /\ ss[d] = LoadOrder[d].tags
  <2> SUFFICES ASSUME NEW d \in 1..Len(ss), NEW k \in 1..Len(ss[d]), LoadOrder[d].type = "ufs"
               PROVE  FALSE
    BY <1>3
  <2>1. ss[d] = << >>
    BY <1>3
  <2> QED
    BY <2>1
<1>9. ASSUME NEW m \in 1..Len(Tags)
      PROVE  \E d \in 1..Len(LoadOrder) : LoadOrder[d].type # "ufs" /\
                \E n \in 1..Len(LoadOrder[d].tags) : Tags[m] = LoadOrder[d].tags[n]
  <2>1. PICK d \in 1..Len(ss) : \E k \in 1..Len(ss[d]) : Tags[m] = ss[d][k]
    BY <1>6, <1>7 DEF Gathers
  <2> QED
    BY <1>2, <1>8, <2>1
<1>10. ASSUME NEW d \in 1..Len(LoadOrder), LoadOrder[d].type # "ufs",
              NEW n \in 1..Len(LoadOrder[d].tags)
       PROVE  \E m \in 1..Len(Tags) : Tags[m] = LoadOrder[d].tags[n]
  <2>1. ss[d] = LoadOrder[d].tags /\ d \in 1..Len(ss)
    BY <1>2, <1>3, <1>10
  <2>2. n \in 1..Len(ss[d])
    BY <2>1
  <2>3. \E m \in 1..Len(FlattenSeq(ss)) : FlattenSeq(ss)[m] = ss[d][n]
    BY <1>6, <2>1, <2>2 DEF Gathers
  <2> QED
    BY <1>7, <2>1, <2>3
<1> QED
  BY <1>6, <1>7, <1>9, <1>10 DEF Gathers

\* A program whose image is there and goes to the modem as it is.
Whole(tag) == tag.kind = "program" /\ tag.sparse = "no" /\ tag.file # "missing"

\* The entry e was made of a tag that is not refused.
Made(e, tag) ==
    /\ e.kind = tag.kind /\ e.label = tag.label /\ e.gpt = tag.gpt
    /\ ~tag.bad /\ ~tag.vendor
    /\ e.live /\ e.kind = "program" => tag.file # "missing"
    /\ e.live /\ e.kind = "patch" => tag.file = "ok"
    /\ Whole(tag) => e.live /\ e.md5 = tag.md5 /\ e.file = tag.file

\* An entry is its tag but for two fields.
LEMMA OneEntry ==
    ASSUME NEW tag \in DocTags, NEW live \in BOOLEAN, NEW e,
           e = Entry(tag, live) \/ (e = [tag EXCEPT !.live = TRUE, !.md5 = FALSE] /\ live = TRUE)
    PROVE  /\ e \in DocTags /\ e.live = live
           /\ e.kind = tag.kind /\ e.label = tag.label /\ e.gpt = tag.gpt /\ e.part = tag.part
           /\ e.file = tag.file
           /\ e = Entry(tag, live) => e.md5 = tag.md5
  BY DEF Entry, DocTags

\* What load_program_tag(), program_load_erase_tag() and the others put on the
\* lists for a tag they take.
LEMMA EntriesMade ==
    ASSUME NEW tag \in DocTags, NEW type, TagFits(type, tag), ~Refused(tag)
    PROVE  /\ Entries(tag) \in Seq(DocTags)
           /\ \A k \in 1..Len(Entries(tag)) :
                 Made(Entries(tag)[k], tag) /\ Entries(tag)[k].part = tag.part
           /\ Whole(tag) => 1 \in 1..Len(Entries(tag))
<1>1. /\ tag.kind \in {"program", "erase", "patch", "read"} /\ tag.bad \in BOOLEAN
      /\ tag.vendor \in BOOLEAN /\ tag.file \in {"ok", "missing", "altered"}
      /\ tag.sparse \in {"no", "yes", "typo", "broken"} /\ tag.live \in BOOLEAN
  BY DEF DocTags
<1>2. tag.vendor => tag.kind = "erase"
  BY DEF TagFits
<1>3. tag.file = "missing" => tag.kind = "program"
  BY DEF TagFits
<1> DEFINE no == Entry(tag, FALSE)
           yes == Entry(tag, TRUE)
           chunk == [tag EXCEPT !.live = TRUE, !.md5 = FALSE]
<1>4. no \in DocTags /\ yes \in DocTags /\ chunk \in DocTags
  BY OneEntry
<1>9. no.live = FALSE /\ no.kind = tag.kind /\ no.label = tag.label /\ no.gpt = tag.gpt /\ no.part = tag.part
  BY OneEntry
<1>10. /\ yes.live = TRUE /\ yes.kind = tag.kind /\ yes.label = tag.label /\ yes.gpt = tag.gpt
       /\ yes.part = tag.part /\ yes.md5 = tag.md5 /\ yes.file = tag.file
  BY OneEntry
<1>11. chunk.kind = tag.kind /\ chunk.label = tag.label /\ chunk.gpt = tag.gpt /\ chunk.part = tag.part
  BY DEF DocTags
<1>5. /\ ~no.live /\ no.kind = tag.kind /\ no.label = tag.label /\ no.gpt = tag.gpt /\ no.part = tag.part
      /\ yes.live /\ yes.kind = tag.kind /\ yes.label = tag.label /\ yes.gpt = tag.gpt /\ yes.part = tag.part
      /\ yes.md5 = tag.md5 /\ yes.file = tag.file
      /\ chunk.kind = tag.kind /\ chunk.label = tag.label /\ chunk.gpt = tag.gpt /\ chunk.part = tag.part
  BY <1>9, <1>10, <1>11
<1>6. CASE tag.kind = "program"
  <2>1. ~tag.bad /\ ~tag.vendor
    BY <1>1, <1>2, <1>6 DEF Refused, ProgramRefused
  <2>2. Entries(tag) = ProgramEntries(tag)
    BY <1>6 DEF Entries
  <2>3. CASE tag.file = "missing"
    <3>1. Entries(tag) = << no >>
      BY <2>2, <2>3 DEF ProgramEntries
    <3>2. Made(no, tag)
      BY <1>5, <1>6, <2>1, <2>3 DEF Made, Whole
    <3> HIDE DEF no
    <3> QED
      BY <1>4, <1>5, <2>3, <3>1, <3>2 DEF Whole
  <2>4. CASE tag.file # "missing" /\ tag.sparse = "yes"
    <3>1. Entries(tag) = << chunk >> \o << no >>
      BY <2>2, <2>4 DEF ProgramEntries, Chunks
    <3>2. Made(no, tag) /\ Made(chunk, tag)
      BY <1>5, <1>6, <2>1, <2>4 DEF Made, Whole
    <3> HIDE DEF no, chunk
    <3> DEFINE a == << chunk >>
               b == << no >>
    <3>3. /\ a \in Seq(DocTags) /\ Len(a) = 1 /\ a[1] = chunk
          /\ b \in Seq(DocTags) /\ Len(b) = 1 /\ b[1] = no
      BY <1>4
    <3>4. a \o b \in Seq(DocTags) /\ Len(a \o b) = 2 /\ (a \o b)[1] = chunk /\ (a \o b)[2] = no
      <4> HIDE DEF a, b
      <4> QED
        BY <3>3, ConcatProperties
    <3>5. \A k \in 1..2 : k = 1 \/ k = 2
      OBVIOUS
    <3>6. chunk.part = tag.part /\ no.part = tag.part
      BY <1>5 DEF no, chunk
    <3> HIDE DEF a, b
    <3> QED
      BY <2>4, <3>1, <3>2, <3>4, <3>5, <3>6 DEF Whole, a, b
  <2>5. CASE tag.file # "missing" /\ tag.sparse = "typo"
    <3>1. Entries(tag) = << no >>
      BY <2>2, <2>5 DEF ProgramEntries
    <3>2. Made(no, tag)
      BY <1>5, <1>6, <2>1, <2>5 DEF Made, Whole
    <3> HIDE DEF no
    <3> QED
      BY <1>4, <1>5, <2>5, <3>1, <3>2 DEF Whole
  <2>6. CASE tag.file # "missing" /\ tag.sparse \notin {"yes", "typo"}
    <3>1. Entries(tag) = << yes >>
      BY <2>2, <2>6 DEF ProgramEntries
    <3>2. Made(yes, tag)
      BY <1>5, <1>6, <2>1, <2>6 DEF Made, Whole
    <3> HIDE DEF yes
    <3> QED
      BY <1>4, <1>5, <3>1, <3>2
  <2> QED
    BY <2>3, <2>4, <2>5, <2>6
<1>7. CASE tag.kind = "erase"
  <2>1. CASE tag.vendor
    <3>1. Entries(tag) = << >>
      BY <1>7, <2>1 DEF Entries, EraseEntries
    <3>2. << >> \in Seq(DocTags) /\ \A k : k \notin 1..Len(<< >>)
      OBVIOUS
    <3> QED
      BY <1>7, <3>1, <3>2 DEF Whole
  <2>2. CASE ~tag.vendor
    <3>1. Entries(tag) = << yes >>
      BY <1>7, <2>2 DEF Entries, EraseEntries
    <3>2. ~tag.bad
      BY <1>1, <1>7, <2>2 DEF Refused
    <3>3. Made(yes, tag)
      BY <1>5, <1>7, <2>2, <3>2 DEF Made, Whole
    <3> HIDE DEF yes
    <3> QED
      BY <1>4, <1>5, <3>1, <3>3
  <2> QED
    BY <1>1, <2>1, <2>2
<1>8. CASE tag.kind \in {"patch", "read"}
  <2>1. ~tag.bad /\ ~tag.vendor
    BY <1>1, <1>2, <1>8 DEF Refused
  <2>2. CASE tag.kind = "patch" /\ tag.file # "ok"
    <3>1. Entries(tag) = << no >>
      <4>1. (tag.file = "ok") = FALSE
        BY <2>2
      <4> QED
        BY <2>2, <4>1 DEF Entries, PatchEntries
    <3>2. Made(no, tag)
      BY <1>5, <2>1, <2>2 DEF Made, Whole
    <3> HIDE DEF no
    <3> QED
      BY <1>4, <1>5, <1>8, <3>1, <3>2 DEF Whole
  <2>3. CASE ~(tag.kind = "patch" /\ tag.file # "ok")
    <3>1. Entries(tag) = << yes >>
      <4>1. tag.kind = "patch" => (tag.file = "ok") = TRUE
        BY <2>3
      <4> QED
        BY <1>8, <4>1 DEF Entries, PatchEntries
    <3>2. Made(yes, tag)
      BY <1>5, <1>8, <2>1, <2>3 DEF Made, Whole
    <3> HIDE DEF yes
    <3> QED
      BY <1>4, <1>5, <3>1, <3>2
  <2> QED
    BY <2>2, <2>3
<1> QED
  BY <1>1, <1>6, <1>7, <1>8

\* What a document puts on the lists is made of its tags.
LEMMA DocEntriesMade ==
    ASSUME NEW doc, DocFits(doc), doc.type # "ufs"
    PROVE  /\ DocEntries(doc) \in Seq(DocTags)
           /\ \A k \in 1..Len(DocEntries(doc)) : \E n \in 1..Len(doc.tags) :
                 Made(DocEntries(doc)[k], doc.tags[n]) /\ DocEntries(doc)[k].part = doc.tags[n].part
           /\ \A n \in 1..Len(doc.tags) : Whole(doc.tags[n]) /\ ~Refused(doc.tags[n]) =>
                 \E k \in 1..Len(DocEntries(doc)) : Made(DocEntries(doc)[k], doc.tags[n])
<1> DEFINE ss == [n \in 1..Len(doc.tags) |->
                    IF Refused(doc.tags[n]) THEN << >> ELSE Entries(doc.tags[n])]
<1>1. doc.tags \in Seq(DocTags) /\ Len(doc.tags) \in Nat
  <2>1. doc.tags \in Seq(DocTags)
    BY DEF DocFits, Documents
  <2> QED
    BY <2>1
<1>2. Len(ss) = Len(doc.tags) /\ (ss = << >> \/ Len(ss) # 0)
  <2>1. ss \in Seq({ss[n] : n \in 1..Len(doc.tags)})
    <3>1. ss \in [1..Len(doc.tags) -> {ss[n] : n \in 1..Len(doc.tags)}]
      OBVIOUS
    <3> HIDE DEF ss
    <3> QED
      BY <1>1, <3>1, SeqDef
  <2>2. Len(ss) = Len(doc.tags)
    BY <1>1, <2>1, LenProperties
  <2>3. Len(ss) = 0 => ss = << >>
    BY <2>1, EmptySeq
  <2> QED
    BY <2>2, <2>3
<1>3. \A n \in 1..Len(ss) : ss[n] = IF Refused(doc.tags[n]) THEN << >> ELSE Entries(doc.tags[n])
  BY <1>2
<1> HIDE DEF ss
<1>4. ASSUME NEW n \in 1..Len(ss)
      PROVE  /\ ss[n] \in Seq(DocTags)
             /\ \A k \in 1..Len(ss[n]) : Made(ss[n][k], doc.tags[n]) /\ ss[n][k].part = doc.tags[n].part
             /\ Whole(doc.tags[n]) /\ ~Refused(doc.tags[n]) => 1 \in 1..Len(ss[n])
  <2>1. doc.tags[n] \in DocTags /\ TagFits(doc.type, doc.tags[n])
    BY <1>2 DEF DocFits
  <2>2. CASE Refused(doc.tags[n])
    <3>1. ss[n] = << >>
      BY <1>3, <2>2
    <3> QED
      BY <2>2, <3>1
  <2>3. CASE ~Refused(doc.tags[n])
    <3>1. ss[n] = Entries(doc.tags[n])
      BY <1>3, <2>3
    <3> QED
      BY <2>1, <2>3, <3>1, EntriesMade
  <2> QED
    BY <2>2, <2>3
<1>5. DocEntries(doc) = FlattenSeq(ss)
  BY Zenon DEF DocEntries, ss
<1>6. Gathers(FlattenSeq(ss), ss, DocTags, Len(ss))
  BY <1>1, <1>2, <1>4, Flattened
<1>7. ASSUME NEW k \in 1..Len(DocEntries(doc))
      PROVE  \E n \in 1..Len(doc.tags) :
                Made(DocEntries(doc)[k], doc.tags[n]) /\ DocEntries(doc)[k].part = doc.tags[n].part
  <2>1. PICK n \in 1..Len(ss) : \E j \in 1..Len(ss[n]) : DocEntries(doc)[k] = ss[n][j]
    BY <1>5, <1>6 DEF Gathers
  <2> QED
    BY <1>2, <1>4, <2>1
<1>8. ASSUME NEW n \in 1..Len(doc.tags), Whole(doc.tags[n]), ~Refused(doc.tags[n])
      PROVE  \E k \in 1..Len(DocEntries(doc)) : Made(DocEntries(doc)[k], doc.tags[n])
  <2>1. n \in 1..Len(ss) /\ 1 \in 1..Len(ss[n]) /\ Made(ss[n][1], doc.tags[n])
    BY <1>2, <1>4, <1>8
  <2>2. \E k \in 1..Len(FlattenSeq(ss)) : FlattenSeq(ss)[k] = ss[n][1]
    BY <1>6, <2>1 DEF Gathers
  <2> QED
    BY <1>5, <2>1, <2>2
<1> QED
  BY <1>5, <1>6, <1>7, <1>8 DEF Gathers

\* How many documents are loaded.
Loaded == Len(LoadOrder) - Len(docs)

\* An operation is where its tag says, or where the label of the tag was found.
Placed(e, tag) ==
    setup.erase_all \/ e.part = tag.part \/ (tag.gpt # "" /\ e.part = Place(tag.gpt))
Origins == {x \in DocTags \X DocTags : Made(x[1], x[2]) /\ Placed(x[1], x[2])}

\* The tags of the provisioning as they are sent.
UfsShape(tags) ==
    /\ tags \in Seq({"common", "body", "epilogue"}) /\ Len(tags) > 1
    /\ \A n \in 1..Len(tags) : tags[n] = "epilogue" <=> n = Len(tags)

ListsInv ==
    /\ docs \in Seq({doc \in Documents : DocFits(doc)}) /\ Len(docs) <= Len(LoadOrder)
    /\ \A i \in 1..Len(docs) : docs[i] = LoadOrder[Loaded + i]
    /\ queue \in Seq(DocTags)
    /\ \A k \in 1..Len(queue) : \E m \in 1..Len(Tags) : << queue[k], Tags[m] >> \in Origins
    /\ ufsdoc = << >> \/ UfsShape(ufsdoc)

Loading == {"start", "load", "fusing"}

\* Nothing is lost on the way from the documents to the lists.
TakenInv ==
    pc \in Loading =>
        \A d \in 1..Loaded : LoadOrder[d].type # "ufs" =>
            \A n \in 1..Len(LoadOrder[d].tags) : Whole(LoadOrder[d].tags[n]) =>
                \E k \in 1..Len(queue) : Made(queue[k], LoadOrder[d].tags[n])

(* Where there are several entries for secdata, all have their images or   *)
(* none, since only the first is looked at; and the file of a command is   *)
(* not called so.                                                          *)
OfSecdata(tag) == tag.kind = "program" /\ tag.label = "secdata"
SecdataPlain ==
    /\ \A m, n \in 1..Len(Tags) :
          OfSecdata(Tags[m]) /\ OfSecdata(Tags[n]) /\ Whole(Tags[m]) => Whole(Tags[n])
    /\ \A d \in 1..Len(LoadOrder) : LoadOrder[d].type = "command" =>
          \A n \in 1..Len(LoadOrder[d].tags) : LoadOrder[d].tags[n].label # "secdata"

Harmless ==
    \A d \in 1..Loaded : LoadOrder[d].type # "ufs" =>
        \A n \in 1..Len(LoadOrder[d].tags) : Whole(LoadOrder[d].tags[n]) =>
            LoadOrder[d].tags[n].label # "secdata"

FusingInv ==
    /\ pc \in {"start", "load"} /\ ~setup.allow_fusing /\ SecdataPlain
    /\ setup.firmware => docs = << >>
    => Harmless

Checked(tag) ==
    /\ setup.skip_md5 \/ ~(tag.md5 /\ tag.file = "altered")
    /\ SecdataPlain /\ tag.label = "secdata" => setup.allow_fusing
Verified == docs = << >> /\ \A m \in 1..Len(Tags) : Whole(Tags[m]) => Checked(Tags[m])

Untouched == store = [part \in Parts |-> "old"]
VerifiedInv ==
    Flash /\ pc \notin Loading =>
        Verified \/ (pc \in {"exit", "stuck"} /\ Untouched)

\* Before the session is configured nothing has happened on the modem.
Fresh ==
    /\ steps = << >> /\ Untouched
    /\ cache = << >> /\ lun = 0 /\ loaded = FALSE
    /\ ufs.staged = << >> /\ ufs.checked = << >> /\ ufs.applied = << >>
Early == Loading \cup {"scan", "prepare", "open", "sahara", "configure"}

\* A document in front of the others is loaded.
LEMMA HeadLoaded ==
    ASSUME setup \in Setups, ListsInv, docs # << >>
    PROVE  /\ Loaded \in Nat /\ Loaded + 1 \in 1..Len(LoadOrder)
           /\ Head(docs) = LoadOrder[Loaded + 1] /\ DocFits(Head(docs))
           /\ Tail(docs) \in Seq({doc \in Documents : DocFits(doc)})
           /\ Len(Tail(docs)) = Len(docs) - 1 /\ Len(docs) \in Nat
           /\ \A i \in 1..Len(Tail(docs)) : Tail(docs)[i] = LoadOrder[Loaded + 1 + i]
<1> DEFINE F == {doc \in Documents : DocFits(doc)}
<1>1. docs \in Seq(F) /\ LoadOrder \in Seq(F)
  BY OrderFits DEF ListsInv
<1> HIDE DEF F
<1>2. /\ Len(docs) \in Nat /\ Len(LoadOrder) \in Nat /\ Len(docs) # 0
      /\ Head(docs) = docs[1] /\ Head(docs) \in F
      /\ Tail(docs) \in Seq(F) /\ Len(Tail(docs)) = Len(docs) - 1
      /\ \A i \in 1..Len(Tail(docs)) : Tail(docs)[i] = docs[i + 1]
  BY <1>1
<1>3. Loaded \in Nat /\ Loaded + 1 \in 1..Len(LoadOrder)
  BY <1>2 DEF ListsInv, Loaded
<1>4. 1 \in 1..Len(docs)
  BY <1>2
<1>5. ASSUME NEW i \in 1..Len(Tail(docs))
      PROVE  Tail(docs)[i] = LoadOrder[Loaded + 1 + i]
  <2>1. i + 1 \in 1..Len(docs) /\ Loaded + (i + 1) = Loaded + 1 + i
    BY <1>2, <1>3
  <2>2. docs[i + 1] = LoadOrder[Loaded + (i + 1)]
    BY <2>1 DEF ListsInv
  <2> QED
    BY <1>2, <2>1, <2>2
<1> QED
  BY <1>2, <1>3, <1>4, <1>5 DEF ListsInv, F

\* What is queued stays where it is when more comes behind it.
LEMMA QueueGrows ==
    ASSUME NEW q \in Seq(DocTags), NEW more \in Seq(DocTags)
    PROVE  /\ q \o more \in Seq(DocTags) /\ Len(q) \in Nat /\ Len(more) \in Nat
           /\ \A k \in 1..Len(q) : k \in 1..Len(q \o more) /\ (q \o more)[k] = q[k]
           /\ \A k \in 1..Len(more) : Len(q) + k \in 1..Len(q \o more) /\ (q \o more)[Len(q) + k] = more[k]
           /\ \A k \in 1..Len(q \o more) : k \in 1..Len(q) \/
                 (k - Len(q) \in 1..Len(more) /\ (q \o more)[k] = more[k - Len(q)])
  BY ConcatProperties

\* Two sequences, one after the other.
LEMMA Joined ==
    ASSUME NEW S, NEW a \in Seq(S), NEW b \in Seq(S)
    PROVE  /\ a \o b \in Seq(S) /\ Len(a \o b) = Len(a) + Len(b)
           /\ Len(a) \in Nat /\ Len(b) \in Nat
           /\ \A n \in 1..(Len(a) + Len(b)) :
                 (a \o b)[n] = IF n <= Len(a) THEN a[n] ELSE b[n - Len(a)]
  BY ConcatProperties, LenProperties

\* A provisioning document is sent as its common tag, its LUNs, its epilogue.
LEMMA UfsOrderShaped ==
    ASSUME NEW doc, doc \in Documents, doc.type = "ufs"
    PROVE  UfsShape(UfsOrder(doc))
<1> DEFINE S == {"common", "body", "epilogue"}
           bodies == Chosen(doc.tags, TagsOf(doc, "body"))
           a == << "common" >>
           c == << "epilogue" >>
<1>1. doc.tags \in Seq(S)
  BY DEF Documents
<1>2. bodies \in Seq(S) /\ \A m \in 1..Len(bodies) : bodies[m] = "body"
  <2>1. /\ bodies \in Seq(S)
        /\ \A m \in 1..Len(bodies) : \E n \in 1..Len(doc.tags) :
              n \in TagsOf(doc, "body") /\ bodies[m] = doc.tags[n]
    <3>1. PICK t, K : t = doc.tags /\ K = TagsOf(doc, "body")
      OBVIOUS
    <3>2. t \in Seq(S) /\ bodies = Chosen(t, K)
      BY <1>1, <3>1
    <3> HIDE DEF S, bodies
    <3>3. /\ Chosen(t, K) \in Seq(S)
          /\ \A m \in 1..Len(Chosen(t, K)) :
                \E n \in 1..Len(t) : n \in K /\ Chosen(t, K)[m] = t[n]
      BY <3>2, ChosenAre
    <3> QED
      BY <3>1, <3>2, <3>3
  <2> QED
    BY <2>1 DEF TagsOf
<1>3. /\ a \in Seq(S) /\ Len(a) = 1 /\ a[1] = "common"
      /\ c \in Seq(S) /\ Len(c) = 1 /\ c[1] = "epilogue"
  OBVIOUS
<1>4. UfsOrder(doc) = (a \o bodies) \o c
  BY DEF UfsOrder
<1> HIDE DEF a, bodies, c
<1>5. /\ a \o bodies \in Seq(S) /\ Len(a \o bodies) = 1 + Len(bodies) /\ Len(bodies) \in Nat
      /\ \A n \in 1..(1 + Len(bodies)) : (a \o bodies)[n] # "epilogue"
  <2>1. /\ a \o bodies \in Seq(S) /\ Len(a \o bodies) = 1 + Len(bodies) /\ Len(bodies) \in Nat
        /\ \A n \in 1..(1 + Len(bodies)) : (a \o bodies)[n] = IF n <= 1 THEN a[n] ELSE bodies[n - 1]
    <3> HIDE DEF S
    <3>1. /\ a \o bodies \in Seq(S) /\ Len(a \o bodies) = Len(a) + Len(bodies) /\ Len(bodies) \in Nat
          /\ \A n \in 1..(Len(a) + Len(bodies)) :
                (a \o bodies)[n] = IF n <= Len(a) THEN a[n] ELSE bodies[n - Len(a)]
      BY <1>2, <1>3, Joined, Zenon
    <3> QED
      BY <1>3, <3>1
  <2>2. ASSUME NEW n \in 1..(1 + Len(bodies)) PROVE (a \o bodies)[n] # "epilogue"
    <3>1. CASE n = 1
      BY <1>3, <2>1, <3>1
    <3>2. CASE n # 1
      <4>1. n - 1 \in 1..Len(bodies) /\ ~(n <= 1)
        BY <2>1, <3>2
      <4> QED
        BY <1>2, <2>1, <4>1
    <3> QED
      BY <3>1, <3>2
  <2> QED
    BY <2>1, <2>2
<1> DEFINE ab == a \o bodies
<1>6. ab \in Seq(S) /\ Len(ab) = 1 + Len(bodies) /\ \A n \in 1..Len(ab) : ab[n] # "epilogue"
  BY <1>5
<1> HIDE DEF ab
<1>7. /\ ab \o c \in Seq(S) /\ Len(ab \o c) = Len(ab) + 1 /\ Len(ab) \in Nat
      /\ \A n \in 1..(Len(ab) + 1) : (ab \o c)[n] = IF n <= Len(ab) THEN ab[n] ELSE c[n - Len(ab)]
  <2> HIDE DEF S
  <2>1. /\ ab \o c \in Seq(S) /\ Len(ab \o c) = Len(ab) + Len(c) /\ Len(ab) \in Nat
        /\ \A n \in 1..(Len(ab) + Len(c)) :
              (ab \o c)[n] = IF n <= Len(ab) THEN ab[n] ELSE c[n - Len(ab)]
    BY <1>3, <1>6, Joined, Zenon
  <2> QED
    BY <1>3, <2>1
<1>8. ASSUME NEW n \in 1..(Len(ab) + 1)
      PROVE  (ab \o c)[n] = "epilogue" <=> n = Len(ab) + 1
  <2>1. CASE n = Len(ab) + 1
    <3>1. n - Len(ab) = 1 /\ ~(n <= Len(ab))
      BY <1>7, <2>1
    <3> QED
      BY <1>3, <1>7, <2>1, <3>1
  <2>2. CASE n # Len(ab) + 1
    <3>1. n \in 1..Len(ab)
      BY <1>7, <2>2
    <3> QED
      BY <1>6, <1>7, <2>2, <3>1
  <2> QED
    BY <2>1, <2>2
<1> QED
  BY <1>4, <1>5, <1>6, <1>7, <1>8 DEF UfsShape, ab

\* What an entry may have been made of does not change.
LEMMA FixedOrigins ==
    ASSUME setup' = setup
    PROVE  Origins' = Origins
<1>1. \A tag : Place(tag.gpt)' = Place(tag.gpt)
  BY FixedLabel
<1>2. \A e, tag : Placed(e, tag)' <=> Placed(e, tag)
  BY <1>1 DEF Placed
<1> QED
  BY <1>2 DEF Origins

\* Nor do the entries for secdata.
LEMMA FixedSecdata ==
    ASSUME setup' = setup
    PROVE  SecdataPlain' <=> SecdataPlain
  BY FixedLists DEF SecdataPlain, OfSecdata, Whole

\* The lists are as they were, whatever else happens.
LEMMA ListsKept ==
    ASSUME ListsInv, UNCHANGED << setup, listVars >>
    PROVE  ListsInv' /\ Loaded' = Loaded
<1>1. /\ setup' = setup /\ docs' = docs /\ queue' = queue /\ ufsdoc' = ufsdoc
      /\ LoadOrder' = LoadOrder /\ Tags' = Tags /\ Origins' = Origins
  BY FixedLists, FixedOrigins DEF listVars
<1>3. Loaded' = Loaded
  BY <1>1 DEF Loaded
<1> QED
  BY <1>1, <1>3 DEF ListsInv

\* A document that is loaded: the lists, and what they hold of it.
LEMMA DocumentLoads ==
    ASSUME setup \in Setups, ListsInv, TakenInv, pc = "load", LoadDocument, docs' # docs
    PROVE  /\ setup' = setup /\ docs # << >> /\ ~DocRefused(Head(docs)) /\ docs' = Tail(docs)
           /\ pc' = (IF FusingChecked(Head(docs)) THEN "fusing" ELSE "load")
           /\ ret' = ret /\ ListsInv' /\ TakenInv' /\ Loaded' = Loaded + 1
<1> DEFINE doc == Head(docs)
           more == DocEntries(doc)
<1>1. /\ setup' = setup /\ docs # << >> /\ ~DocRefused(doc) /\ docs' = Tail(docs) /\ ret' = ret
      /\ pc' = (IF FusingChecked(doc) THEN "fusing" ELSE "load")
      /\ IF doc.type = "ufs" THEN ufsdoc' = UfsOrder(doc) /\ queue' = queue
         ELSE queue' = queue \o more /\ ufsdoc' = ufsdoc
  BY DEF LoadDocument, listVars, Fails
<1>2. /\ Loaded \in Nat /\ Loaded + 1 \in 1..Len(LoadOrder)
      /\ doc = LoadOrder[Loaded + 1] /\ DocFits(doc)
      /\ docs' \in Seq({d \in Documents : DocFits(d)})
      /\ Len(docs') = Len(docs) - 1 /\ Len(docs) \in Nat
      /\ \A i \in 1..Len(docs') : docs'[i] = LoadOrder[Loaded + 1 + i]
  BY <1>1, HeadLoaded
<1>3. LoadOrder' = LoadOrder /\ Tags' = Tags /\ Origins' = Origins
  BY <1>1, FixedLists, FixedOrigins
<1>4. Len(LoadOrder) \in Nat
  BY OrderFits
<1>5. Loaded' = Loaded + 1
  BY <1>2, <1>3, <1>4 DEF Loaded
<1>6. Len(docs') <= Len(LoadOrder')
  BY <1>2, <1>3, <1>4 DEF ListsInv
<1>7. \A i \in 1..Len(docs') : docs'[i] = LoadOrder'[Loaded' + i]
  BY <1>2, <1>3, <1>5
<1>8. CASE doc.type = "ufs"
  <2>1. UfsShape(UfsOrder(doc))
    BY <1>2, <1>8, UfsOrderShaped DEF DocFits
  <2>2. queue' = queue /\ ufsdoc' = UfsOrder(doc)
    BY <1>1, <1>8
  <2>3. ListsInv'
    <3>1. UfsShape(ufsdoc')
      BY <2>1, <2>2
    <3> HIDE DEF doc
    <3> QED
      BY <1>2, <1>3, <1>6, <1>7, <2>2, <3>1 DEF ListsInv, UfsShape, DocFits, FixedLists
  <2>4. TakenInv'
    <3>1. ASSUME NEW d \in 1..Loaded', LoadOrder[d].type # "ufs",
                 NEW n \in 1..Len(LoadOrder[d].tags), Whole(LoadOrder[d].tags[n])
          PROVE  \E k \in 1..Len(queue) : Made(queue[k], LoadOrder[d].tags[n])
      <4>1. d # Loaded + 1
        BY <1>2, <1>8, <3>1
      <4>2. d \in 1..Loaded
        BY <1>2, <1>5, <4>1
      <4> QED
        BY <3>1, <4>2 DEF TakenInv, Loading
    <3> QED
      BY <1>3, <2>2, <3>1 DEF TakenInv, Whole, Made
  <2> QED
    BY <1>1, <1>5, <2>3, <2>4
<1>9. CASE doc.type # "ufs"
  <2>1. /\ more \in Seq(DocTags)
        /\ \A k \in 1..Len(more) : \E n \in 1..Len(doc.tags) :
              Made(more[k], doc.tags[n]) /\ more[k].part = doc.tags[n].part
        /\ \A n \in 1..Len(doc.tags) : Whole(doc.tags[n]) /\ ~Refused(doc.tags[n]) =>
              \E k \in 1..Len(more) : Made(more[k], doc.tags[n])
    BY <1>2, <1>9, DocEntriesMade
  <2>2. queue' = queue \o more /\ ufsdoc' = ufsdoc
    BY <1>1, <1>9
  <2>3. queue \in Seq(DocTags)
    BY DEF ListsInv
  <2>4. /\ queue' \in Seq(DocTags) /\ Len(queue) \in Nat /\ Len(more) \in Nat
        /\ \A k \in 1..Len(queue) : k \in 1..Len(queue') /\ queue'[k] = queue[k]
        /\ \A k \in 1..Len(more) : Len(queue) + k \in 1..Len(queue') /\ queue'[Len(queue) + k] = more[k]
        /\ \A k \in 1..Len(queue') : k \in 1..Len(queue) \/
              (k - Len(queue) \in 1..Len(more) /\ queue'[k] = more[k - Len(queue)])
    <3> HIDE DEF more
    <3> QED
      BY <2>1, <2>2, <2>3, QueueGrows
  <2>5. ASSUME NEW k \in 1..Len(queue')
        PROVE  \E m \in 1..Len(Tags) : << queue'[k], Tags[m] >> \in Origins
    <3>1. CASE k \in 1..Len(queue)
      BY <2>4, <3>1 DEF ListsInv
    <3>2. CASE k - Len(queue) \in 1..Len(more) /\ queue'[k] = more[k - Len(queue)]
      <4>1. PICK n \in 1..Len(doc.tags) :
               Made(queue'[k], doc.tags[n]) /\ queue'[k].part = doc.tags[n].part
        BY <2>1, <3>2
      <4>2. PICK m \in 1..Len(Tags) : Tags[m] = doc.tags[n]
        <5>1. /\ Loaded + 1 \in 1..Len(LoadOrder) /\ LoadOrder[Loaded + 1].type # "ufs"
              /\ n \in 1..Len(LoadOrder[Loaded + 1].tags)
          BY <1>2, <1>9
        <5>2. \E m \in 1..Len(Tags) : Tags[m] = LoadOrder[Loaded + 1].tags[n]
          BY <5>1, TagsAre
        <5> QED
          BY <1>2, <5>2
      <4>3. queue'[k] \in DocTags /\ Tags[m] \in DocTags
        BY <2>4, ElementOfSeq, TagsAre
      <4> QED
        BY <4>1, <4>2, <4>3 DEF Origins, Placed
    <3> QED
      BY <2>4, <3>1, <3>2
  <2>6. ListsInv'
    <3> HIDE DEF doc, more
    <3>1. \A k \in 1..Len(queue') : \E m \in 1..Len(Tags') : << queue'[k], Tags'[m] >> \in Origins'
      BY <1>3, <2>5
    <3> QED
      BY <1>2, <1>3, <1>6, <1>7, <2>2, <2>4, <3>1 DEF ListsInv
  <2>7. TakenInv'
    <3>1. ASSUME NEW d \in 1..Loaded', LoadOrder[d].type # "ufs",
                 NEW n \in 1..Len(LoadOrder[d].tags), Whole(LoadOrder[d].tags[n])
          PROVE  \E k \in 1..Len(queue') : Made(queue'[k], LoadOrder[d].tags[n])
      <4>1. CASE d = Loaded + 1
        <5>1. LoadOrder[d] = doc
          BY <1>2, <4>1
        <5>2. ~Refused(doc.tags[n])
          <6>1. doc.tags[n] \in DocTags /\ TagFits(doc.type, doc.tags[n]) /\ doc.tags[n].kind = "program"
            BY <1>2, <1>9, <3>1, <5>1 DEF DocFits, Whole
          <6>2. doc.type \in {"program", "command"}
            BY <1>2, <1>9, <6>1 DEF TagFits, KindsIn, DocFits, Documents
          <6>3. CASE doc.type = "program"
            BY <1>1, <3>1, <5>1, <6>3 DEF DocRefused, SomeRefused
          <6>4. CASE doc.type = "command"
            <7>1. n = 1
              BY <1>2, <3>1, <5>1, <6>4 DEF DocFits
            <7>2. doc.tags[1].bad = FALSE
              BY <1>1, <6>1, <6>4, <7>1 DEF DocRefused, CommandRefused, DocTags
            <7> QED
              BY <3>1, <5>1, <6>1, <7>1, <7>2 DEF Refused, ProgramRefused, Whole
          <6> QED
            BY <6>2, <6>3, <6>4
        <5>3. \E k \in 1..Len(more) : Made(more[k], doc.tags[n])
          BY <2>1, <3>1, <5>1, <5>2
        <5> QED
          BY <2>4, <5>1, <5>3
      <4>2. CASE d # Loaded + 1
        <5>1. d \in 1..Loaded
          BY <1>2, <1>5, <4>2
        <5> QED
          BY <2>4, <3>1, <5>1 DEF TakenInv, Loading
      <4> QED
        BY <4>1, <4>2
    <3> HIDE DEF doc, more
    <3> QED
      BY <1>3, <3>1 DEF TakenInv, Loading
  <2> QED
    BY <1>1, <1>5, <2>6, <2>7
<1> QED
  BY <1>8, <1>9
-----------------------------------------------------------------------------
(* The steps of a command.                                                 *)

\* The constants of the model are listed because the provers do not know that
\* they are strings.
Words ==
    STRING \cup
    {"", "stop", "count", "negative", "skip", "ignore", "find", "each", "xml", "check", "print",
     "info", "power", "slot", "setslot", "read", "probe", "lun", "luns", "erase", "program",
     "patch", "backup", "resolve", "plan", "bootable", "check ufs", "commit ufs",
     "common", "body", "epilogue"}
AllSteps == [do : Words, label : Words, part : Seq(Nat), then : Seq(Words), fails : Words]
ChangingSteps == {"erase", "program", "patch"}
UfsSteps == {"check ufs", "commit ufs"}
TableSteps == {"find", "each", "xml", "resolve", "slot", "print"}

\* A command that changes what it finds under labels.
Meddles == Cmd \in {"erase", "write"} \/ (Flash /\ ~setup.erase_all)

\* A partition that may be changed by now.
Touchable(part) ==
    part \in Parts => Asked(part) # "old" \/ (part \in Named /\ ret # 0)

Gpts == [n \in 1..Len(queue) |-> queue[n].gpt]
Then(s) == {s.then[j] : j \in 1..Len(s.then)}
Allowed(s) ==
    /\ Then(s) \subseteq {"probe", "read", "erase", "program"}
    /\ s.do \in UfsSteps => Flash /\ Provisions
    /\ s.do = "find" =>
          /\ ~Flash
          /\ \E n \in 1..Len(setup.labels) : s.label = setup.labels[n]
          /\ Then(s) \cap ChangingSteps # {} =>
                (Cmd = "erase" /\ ~setup.raw) \/ (Cmd = "write" /\ s.label = setup.labels[1])
    /\ s.do = "each" /\ Then(s) \cap ChangingSteps # {} =>
          Cmd = "eraseall" \/ (Flash /\ setup.erase_all)
    /\ s.do = "resolve" =>
          /\ Flash /\ s.fails = "stop" /\ s.label # ""
          /\ s.part[1] \in 1..Len(Gpts) /\ Gpts[s.part[1]] = s.label
    /\ s.do = "plan" => Flash
    /\ s.do \in TableSteps /\ Meddles => s.do \in {"find", "resolve"} /\ s.fails \in {"stop", "count"}
    /\ s.do \in ChangingSteps => Touchable(s.part)
Fit == {s \in AllSteps : Allowed(s)}
-----------------------------------------------------------------------------
(* The tables.                                                             *)
RowOf(part) ==
    [label |-> LabelOf(part), active |-> Disk[part[1]].parts[part[2]].active, part |-> part]
RowSet == {RowOf(part) : part \in Parts}

\* The list has the partitions of the first k LUNs, each once and in their order.
UpTo(k) == {part \in Parts : part[1] <= k}
Covers(rows, k) ==
    /\ {rows[n].part : n \in 1..Len(rows)} = UpTo(k)
    /\ \A m, n \in 1..Len(rows) :
          /\ m < n => rows[m].part[1] <= rows[n].part[1]
          /\ rows[m].part = rows[n].part => m = n
Whence == \E k \in 0..Len(Disk) : Covers(cache, k)

TableInv ==
    /\ cache \in Seq(RowSet) /\ lun \in 0..Len(Disk)
    /\ Nand => cache = << >>
    /\ Meddles /\ ~Nand /\ lun > 0 => Covers(cache, lun)
    /\ Meddles /\ ~Nand => Whence \/ (ret # 0 /\ (Flash => steps = << >>))
-----------------------------------------------------------------------------
(* The provisioning: k is the place of the next step, of the second pass   *)
(* when it is beyond the length of the document.                           *)
Turn(k) == IF k <= Len(ufsdoc) THEN k ELSE k - Len(ufsdoc)
Ahead(k) ==
    /\ Len(steps) = 2 * Len(ufsdoc) + 1 - k
    /\ \A n \in 1..Len(steps) : steps[n] = Provision[k + n - 1]
    /\ ufs.staged = SubSeq(ufsdoc, 1, Turn(k) - 1) /\ ufs.applied = << >>
    /\ ufs.checked = (IF k <= Len(ufsdoc) THEN << >> ELSE ufsdoc)
Unused == ufs.staged = << >> /\ ufs.checked = << >> /\ ufs.applied = << >>
UfsInv ==
    /\ DOMAIN ufs = {"staged", "checked", "applied", "boot"}
    /\ IF Flash /\ Provisions
       THEN \/ steps = << >> /\ (ufs.applied # << >> => ufs.applied = ufs.checked)
            \/ \E k \in 1..(2 * Len(ufsdoc)) : Ahead(k)
       ELSE Unused
-----------------------------------------------------------------------------
(* The way of a command through the program, and the whole invariant.      *)
PathInv ==
    /\ pc \in {"load", "fusing"} => Flash
    /\ Cmd = "diag2edl" => pc \in {"start", "scan", "exit"}
    /\ Cmd = "ramdump" => pc \notin {"load", "fusing", "configure", "work", "stuck"}
    /\ pc \in Early => Fresh

StoreInv ==
    /\ DOMAIN store = Parts
    /\ \A part \in Parts : store[part] # "old" => Touchable(part)

ChangeInv ==
    /\ setup \in Setups /\ PathInv
    /\ ListsInv /\ TakenInv /\ FusingInv /\ VerifiedInv
    /\ steps \in Seq(Fit) /\ TableInv /\ UfsInv /\ StoreInv
-----------------------------------------------------------------------------
(* What is checked before the modem is opened.                             *)

\* While documents are loaded nothing leaves the lists.
LEMMA LoadingKept ==
    ASSUME ListsInv, TakenInv, UNCHANGED << setup, listVars >>, pc' \in Loading => pc \in Loading
    PROVE  ListsInv' /\ TakenInv'
<1>1. /\ setup' = setup /\ docs' = docs /\ queue' = queue /\ ufsdoc' = ufsdoc
      /\ LoadOrder' = LoadOrder /\ Loaded' = Loaded /\ ListsInv'
  BY ListsKept, FixedLists DEF listVars
<1>2. CASE pc' \in Loading
  <2>1. \A d \in 1..Loaded : LoadOrder[d].type # "ufs" =>
            \A n \in 1..Len(LoadOrder[d].tags) : Whole(LoadOrder[d].tags[n]) =>
                \E k \in 1..Len(queue) : Made(queue[k], LoadOrder[d].tags[n])
    BY <1>2 DEF TakenInv, Loading
  <2> QED
    BY <1>1, <2>1 DEF TakenInv, Loading
<1>3. CASE pc' \notin Loading
  BY <1>1, <1>3 DEF TakenInv
<1> QED
  BY <1>1, <1>2, <1>3

\* The first entry for secdata stands for all of them.
LEMMA FusingPasses ==
    ASSUME setup \in Setups, ListsInv, TakenInv, pc = "fusing", ~FusesSecdata, SecdataPlain
    PROVE  Harmless
<1> SUFFICES ASSUME NEW d \in 1..Loaded, LoadOrder[d].type # "ufs",
                    NEW n \in 1..Len(LoadOrder[d].tags), Whole(LoadOrder[d].tags[n]),
                    LoadOrder[d].tags[n].label = "secdata"
             PROVE  FALSE
  BY DEF Harmless
<1> DEFINE tag == LoadOrder[d].tags[n]
<1>1. PICK k \in 1..Len(queue) : Made(queue[k], tag)
  BY DEF TakenInv, Loading
<1>2. Len(LoadOrder) \in Nat /\ Loaded <= Len(LoadOrder)
  BY OrderFits, LenProperties DEF Loaded, ListsInv
<1>3. d \in 1..Len(LoadOrder)
  BY <1>2 DEF Loaded
<1>4. PICK m \in 1..Len(Tags) : Tags[m] = tag
  BY <1>3, TagsAre
<1>5. OfSecdata(tag)
  BY DEF OfSecdata, Whole
<1>6. k \in Labelled("secdata")
  BY <1>1 DEF Labelled, Programs, Made, Whole
<1>7. Labelled("secdata") \subseteq 1..Len(queue) /\ Len(queue) \in Nat
  BY DEF Labelled, Programs, ListsInv
<1> DEFINE f == Min(Labelled("secdata"))
<1>8. f \in Labelled("secdata")
  BY <1>6, <1>7, Extremes
<1>9. f \in 1..Len(queue) /\ queue[f].kind = "program" /\ queue[f].label = "secdata"
  BY <1>8 DEF Labelled, Programs
<1>10. ~queue[f].live
  BY <1>6 DEF FusesSecdata
<1> HIDE DEF f, tag
<1>11. PICK i \in 1..Len(Tags) : << queue[f], Tags[i] >> \in Origins
  BY <1>9 DEF ListsInv
<1>12. Made(queue[f], Tags[i])
  BY <1>11 DEF Origins
<1>13. OfSecdata(Tags[i])
  BY <1>9, <1>12 DEF OfSecdata, Made
<1>14. Whole(Tags[m]) /\ OfSecdata(Tags[m])
  BY <1>4, <1>5 DEF tag
<1>15. Whole(Tags[i])
  BY <1>13, <1>14 DEF SecdataPlain
<1> QED
  BY <1>10, <1>12, <1>15 DEF Made

\* When the images have the sums they should have, all is checked.
LEMMA Md5Passes ==
    ASSUME setup \in Setups, ListsInv, TakenInv, FusingInv, pc = "load", docs = << >>, ~SomeAltered
    PROVE  Verified
<1> SUFFICES ASSUME NEW m \in 1..Len(Tags), Whole(Tags[m]) PROVE Checked(Tags[m])
  BY DEF Verified
<1>1. PICK d \in 1..Len(LoadOrder) : LoadOrder[d].type # "ufs" /\
         \E n \in 1..Len(LoadOrder[d].tags) : Tags[m] = LoadOrder[d].tags[n]
  BY TagsAre
<1>2. PICK n \in 1..Len(LoadOrder[d].tags) : Tags[m] = LoadOrder[d].tags[n]
  BY <1>1
<1>3. Len(LoadOrder) \in Nat
  BY OrderFits
<1>4. Loaded = Len(LoadOrder)
  BY <1>3 DEF Loaded
<1>5. PICK k \in 1..Len(queue) : Made(queue[k], Tags[m])
  BY <1>1, <1>2, <1>4 DEF TakenInv, Loading
<1>6. setup.skip_md5 \/ ~(Tags[m].md5 /\ Tags[m].file = "altered")
  BY <1>5 DEF SomeAltered, Altered, Made, Whole
<1>7. SecdataPlain /\ Tags[m].label = "secdata" => setup.allow_fusing
  <2> SUFFICES ASSUME SecdataPlain, ~setup.allow_fusing PROVE Tags[m].label # "secdata"
    OBVIOUS
  <2>1. Harmless
    BY DEF FusingInv
  <2> QED
    BY <1>1, <1>2, <1>4, <2>1 DEF Harmless
<1> QED
  BY <1>6, <1>7 DEF Checked

\* A document that no check follows brings no image for secdata.
LEMMA DocumentHarmless ==
    ASSUME setup \in Setups, ListsInv, TakenInv, FusingInv, pc = "load", LoadDocument, docs' # docs
    PROVE  FusingInv'
<1>1. /\ setup' = setup /\ docs # << >> /\ ~DocRefused(Head(docs)) /\ docs' = Tail(docs)
      /\ pc' = (IF FusingChecked(Head(docs)) THEN "fusing" ELSE "load") /\ Loaded' = Loaded + 1
  BY DocumentLoads
<1>2. LoadOrder' = LoadOrder /\ (SecdataPlain' <=> SecdataPlain)
  BY <1>1, FixedLists, FixedSecdata
<1> SUFFICES ASSUME pc' = "load", ~setup.allow_fusing, SecdataPlain, setup.firmware => docs' = << >>
             PROVE  Harmless'
  BY <1>1, <1>2 DEF FusingInv
<1>3. /\ Loaded \in Nat /\ Loaded + 1 \in 1..Len(LoadOrder)
      /\ Head(docs) = LoadOrder[Loaded + 1] /\ DocFits(Head(docs))
      /\ Len(docs') = Len(docs) - 1 /\ Len(docs) \in Nat
  BY <1>1, HeadLoaded
<1>4. ~FusingChecked(Head(docs))
  BY <1>1
<1>5. ~setup.firmware /\ Head(docs).type # "program"
  <2>1. CASE setup.firmware
    <3>1. Len(docs') = 0
      BY <2>1
    <3>2. Len(docs) = 1
      BY <1>3, <3>1
    <3> QED
      BY <1>4, <2>1, <3>2 DEF FusingChecked
  <2> QED
    BY <1>4, <2>1 DEF FusingChecked
<1>6. Harmless
  BY <1>5 DEF FusingInv
<1>7. ASSUME NEW d \in 1..(Loaded + 1), LoadOrder[d].type # "ufs",
             NEW n \in 1..Len(LoadOrder[d].tags), Whole(LoadOrder[d].tags[n])
      PROVE  LoadOrder[d].tags[n].label # "secdata"
  <2>1. CASE d = Loaded + 1
    <3>1. LoadOrder[d] = Head(docs)
      BY <1>3, <2>1
    <3>2. TagFits(Head(docs).type, LoadOrder[d].tags[n]) /\ LoadOrder[d].tags[n].kind = "program"
      BY <1>3, <1>7, <3>1 DEF DocFits, Whole
    <3>3. Head(docs).type = "command"
      BY <1>3, <1>5, <1>7, <3>1, <3>2 DEF TagFits, KindsIn, DocFits, Documents
    <3> QED
      BY <1>3, <2>1, <3>1, <3>3 DEF SecdataPlain
  <2>2. CASE d # Loaded + 1
    <3>1. d \in 1..Loaded
      BY <1>3, <2>2
    <3> QED
      BY <1>6, <1>7, <3>1 DEF Harmless
  <2> QED
    BY <2>1, <2>2
<1> QED
  BY <1>1, <1>2, <1>7 DEF Harmless, Whole

\* What is checked stays checked.
LEMMA VerifiedKept ==
    ASSUME setup' = setup, docs' = docs
    PROVE  Verified' <=> Verified
<1>1. Tags' = Tags /\ (SecdataPlain' <=> SecdataPlain)
  BY FixedLists, FixedSecdata
<1> QED
  BY <1>1 DEF Verified, Checked, Whole

\* A modem that is not touched is as it was.
LEMMA UntouchedKept ==
    ASSUME setup' = setup, store' = store
    PROVE  Untouched' <=> Untouched
  BY FixedDisk DEF Untouched

\* Loading and checking keep what they are to see to.
LEMMA LoadHolds ==
    ASSUME setup \in Setups, ListsInv, TakenInv, FusingInv, Untouched, store' = store,
           LoadDocument \/ CheckFusing \/ VerifyMd5(FirstPc) \/ Hang
    PROVE  /\ setup' = setup /\ pc \in {"load", "fusing"}
           /\ ListsInv' /\ TakenInv' /\ FusingInv' /\ VerifiedInv'
<1>1. setup' = setup /\ pc \in {"load", "fusing"}
  BY DEF LoadDocument, CheckFusing, VerifyMd5, Hang, Goto, Fails
<1>2. Untouched'
  BY <1>1, UntouchedKept
<1>3. FirstPc \in {"scan", "prepare"}
  BY DEF FirstPc
<1>4. CASE LoadDocument /\ docs' # docs
  <2>1. ListsInv' /\ TakenInv' /\ pc' \in {"load", "fusing"}
    <3>1. pc = "load"
      BY <1>4 DEF LoadDocument
    <3> QED
      BY <1>4, <3>1, DocumentLoads
  <2>2. FusingInv'
    <3>1. pc = "load"
      BY <1>4 DEF LoadDocument
    <3> QED
      BY <1>4, <3>1, DocumentHarmless
  <2> QED
    BY <1>1, <2>1, <2>2 DEF VerifiedInv, Loading
<1>5. CASE LoadDocument /\ docs' = docs
  <2>1. docs # << >> /\ Tail(docs) # docs
    <3>1. docs # << >>
      BY <1>5 DEF LoadDocument
    <3>2. Len(Tail(docs)) = Len(docs) - 1 /\ Len(docs) \in Nat
      BY <3>1, HeadLoaded
    <3>3. Len(docs) # Len(docs) - 1
      BY <3>2
    <3> QED
      BY <3>1, <3>2, <3>3
  <2>2. UNCHANGED listVars /\ pc' = "exit"
    BY <1>5, <2>1 DEF LoadDocument, Fails
  <2>3. ListsInv' /\ TakenInv'
    BY <1>1, <2>2, LoadingKept DEF Loading
  <2> QED
    BY <1>1, <1>2, <2>2, <2>3 DEF FusingInv, VerifiedInv, Loading
<1>6. CASE CheckFusing
  <2>1. UNCHANGED listVars /\ pc = "fusing" /\ pc' \in {"exit", "load"} /\ (pc' = "load" => ~FusesSecdata)
    BY <1>6 DEF CheckFusing, Goto, Fails
  <2>2. ListsInv' /\ TakenInv' /\ Loaded' = Loaded
    BY <1>1, <2>1, LoadingKept, ListsKept DEF Loading
  <2>3. FusingInv'
    <3> SUFFICES ASSUME pc' = "load", SecdataPlain' PROVE Harmless'
      BY <2>1 DEF FusingInv
    <3>1. SecdataPlain /\ LoadOrder' = LoadOrder
      BY <1>1, FixedLists, FixedSecdata
    <3>2. Harmless
      BY <2>1, <3>1, FusingPasses
    <3> QED
      BY <2>2, <3>1, <3>2 DEF Harmless, Whole
  <2> QED
    BY <1>1, <1>2, <2>1, <2>2, <2>3 DEF VerifiedInv, Loading
<1>7. CASE VerifyMd5(FirstPc)
  <2>1. /\ UNCHANGED listVars /\ docs' = docs /\ pc = "load" /\ docs = << >>
        /\ pc' = "exit" \/ (pc' = FirstPc /\ ~SomeAltered)
    BY <1>7 DEF VerifyMd5, Goto, Fails, listVars
  <2>2. ListsInv' /\ TakenInv'
    BY <1>1, <2>1, LoadingKept DEF Loading
  <2>3. FusingInv'
    BY <1>3, <2>1 DEF FusingInv
  <2>4. pc' = FirstPc => Verified'
    <3>1. ~SomeAltered => Verified
      BY <2>1, Md5Passes
    <3> QED
      BY <1>1, <1>3, <2>1, <3>1, VerifiedKept
  <2> QED
    BY <1>1, <1>2, <1>3, <2>1, <2>2, <2>3, <2>4 DEF VerifiedInv, Loading
<1>8. CASE Hang
  <2>1. UNCHANGED listVars /\ pc' = "stuck"
    BY <1>8 DEF Hang, Goto
  <2>2. ListsInv' /\ TakenInv'
    BY <1>1, <2>1, LoadingKept DEF Loading
  <2> QED
    BY <1>1, <1>2, <2>1, <2>2 DEF FusingInv, VerifiedInv, Loading
<1> QED
  BY <1>4, <1>5, <1>6, <1>7, <1>8
-----------------------------------------------------------------------------
(* Partitions and rows.                                                    *)

\* The disk of a command line.
LEMMA DiskTyped ==
    ASSUME setup \in Setups
    PROVE  /\ SetupFits(setup) /\ Disk \in Seq(Luns) /\ Len(Disk) \in Nat
           /\ \A l \in 1..Len(Disk) : Disk[l] \in Luns /\ Len(Disk[l].parts) \in Nat
<1>1. SetupFits(setup)
  BY SetupsAssumption DEF SetupsAssumption
<1>2. Disk \in Seq(Luns)
  BY <1>1 DEF SetupFits, Disk
<1>3. Len(Disk) \in Nat /\ \A l \in 1..Len(Disk) : Disk[l] \in Luns
  BY <1>2
<1>4. ASSUME NEW l \in 1..Len(Disk) PROVE Len(Disk[l].parts) \in Nat
  <2>1. Disk[l].parts \in Seq([label : STRING, active : BOOLEAN])
    BY <1>3 DEF Luns
  <2> QED
    BY <2>1
<1> QED
  BY <1>1, <1>2, <1>3, <1>4

\* A partition is its LUN and its place in the table of it.
LEMMA PartsAre ==
    ASSUME setup \in Setups
    PROVE  /\ \A part \in Parts :
                 /\ part[1] \in 1..Len(Disk) /\ part[2] \in 1..Len(Disk[part[1]].parts)
                 /\ part = << part[1], part[2] >> /\ part \in Seq(Nat)
           /\ \A l \in 1..Len(Disk) : \A p \in 1..Len(Disk[l].parts) : << l, p >> \in Parts
<1>1. ASSUME NEW part \in Parts
      PROVE  /\ part[1] \in 1..Len(Disk) /\ part[2] \in 1..Len(Disk[part[1]].parts)
             /\ part = << part[1], part[2] >> /\ part \in Seq(Nat)
  <2>1. PICK l \in 1..Len(Disk) : part \in {<< l, p >> : p \in 1..Len(Disk[l].parts)}
    BY DEF Parts
  <2>2. PICK p \in 1..Len(Disk[l].parts) : part = << l, p >>
    BY <2>1
  <2>3. l \in Nat /\ p \in Nat
    BY DiskTyped
  <2>4. << l, p >> \in Seq(Nat)
    BY <2>3
  <2> QED
    BY <2>2, <2>4
<1>2. ASSUME NEW l \in 1..Len(Disk), NEW p \in 1..Len(Disk[l].parts)
      PROVE  << l, p >> \in Parts
  <2>1. << l, p >> \in {<< l, q >> : q \in 1..Len(Disk[l].parts)}
    OBVIOUS
  <2> QED
    BY <2>1 DEF Parts
<1> QED
  BY <1>1, <1>2

\* A row is the partition it stands for, with its label.
LEMMA RowsFit ==
    ASSUME setup \in Setups, NEW rows, rows \in Seq(RowSet)
    PROVE  /\ Len(rows) \in Nat
           /\ \A n \in 1..Len(rows) :
                 /\ rows[n].part \in Parts /\ rows[n] = RowOf(rows[n].part)
                 /\ rows[n].label = LabelOf(rows[n].part) /\ rows[n].part[1] \in 1..Len(Disk)
<1>1. Len(rows) \in Nat
  OBVIOUS
<1>2. ASSUME NEW n \in 1..Len(rows)
      PROVE  /\ rows[n].part \in Parts /\ rows[n] = RowOf(rows[n].part)
             /\ rows[n].label = LabelOf(rows[n].part) /\ rows[n].part[1] \in 1..Len(Disk)
  <2>1. PICK part \in Parts : rows[n] = RowOf(part)
    BY DEF RowSet
  <2>2. rows[n].part = part /\ rows[n].label = LabelOf(part)
    BY <2>1 DEF RowOf
  <2> QED
    BY <2>1, <2>2, PartsAre
<1> QED
  BY <1>1, <1>2

\* The rows of a LUN.
LEMMA RowsAre ==
    ASSUME setup \in Setups, NEW l \in 1..Len(Disk)
    PROVE  /\ Rows(l) \in Seq(RowSet) /\ Len(Rows(l)) = Len(Disk[l].parts)
           /\ \A p \in 1..Len(Rows(l)) : Rows(l)[p] = RowOf(<< l, p >>) /\ Rows(l)[p].part = << l, p >>
<1> DEFINE N == Len(Disk[l].parts)
<1>1. N \in Nat
  BY DiskTyped
<1>2. ASSUME NEW p \in 1..N
      PROVE  /\ RowOf(<< l, p >>) \in RowSet
             /\ RowOf(<< l, p >>) = [label |-> Disk[l].parts[p].label,
                                     active |-> Disk[l].parts[p].active, part |-> << l, p >>]
  BY PartsAre DEF RowSet, RowOf, LabelOf
<1>3. Rows(l) = [p \in 1..N |-> RowOf(<< l, p >>)]
  BY <1>2 DEF Rows
<1>4. Rows(l) \in [1..N -> RowSet]
  BY <1>2, <1>3
<1>5. Rows(l) \in Seq(RowSet) /\ Len(Rows(l)) = N
  BY <1>1, <1>4, SeqDef, LenProperties
<1>6. ASSUME NEW p \in 1..N
      PROVE  Rows(l)[p] = RowOf(<< l, p >>) /\ Rows(l)[p].part = << l, p >>
  <2>1. Rows(l)[p] = RowOf(<< l, p >>)
    BY <1>3
  <2>2. RowOf(<< l, p >>).part = << l, p >>
    BY DEF RowOf
  <2> QED
    BY <2>1, <2>2
<1> QED
  BY <1>5, <1>6

\* The rows of the tables do not change.
LEMMA FixedRows ==
    ASSUME setup' = setup
    PROVE  /\ RowSet' = RowSet
           /\ \A k : UpTo(k)' = UpTo(k)
           /\ \A rows, k : Covers(rows, k)' <=> Covers(rows, k)
           /\ Meddles' = Meddles /\ Named' = Named
<1>1. Disk' = Disk /\ Parts' = Parts /\ Cmd' = Cmd /\ Flash' = Flash
  BY FixedDisk
<1>2. \A part : LabelOf(part)' = LabelOf(part) /\ RowOf(part)' = RowOf(part)
  BY <1>1 DEF LabelOf, RowOf
<1>3. \A k : UpTo(k)' = UpTo(k)
  BY <1>1 DEF UpTo
<1>4. \A label : Called(label)' = Called(label)
  BY <1>1, <1>2 DEF Called
<1> QED
  BY <1>1, <1>2, <1>3, <1>4 DEF RowSet, Covers, Meddles, Named

\* Nothing is listed yet.
LEMMA CoversNone ==
    ASSUME setup \in Setups
    PROVE  Covers(<< >>, 0)
<1>1. UpTo(0) = {}
  BY PartsAre DEF UpTo
<1> QED
  BY <1>1 DEF Covers

\* A LUN without partitions adds nothing.
LEMMA CoversBlank ==
    ASSUME setup \in Setups, NEW rows, NEW k \in 0..(Len(Disk) - 1), Covers(rows, k),
           ~Nand, Disk[k + 1].kind = "blank"
    PROVE  Covers(rows, k + 1)
<1>1. k + 1 \in 1..Len(Disk) /\ k \in Nat
  BY DiskTyped
<1>2. Disk[k + 1].parts = << >>
  BY <1>1, DiskTyped DEF SetupFits, Nand, Disk
<1>3. UpTo(k + 1) = UpTo(k)
  <2>1. ASSUME NEW part \in Parts, part[1] <= k + 1 PROVE part[1] <= k
    <3>1. part[1] \in 1..Len(Disk) /\ part[2] \in 1..Len(Disk[part[1]].parts)
      BY PartsAre
    <3>2. part[1] # k + 1
      BY <1>2, <3>1
    <3> QED
      BY <1>1, <2>1, <3>1, <3>2, DiskTyped
  <2>2. ASSUME NEW part \in Parts, part[1] <= k PROVE part[1] <= k + 1
    BY <1>1, <2>2, PartsAre, DiskTyped
  <2> QED
    BY <2>1, <2>2 DEF UpTo
<1> QED
  BY <1>3 DEF Covers

\* The partitions of the next LUN follow those of the LUNs before it.
LEMMA CoversNext ==
    ASSUME setup \in Setups, NEW rows, rows \in Seq(RowSet),
           NEW k \in 0..(Len(Disk) - 1), Covers(rows, k)
    PROVE  /\ rows \o Rows(k + 1) \in Seq(RowSet)
           /\ Covers(rows \o Rows(k + 1), k + 1)
<1> DEFINE more == Rows(k + 1)
           all == rows \o more
           A == Len(rows)
           B == Len(more)
<1>1. k + 1 \in 1..Len(Disk) /\ k \in Nat /\ Len(Disk) \in Nat
  BY DiskTyped
<1>2. /\ more \in Seq(RowSet) /\ B = Len(Disk[k + 1].parts) /\ B \in Nat
      /\ \A p \in 1..B : more[p].part = << k + 1, p >>
  BY <1>1, RowsAre, DiskTyped
<1>3. A \in Nat /\ \A n \in 1..A : rows[n].part \in Parts /\ rows[n].part[1] \in 1..Len(Disk)
  BY RowsFit
<1>4. \A n \in 1..A : rows[n].part[1] <= k
  <2> SUFFICES ASSUME NEW n \in 1..A PROVE rows[n].part[1] <= k
    OBVIOUS
  <2>1. rows[n].part \in UpTo(k)
    BY DEF Covers
  <2> QED
    BY <2>1 DEF UpTo
<1> HIDE DEF more
<1>5. /\ all \in Seq(RowSet) /\ Len(all) = A + B
      /\ \A n \in 1..(A + B) : all[n] = IF n <= A THEN rows[n] ELSE more[n - A]
  BY <1>2, ConcatProperties, Zenon
<1>6. \A n \in 1..A : n \in 1..(A + B) /\ all[n] = rows[n]
  BY <1>2, <1>3, <1>5
<1>7. \A p \in 1..B : A + p \in 1..(A + B) /\ all[A + p] = more[p]
  <2> SUFFICES ASSUME NEW p \in 1..B PROVE A + p \in 1..(A + B) /\ all[A + p] = more[p]
    OBVIOUS
  <2>1. A + p \in 1..(A + B) /\ ~(A + p <= A) /\ (A + p) - A = p
    BY <1>2, <1>3
  <2> QED
    BY <1>5, <2>1
<1>8. \A n \in 1..(A + B) : n \in 1..A \/ (n - A \in 1..B /\ n = A + (n - A))
  BY <1>2, <1>3
<1> HIDE DEF all, A, B
<1>9. {all[n].part : n \in 1..Len(all)} = UpTo(k + 1)
  <2>1. ASSUME NEW n \in 1..(A + B) PROVE all[n].part \in UpTo(k + 1)
    <3>1. CASE n \in 1..A
      <4>1. all[n].part \in Parts /\ all[n].part[1] <= k /\ all[n].part[1] \in 1..Len(Disk)
        BY <1>3, <1>4, <1>6, <3>1
      <4> QED
        BY <1>1, <4>1 DEF UpTo
    <3>2. CASE n - A \in 1..B /\ n = A + (n - A)
      <4>1. all[n].part = << k + 1, n - A >>
        BY <1>2, <1>7, <3>2
      <4>2. << k + 1, n - A >> \in Parts
        BY <1>1, <1>2, <3>2, PartsAre
      <4> QED
        BY <1>1, <4>1, <4>2 DEF UpTo
    <3> QED
      BY <1>8, <3>1, <3>2
  <2>2. ASSUME NEW part \in UpTo(k + 1) PROVE \E n \in 1..(A + B) : all[n].part = part
    <3>1. /\ part \in Parts /\ part[1] <= k + 1 /\ part[1] \in 1..Len(Disk)
          /\ part[2] \in 1..Len(Disk[part[1]].parts) /\ part = << part[1], part[2] >>
      BY PartsAre DEF UpTo
    <3>2. CASE part[1] = k + 1
      <4>1. part[2] \in 1..B /\ more[part[2]].part = part
        BY <1>2, <3>1, <3>2
      <4> QED
        BY <1>7, <4>1
    <3>3. CASE part[1] # k + 1
      <4>1. part \in UpTo(k)
        BY <1>1, <3>1, <3>3 DEF UpTo
      <4>2. PICK n \in 1..A : rows[n].part = part
        BY <4>1 DEF Covers, A
      <4> QED
        BY <1>6, <4>2
    <3> QED
      BY <3>2, <3>3
  <2> QED
    BY <1>5, <2>1, <2>2
<1>10. ASSUME NEW m \in 1..(A + B), NEW n \in 1..(A + B)
       PROVE  /\ m < n => all[m].part[1] <= all[n].part[1]
              /\ all[m].part = all[n].part => m = n
  <2>1. CASE m \in 1..A /\ n \in 1..A
    BY <1>6, <2>1 DEF Covers, A
  <2>2. CASE m \in 1..A /\ n - A \in 1..B /\ n = A + (n - A)
    <3>1. all[m].part[1] <= k /\ all[m].part[1] \in 1..Len(Disk)
      BY <1>3, <1>4, <1>6, <2>2
    <3>2. all[n].part = << k + 1, n - A >>
      BY <1>2, <1>7, <2>2
    <3>3. all[n].part[1] = k + 1
      BY <3>2
    <3> QED
      BY <1>1, <3>1, <3>3
  <2>3. CASE m - A \in 1..B /\ m = A + (m - A) /\ n \in 1..A
    <3>1. all[n].part[1] <= k /\ all[n].part[1] \in 1..Len(Disk)
      BY <1>3, <1>4, <1>6, <2>3
    <3>2. all[m].part = << k + 1, m - A >>
      BY <1>2, <1>7, <2>3
    <3>3. all[m].part[1] = k + 1
      BY <3>2
    <3>4. ~(m < n)
      BY <1>2, <1>3, <2>3
    <3> QED
      BY <1>1, <3>1, <3>3, <3>4
  <2>4. CASE m - A \in 1..B /\ m = A + (m - A) /\ n - A \in 1..B /\ n = A + (n - A)
    <3>1. all[m].part = << k + 1, m - A >> /\ all[n].part = << k + 1, n - A >>
      BY <1>2, <1>7, <2>4
    <3>2. all[m].part[1] = k + 1 /\ all[n].part[1] = k + 1 /\ all[m].part[2] = m - A /\ all[n].part[2] = n - A
      BY <3>1
    <3> QED
      BY <1>1, <2>4, <3>2
  <2> QED
    BY <1>8, <2>1, <2>2, <2>3, <2>4
<1> QED
  BY <1>5, <1>9, <1>10 DEF Covers, all, more
-----------------------------------------------------------------------------
(* A label that is found is found where it is.                             *)

\* A set of places with one element.
LEMMA OneOf ==
    ASSUME NEW S, NEW N \in Nat, S \subseteq 1..N
    PROVE  Cardinality(S) = 1 <=> \E x : S = {x}
<1>1. IsFiniteSet(1..N)
  BY FS_Interval
<1>2. IsFiniteSet(S)
  BY <1>1, FS_Subset
<1> QED
  BY <1>2, FS_Singleton

\* Where the tables are looked at, in any step.
LEMMA FoundNamed ==
    ASSUME setup \in Setups, NEW label, Table \in Seq(RowSet), Matches(label) # {}
    PROVE  /\ Min(Matches(label)) \in Matches(label)
           /\ \A n \in Matches(label) : Min(Matches(label)) <= n
           /\ FoundPart(label) \in Called(label)
<1>1. Len(Table) \in Nat /\ Matches(label) \subseteq 1..Len(Table)
  BY RowsFit DEF Matches, Bearing
<1>2. Min(Matches(label)) \in Matches(label) /\ \A n \in Matches(label) : Min(Matches(label)) <= n
  BY <1>1, Extremes
<1>3. Min(Matches(label)) \in 1..Len(Table) /\ Table[Min(Matches(label))].label = label
  BY <1>2 DEF Matches, Bearing
<1> QED
  BY <1>2, <1>3, RowsFit DEF FoundPart, Called

\* A label that is on the list once, on the first LUN of the list that has it,
\* is at its place when the list is complete up to some LUN.
LEMMA FoundIsPlace ==
    ASSUME setup \in Setups, NEW label, NEW rows, rows \in Seq(RowSet), Table = rows,
           NEW k \in 0..Len(Disk), Covers(rows, k), Cardinality(Matches(label)) = 1
    PROVE  FoundPart(label) = Place(label)
<1>1. /\ Len(rows) \in Nat /\ Bearing(label) \subseteq 1..Len(rows)
      /\ Matches(label) \subseteq Bearing(label)
  BY RowsFit DEF Matches, Bearing
<1>2. PICK n : Matches(label) = {n}
  BY <1>1, OneOf
<1>3. n \in 1..Len(rows) /\ n \in Bearing(label) /\ Min(Matches(label)) = n
  <2>1. Min(Matches(label)) \in Matches(label)
    BY <1>2, FoundNamed
  <2> QED
    BY <1>1, <1>2, <2>1
<1> DEFINE first == Min(Bearing(label))
           part == rows[n].part
<1>4. first \in Bearing(label) /\ \A m \in Bearing(label) : first <= m
  BY <1>1, <1>3, Extremes
<1>5. rows[n].part[1] = rows[first].part[1]
  BY <1>2 DEF Matches
<1>6. part \in Parts /\ LabelOf(part) = label /\ part[1] \in 1..Len(Disk) /\ part \in Called(label)
  <2>1. rows[n].label = label
    BY <1>3 DEF Bearing
  <2> QED
    BY <1>3, <2>1, RowsFit DEF Called
<1>7. part[1] <= k
  <2>1. part \in UpTo(k)
    BY <1>3 DEF Covers
  <2> QED
    BY <2>1 DEF UpTo
<1> HIDE DEF part, first
<1>8. ASSUME NEW q \in Called(label) PROVE part[1] <= q[1]
  <2>1. q \in Parts /\ LabelOf(q) = label /\ q[1] \in 1..Len(Disk)
    BY PartsAre DEF Called
  <2>2. CASE q[1] <= k
    <3>1. PICK m \in 1..Len(rows) : rows[m].part = q
      BY <2>1, <2>2 DEF Covers, UpTo
    <3>2. m \in Bearing(label)
      BY <2>1, <3>1, RowsFit DEF Bearing
    <3>3. first <= m /\ first \in 1..Len(rows)
      BY <1>1, <1>4, <3>2
    <3>4. rows[first].part[1] <= rows[m].part[1]
      <4>1. CASE first < m
        BY <3>1, <3>3, <4>1 DEF Covers
      <4>2. CASE first = m
        BY <2>1, <3>1, <4>2, RowsFit
      <4> QED
        BY <3>1, <3>3, <4>1, <4>2
    <3> QED
      BY <1>5, <3>1, <3>4 DEF part
  <2>3. CASE ~(q[1] <= k)
    BY <1>6, <1>7, <2>1, <2>3, DiskTyped
  <2> QED
    BY <2>2, <2>3
<1>9. ASSUME NEW q \in FirstLun(label) PROVE q = part
  <2>1. q \in Called(label) /\ q[1] <= part[1]
    BY <1>6 DEF FirstLun
  <2>2. part[1] <= q[1] /\ q \in Parts /\ LabelOf(q) = label /\ q[1] \in 1..Len(Disk)
    BY <1>8, <2>1, PartsAre DEF Called
  <2>3. q[1] = part[1]
    BY <1>6, <2>1, <2>2
  <2>4. PICK m \in 1..Len(rows) : rows[m].part = q
    BY <1>7, <2>2, <2>3 DEF Covers, UpTo
  <2>5. m \in Bearing(label)
    BY <2>2, <2>4, RowsFit DEF Bearing
  <2>6. m \in Matches(label)
    BY <1>5, <2>3, <2>4, <2>5 DEF Matches, first, part
  <2> QED
    BY <1>2, <2>4, <2>6 DEF part
<1>10. FirstLun(label) = {part}
  BY <1>6, <1>8, <1>9 DEF FirstLun
<1>11. Cardinality(FirstLun(label)) = 1
  BY <1>10, FS_Singleton
<1>12. Foremost(FirstLun(label)) = part
  BY <1>10 DEF Foremost
<1> QED
  BY <1>3, <1>11, <1>12 DEF Place, FoundPart, part

\* On NAND the first partition with the label counts, and is taken.
LEMMA FoundOnNand ==
    ASSUME setup \in Setups, NEW label, Nand, ~Flash, Table = Rows(1), Matches(label) # {}
    PROVE  FoundPart(label) = Place(label)
<1>1. Len(Disk) = 1 /\ 1 \in 1..Len(Disk)
  <2>1. Len(Disk) = 1
    BY DiskTyped DEF SetupFits, Nand, Disk
  <2> QED
    BY <2>1
<1>2. /\ Table \in Seq(RowSet) /\ Len(Table) = Len(Disk[1].parts) /\ Len(Table) \in Nat
      /\ \A p \in 1..Len(Table) : Table[p].part = << 1, p >>
  BY <1>1, RowsAre, DiskTyped, Zenon
<1> DEFINE n == Min(Matches(label))
           part == << 1, n >>
<1>3. n \in Matches(label) /\ (\A m \in Matches(label) : n <= m) /\ FoundPart(label) \in Called(label)
  BY <1>2, FoundNamed
<1>4. n \in 1..Len(Table) /\ FoundPart(label) = part /\ part \in Called(label)
  BY <1>2, <1>3 DEF Matches, Bearing, FoundPart
<1> HIDE DEF n
<1>5. ASSUME NEW q \in Called(label)
      PROVE  q[1] = 1 /\ q = << 1, q[2] >> /\ q[2] \in 1..Len(Table) /\ q[2] \in Matches(label)
  <2>1. /\ q \in Parts /\ LabelOf(q) = label /\ q[1] = 1 /\ q = << q[1], q[2] >>
        /\ q[2] \in 1..Len(Table)
    BY <1>1, <1>2, PartsAre DEF Called
  <2>2. Table[q[2]].part = q
    BY <1>2, <2>1
  <2>3. q[2] \in Bearing(label)
    BY <1>2, <2>1, <2>2, RowsFit DEF Bearing
  <2>4. Min(Bearing(label)) \in Bearing(label)
    <3>1. Bearing(label) \subseteq 1..Len(Table)
      BY DEF Bearing
    <3> QED
      BY <1>2, <2>3, <3>1, Extremes
  <2>5. Table[Min(Bearing(label))].part[1] = 1 /\ Table[q[2]].part[1] = 1
    BY <1>2, <2>1, <2>2, <2>4 DEF Bearing
  <2>6. q[2] \in Matches(label)
    BY <2>3, <2>5 DEF Matches
  <2> QED
    BY <2>1, <2>6
<1>6. FirstLun(label) = Called(label)
  BY <1>5 DEF FirstLun
<1>7. ASSUME NEW q \in Called(label), \A p \in Called(label) : q[2] <= p[2] PROVE q = part
  <2>1. q[2] <= n /\ n <= q[2] /\ q[2] \in 1..Len(Table)
    <3>1. q[2] <= part[2] /\ part[2] = n
      BY <1>4, <1>7
    <3> QED
      BY <1>3, <1>5, <3>1 DEF n
  <2>2. q[2] = n
    BY <1>2, <1>4, <2>1
  <2> QED
    BY <1>5, <2>2
<1>8. \A q \in Called(label) : part[2] <= q[2]
  BY <1>3, <1>5 DEF n
<1>9. Foremost(FirstLun(label)) = part
  BY <1>4, <1>6, <1>7, <1>8 DEF Foremost
<1> QED
  BY <1>4, <1>9 DEF Place
-----------------------------------------------------------------------------
(* Steps and what they may do.                                             *)

\* A sequence whose elements are in a set is one over that set.
LEMMA ElementsIn ==
    ASSUME NEW S, NEW T, NEW s \in Seq(S), \A n \in 1..Len(s) : s[n] \in T
    PROVE  s \in Seq(T)
<1>1. Len(s) \in Nat /\ s = [n \in 1..Len(s) |-> s[n]]
  BY LenProperties
<1>2. s \in [1..Len(s) -> T]
  BY <1>1
<1> QED
  BY <1>1, <1>2, SeqDef

\* What may be done may be done later as well.
LEMMA FitGrows ==
    ASSUME setup' = setup, ufsdoc' = ufsdoc, Gpts' = Gpts, ret # 0 => ret' # 0
    PROVE  Fit \subseteq Fit' /\ \A part : Touchable(part) => Touchable(part)'
<1>1. \A part : Touchable(part) => Touchable(part)'
  BY FixedDisk, FixedAsked, FixedRows DEF Touchable
<1>2. ASSUME NEW s, Allowed(s) PROVE Allowed(s)'
  <2>1. /\ Flash' = Flash /\ Cmd' = Cmd /\ Meddles' = Meddles /\ Provisions' = Provisions
        /\ Then(s)' = Then(s)
    BY FixedDisk, FixedRows DEF Provisions, Then
  <2>2. Touchable(s.part) => Touchable(s.part)'
    BY <1>1
  <2> QED
    BY <1>2, <2>1, <2>2 DEF Allowed
<1> QED
  BY <1>1, <1>2 DEF Fit, AllSteps

\* The first step gives way to others, or to none.
LEMMA MoreSteps ==
    ASSUME steps \in Seq(Fit), steps # << >>, Fit \subseteq Fit',
           NEW more \in Seq(Fit'), steps' = more \o Tail(steps)
    PROVE  steps' \in Seq(Fit')
<1> DEFINE F == Fit
           G == Fit'
<1>1. steps \in Seq(F) /\ F \subseteq G /\ more \in Seq(G)
  OBVIOUS
<1>2. Tail(steps) \in Seq(F)
  <2> HIDE DEF F
  <2> QED
    BY <1>1
<1>3. Tail(steps) \in Seq(G)
  <2> HIDE DEF F, G
  <2> QED
    BY <1>1, <1>2, ElementsIn, ElementOfSeq
<1>4. more \o Tail(steps) \in Seq(G)
  <2> HIDE DEF F, G
  <2> QED
    BY <1>1, <1>3, ConcatProperties
<1> QED
  BY <1>4

\* What is left of steps that are in order is in order.
LEMMA LessSteps ==
    ASSUME steps \in Seq(Fit), Fit \subseteq Fit',
           steps' = steps \/ (steps # << >> /\ steps' = Tail(steps)) \/ steps' = << >>
    PROVE  steps' \in Seq(Fit')
<1> DEFINE F == Fit
           G == Fit'
<1>1. steps \in Seq(F) /\ F \subseteq G
  OBVIOUS
<1> HIDE DEF F, G
<1>2. ASSUME NEW s \in Seq(F) PROVE s \in Seq(G)
  BY <1>1, ElementsIn, ElementOfSeq
<1>3. steps # << >> => Tail(steps) \in Seq(F)
  BY <1>1
<1>4. << >> \in Seq(G)
  OBVIOUS
<1>5. steps' \in Seq(G)
  BY <1>1, <1>2, <1>3, <1>4
<1> QED
  BY <1>5 DEF G

\* The step that is on.
LEMMA StepOn ==
    ASSUME steps \in Seq(Fit), steps # << >>
    PROVE  Do \in AllSteps /\ Allowed(Do)
<1>1. Head(steps) \in Fit
  <2> DEFINE F == Fit
  <2> HIDE DEF F
  <2>1. steps \in Seq(F)
    BY DEF F
  <2>2. Head(steps) \in F
    BY <2>1
  <2> QED
    BY <2>2 DEF F
<1> QED
  BY <1>1 DEF Fit, Do
-----------------------------------------------------------------------------
(* What is asked for.                                                      *)

\* The last tag that applies to a partition is one of those that do.
LEMMA LastIs ==
    ASSUME setup \in Setups, NEW kinds, NEW part
    PROVE  /\ LastOf(kinds, part) # 0 => Tags[LastOf(kinds, part)].kind \in kinds
           /\ Applying(kinds, part) # {} => LastOf(kinds, part) # 0
<1>1. Len(Tags) \in Nat /\ Applying(kinds, part) \subseteq 1..Len(Tags)
  BY TagsAre DEF Applying
<1>2. Applying(kinds, part) # {} => LastOf(kinds, part) \in Applying(kinds, part)
  BY <1>1, Extremes DEF LastOf
<1> QED
  BY <1>1, <1>2 DEF LastOf, Applying, Applies

\* A command that erases all asks for something else everywhere.
LEMMA AskedOfAll ==
    ASSUME setup \in Setups, Cmd = "eraseall" \/ (Flash /\ setup.erase_all), NEW part
    PROVE  Asked(part) # "old"
<1>1. CASE Cmd = "eraseall"
  BY <1>1 DEF Asked
<1>2. CASE Flash /\ setup.erase_all
  <2>1. LastOf({"patch"}, part) # 0 => Tags[LastOf({"patch"}, part)].kind = "patch"
    BY LastIs
  <2>2. LastOf({"program"}, part) # 0 => Tags[LastOf({"program"}, part)].kind = "program"
    BY LastIs
  <2> QED
    BY <1>2, <2>1, <2>2 DEF Asked, Flash, Cmd, Result
<1> QED
  BY <1>1, <1>2

\* A command that erases or writes labels asks for it in their places.
LEMMA AskedOfLabel ==
    ASSUME NEW n \in 1..Len(setup.labels),
           (Cmd = "erase" /\ ~setup.raw) \/ (Cmd = "write" /\ setup.labels[n] = setup.labels[1])
    PROVE  Asked(Place(setup.labels[n])) # "old"
  BY DEF Asked, Cmd

\* A flash asks for it where a tag applies.
LEMMA AskedOfTag ==
    ASSUME setup \in Setups, Flash, ~setup.erase_all, NEW part,
           Applying({"program", "erase", "patch"}, part) # {}
    PROVE  Asked(part) # "old"
<1>1. /\ LastOf({"program", "erase", "patch"}, part) # 0
      /\ Tags[LastOf({"program", "erase", "patch"}, part)].kind \in {"program", "erase", "patch"}
  BY LastIs
<1> QED
  BY <1>1 DEF Asked, Flash, Cmd, Result

\* An operation that changes a partition is one that a document asks for.
LEMMA QueuedIsAsked ==
    ASSUME setup \in Setups, ListsInv, Flash, NEW k \in 1..Len(queue), queue[k].live,
           queue[k].kind \in ChangingSteps
    PROVE  Touchable(queue[k].part)
<1> DEFINE e == queue[k]
           part == e.part
<1> SUFFICES ASSUME part \in Parts PROVE Asked(part) # "old"
  BY DEF Touchable
<1>1. CASE setup.erase_all
  BY <1>1, AskedOfAll
<1>2. CASE ~setup.erase_all
  <2>1. PICK m \in 1..Len(Tags) : << e, Tags[m] >> \in Origins
    BY DEF ListsInv
  <2> DEFINE tag == Tags[m]
  <2>2. Made(e, tag) /\ Placed(e, tag) /\ tag \in DocTags
    BY <2>1 DEF Origins
  <2>3. PICK d \in 1..Len(LoadOrder) : LoadOrder[d].type # "ufs" /\
           \E n \in 1..Len(LoadOrder[d].tags) : tag = LoadOrder[d].tags[n]
    BY TagsAre
  <2>4. LoadOrder[d] \in {doc \in Documents : DocFits(doc)}
    BY OrderFits
  <2>5. TagFits(LoadOrder[d].type, tag)
    BY <2>3, <2>4 DEF DocFits
  <2>6. PlaceOf(tag) = part
    <3>1. CASE tag.gpt = ""
      BY <1>2, <2>2, <3>1 DEF PlaceOf, Placed
    <3>2. CASE tag.gpt # ""
      <4>1. tag.part = << >>
        BY <2>5, <3>2 DEF TagFits
      <4>2. part # << >>
        <5>1. part = << part[1], part[2] >>
          BY PartsAre
        <5> HIDE DEF part
        <5>2. \A a, b : << a, b >> # << >>
          OBVIOUS
        <5> QED
          BY <5>1, <5>2
      <4> QED
        BY <1>2, <2>2, <3>2, <4>1, <4>2 DEF PlaceOf, Placed
    <3> QED
      BY <3>1, <3>2
  <2>7. /\ tag.kind = e.kind /\ ~tag.bad /\ ~tag.vendor
        /\ tag.kind = "program" => tag.file # "missing"
        /\ tag.kind = "patch" => tag.file = "ok"
    BY <2>2 DEF Made
  <2>8. tag.file # "missing"
    BY <2>5, <2>7 DEF TagFits
  <2>9. Applies(tag, {"program", "erase", "patch"}, part)
    BY <2>6, <2>7, <2>8 DEF Applies, ChangingSteps
  <2>10. m \in Applying({"program", "erase", "patch"}, part)
    BY <2>9 DEF Applying
  <2> QED
    BY <1>2, <2>10, AskedOfTag
<1> QED
  BY <1>1, <1>2
-----------------------------------------------------------------------------
(* The steps that the subcommands are made of.                             *)

\* Two sequences make one.
LEMMA Concatenated ==
    ASSUME NEW S, NEW a \in Seq(S), NEW b \in Seq(S)
    PROVE  a \o b \in Seq(S)
  BY ConcatProperties

\* The sequences of a list make one.
LEMMA MappedAre ==
    ASSUME NEW S, NEW N \in Nat, NEW ss \in [1..N -> Seq(S)]
    PROVE  FlattenSeq(ss) \in Seq(S)
<1>1. ss \in Seq(Seq(S)) /\ Len(ss) = N
  BY SeqDef, LenProperties
<1>2. Len(ss) \in Nat /\ (ss = << >> \/ Len(ss) # 0) /\ \A i \in 1..Len(ss) : ss[i] \in Seq(S)
  BY <1>1
<1>3. Gathers(FlattenSeq(ss), ss, S, Len(ss))
  BY <1>2, Flattened
<1> QED
  BY <1>3 DEF Gathers

\* A step that changes nothing and looks in no table is allowed.
LEMMA PlainFits ==
    ASSUME NEW do \in Words, NEW label \in Words, NEW part \in Seq(Nat), NEW fails \in Words,
           do \notin UfsSteps \cup ChangingSteps \cup {"find", "each", "resolve", "plan"},
           do \in TableSteps => ~Meddles
    PROVE  [do |-> do, label |-> label, part |-> part, then |-> << >>, fails |-> fails] \in Fit
<1> DEFINE s == [do |-> do, label |-> label, part |-> part, then |-> << >>, fails |-> fails]
<1>1. s \in AllSteps /\ s.do = do /\ s.then = << >>
  BY DEF AllSteps
<1>2. Then(s) = {}
  BY <1>1 DEF Then
<1> HIDE DEF s
<1>3. Allowed(s)
  BY <1>1, <1>2 DEF Allowed
<1> QED
  BY <1>1, <1>3 DEF Fit, s

\* A step that changes a partition.
LEMMA ChangeFits ==
    ASSUME NEW do \in ChangingSteps, NEW part \in Seq(Nat), NEW fails \in Words, Touchable(part)
    PROVE  Step(do, part, fails) \in Fit
<1> DEFINE s == Step(do, part, fails)
<1>3. do \in Words /\ "" \in Words
  BY DEF ChangingSteps, Words
<1>5. s = [do |-> do, label |-> "", part |-> part, then |-> << >>, fails |-> fails]
  BY DEF Step
<1> HIDE DEF s
<1>6. << >> \in Seq(Words)
  OBVIOUS
<1>7. s \in AllSteps
  BY <1>3, <1>5, <1>6 DEF AllSteps
<1>1. s \in AllSteps /\ s.do = do /\ s.then = << >> /\ s.part = part
  BY <1>5, <1>7
<1>2. Then(s) = {}
  BY <1>1 DEF Then
<1> HIDE DEF s
<1>4. Allowed(s)
  BY <1>1, <1>2 DEF Allowed, ChangingSteps, UfsSteps, TableSteps
<1> QED
  BY <1>1, <1>4 DEF Fit, s

Errands == {<< "read" >>, << "probe", "read" >>, << "erase" >>, << "erase", "program" >>}

\* What a step may go on with.
LEMMA ErrandsAre ==
    ASSUME NEW s, s.then \in Errands
    PROVE  /\ s.then \in Seq(Words) /\ Then(s) \subseteq {"probe", "read", "erase", "program"}
           /\ s.then \in {<< "read" >>, << "probe", "read" >>} => Then(s) \cap ChangingSteps = {}
<1> DEFINE t == s.then
<1>5. Then(s) = {t[j] : j \in 1..Len(t)} /\ t \in Errands
  BY DEF Then
<1> HIDE DEF t
<1>6. \A a \in Words : << a >> \in Seq(Words) /\ \A b \in Words : << a, b >> \in Seq(Words)
  <2> DEFINE W == Words
  <2> HIDE DEF W
  <2>1. \A a \in W : << a >> \in Seq(W) /\ \A b \in W : << a, b >> \in Seq(W)
    OBVIOUS
  <2> QED
    BY <2>1 DEF W
<1>7. "read" \in Words /\ "probe" \in Words /\ "erase" \in Words /\ "program" \in Words
  BY DEF Words
<1>8. ASSUME NEW a, t = << a >>
      PROVE  {t[j] : j \in 1..Len(t)} = {a}
  <2>1. 1..Len(t) = {1} /\ t[1] = a
    BY <1>8
  <2> QED
    BY <2>1
<1>9. ASSUME NEW a, NEW b, t = << a, b >>
      PROVE  {t[j] : j \in 1..Len(t)} = {a, b}
  <2>1. 1..Len(t) = {1, 2} /\ t[1] = a /\ t[2] = b
    BY <1>9
  <2> QED
    BY <2>1
<1>1. CASE t = << "read" >>
  <2>1. Then(s) = {"read"} /\ t \in Seq(Words)
    BY <1>1, <1>5, <1>6, <1>7, <1>8
  <2> QED
    BY <1>1, <2>1 DEF ChangingSteps, t
<1>2. CASE t = << "probe", "read" >>
  <2>1. Then(s) = {"probe", "read"} /\ t \in Seq(Words)
    BY <1>2, <1>5, <1>6, <1>7, <1>9
  <2> QED
    BY <1>2, <2>1 DEF ChangingSteps, t
<1>10. << "erase" >> \notin {<< "read" >>, << "probe", "read" >>}
       /\ << "erase", "program" >> \notin {<< "read" >>, << "probe", "read" >>}
  <2>1. \A a, b : << a >> # << a, b >> /\ << b >> # << a, b >> /\ (<< a >> = << b >> => a = b)
    OBVIOUS
  <2>2. \A a, b, c : << c >> # << a, b >>
    OBVIOUS
  <2>3. \A a, b, c, d : << a, b >> = << c, d >> => a = c
    OBVIOUS
  <2> QED
    BY <2>1, <2>2, <2>3
<1>3. CASE t = << "erase" >>
  <2>1. Then(s) = {"erase"} /\ t \in Seq(Words)
    BY <1>3, <1>5, <1>6, <1>7, <1>8
  <2> QED
    BY <1>3, <1>10, <2>1 DEF t
<1>4. CASE t = << "erase", "program" >>
  <2>1. Then(s) = {"erase", "program"} /\ t \in Seq(Words)
    BY <1>4, <1>5, <1>6, <1>7, <1>9
  <2> QED
    BY <1>4, <1>10, <2>1 DEF t
<1> QED
  BY <1>1, <1>2, <1>3, <1>4, <1>5 DEF Errands

\* A step on all partitions that the command asks for is allowed.
LEMMA EachFits ==
    ASSUME NEW then \in Errands, NEW fails \in Words, ~Meddles,
           then \in {<< "read" >>, << "probe", "read" >>} \/ Cmd = "eraseall" \/ (Flash /\ setup.erase_all)
    PROVE  Each(then, fails) \in Fit
<1> DEFINE s == Each(then, fails)
<1>1. s.do = "each" /\ s.then = then /\ s.label = "" /\ s.part = << >> /\ s.fails = fails
  BY DEF Each, StepFor
<1>2. s = [do |-> s.do, label |-> s.label, part |-> s.part, then |-> s.then, fails |-> s.fails]
  BY DEF Each, StepFor
<1> HIDE DEF s
<1>3. /\ s.then \in Seq(Words) /\ Then(s) \subseteq {"probe", "read", "erase", "program"}
      /\ s.then \in {<< "read" >>, << "probe", "read" >>} => Then(s) \cap ChangingSteps = {}
  BY <1>1, ErrandsAre
<1>6. s.do \in Words /\ s.label \in Words /\ s.part \in Seq(Nat) /\ s.fails \in Words
  <2>1. << >> \in Seq(Nat)
    OBVIOUS
  <2>2. "each" \in Words /\ "" \in Words
    BY DEF Words
  <2> QED
    BY <1>1, <2>1, <2>2
<1>4. s \in AllSteps
  BY <1>2, <1>3, <1>6 DEF AllSteps
<1>5. Allowed(s)
  BY <1>1, <1>3 DEF Allowed, ChangingSteps, UfsSteps
<1> QED
  BY <1>4, <1>5 DEF Fit, s

\* A step on a label of the command line is allowed.
LEMMA FindFits ==
    ASSUME setup \in Setups, NEW n \in 1..Len(setup.labels), NEW then \in Errands,
           NEW fails \in {"stop", "count"}, ~Flash,
           \/ then \in {<< "read" >>, << "probe", "read" >>}
           \/ Cmd = "erase" /\ ~setup.raw
           \/ Cmd = "write" /\ n = 1
    PROVE  Find(setup.labels[n], then, fails) \in Fit
<1> DEFINE s == Find(setup.labels[n], then, fails)
<1>1. s.do = "find" /\ s.then = then /\ s.label = setup.labels[n] /\ s.part = << >> /\ s.fails = fails
  BY DEF Find, StepFor
<1>2. s = [do |-> s.do, label |-> s.label, part |-> s.part, then |-> s.then, fails |-> s.fails]
  BY DEF Find, StepFor
<1>3. setup.labels[n] \in STRING
  BY DiskTyped, ElementOfSeq DEF SetupFits
<1> HIDE DEF s
<1>4. /\ s.then \in Seq(Words) /\ Then(s) \subseteq {"probe", "read", "erase", "program"}
      /\ s.then \in {<< "read" >>, << "probe", "read" >>} => Then(s) \cap ChangingSteps = {}
  BY <1>1, ErrandsAre
<1>7. s.do \in Words /\ s.label \in Words /\ s.part \in Seq(Nat) /\ s.fails \in Words
  <2>1. << >> \in Seq(Nat)
    OBVIOUS
  <2>2. "find" \in Words /\ fails \in Words /\ setup.labels[n] \in Words
    BY <1>3 DEF Words
  <2> QED
    BY <1>1, <2>1, <2>2
<1>5. s \in AllSteps
  BY <1>2, <1>4, <1>7 DEF AllSteps
<1>6. Allowed(s)
  BY <1>1, <1>4 DEF Allowed, ChangingSteps, UfsSteps
<1> QED
  BY <1>5, <1>6 DEF Fit, s

\* A label after the other.
LEMMA OfLabelsFits ==
    ASSUME setup \in Setups, NEW then \in Errands, ~Flash,
           then \in {<< "read" >>, << "probe", "read" >>} \/ (Cmd = "erase" /\ ~setup.raw)
    PROVE  OfLabels(then) \in Seq(Fit)
<1>1. Len(setup.labels) \in Nat
  BY DiskTyped DEF SetupFits
<1>2. \A n \in 1..Len(setup.labels) : Find(setup.labels[n], then, "count") \in Fit
  BY FindFits
<1>3. OfLabels(then) \in [1..Len(setup.labels) -> Fit]
  BY <1>2 DEF OfLabels
<1> QED
  BY <1>1, <1>3, SeqDef

\* The labels that the lists leave to the tables.
LEMMA ResolveFits ==
    ASSUME setup \in Setups, ListsInv, Flash, NEW kinds
    PROVE  ResolveSteps(kinds) \in Seq(Fit)
<1> DEFINE all == [n \in 1..Len(queue) |-> ResolveStep(n)]
<1>1. queue \in Seq(DocTags) /\ Len(queue) \in Nat
  BY DEF ListsInv
<1>2. ASSUME NEW n \in 1..Len(queue)
      PROVE  /\ ResolveStep(n) \in AllSteps
             /\ n \in Deferred(kinds) => ResolveStep(n) \in Fit
  <2> DEFINE s == ResolveStep(n)
  <2>1. queue[n].gpt \in Words /\ << n >> \in Seq(Nat) /\ "resolve" \in Words /\ "stop" \in Words
    <3>1. queue[n] \in DocTags
      BY <1>1, ElementOfSeq
    <3>2. queue[n].gpt \in STRING
      BY <3>1 DEF DocTags
    <3>3. n \in Nat
      BY <1>1
    <3>4. << n >> \in Seq(Nat)
      BY <3>3
    <3> QED
      BY <3>2, <3>4 DEF Words
  <2>2. s = [do |-> "resolve", label |-> queue[n].gpt, part |-> << n >>, then |-> << >>, fails |-> "stop"]
      <3> DEFINE r == Step("resolve", << n >>, "stop")
    <3>1. r = [do |-> "resolve", label |-> "", part |-> << n >>, then |-> << >>, fails |-> "stop"]
      BY DEF Step
    <3>2. s = [r EXCEPT !.label = queue[n].gpt]
      BY DEF ResolveStep
    <3> HIDE DEF r, s
    <3> QED
      BY <3>1, <3>2
  <2> HIDE DEF s
  <2>7. << >> \in Seq(Words)
    OBVIOUS
  <2>8. s \in AllSteps
    BY <2>1, <2>2, <2>7 DEF AllSteps
  <2>3. /\ s \in AllSteps /\ s.do = "resolve" /\ s.label = queue[n].gpt /\ s.then = << >>
        /\ s.part[1] = n /\ s.fails = "stop"
    BY <2>2, <2>8
  <2>4. Then(s) = {}
    BY <2>3 DEF Then
  <2>5. Len(Gpts) = Len(queue) /\ Gpts[n] = queue[n].gpt
    <3>1. Gpts \in [1..Len(queue) -> {queue[k].gpt : k \in 1..Len(queue)}]
      BY DEF Gpts
    <3>2. Len(Gpts) = Len(queue)
      BY <1>1, <3>1, SeqDef, LenProperties
    <3> QED
      BY <3>2 DEF Gpts
  <2>6. ASSUME n \in Deferred(kinds) PROVE Allowed(s)
    <3>1. queue[n].gpt # ""
      BY <2>6 DEF Deferred
    <3> QED
      BY <2>3, <2>4, <2>5, <3>1 DEF Allowed, UfsSteps, ChangingSteps
  <2> QED
    BY <2>3, <2>6 DEF Fit, s
<1>3. all \in [1..Len(queue) -> AllSteps]
  BY <1>2
<1>4. all \in Seq(AllSteps) /\ Len(all) = Len(queue)
  BY <1>1, <1>3, SeqDef, LenProperties
<1>5. \A n \in 1..Len(queue) : all[n] = ResolveStep(n)
  OBVIOUS
<1> HIDE DEF all
<1>6. /\ Chosen(all, Deferred(kinds)) \in Seq(AllSteps)
      /\ \A m \in 1..Len(Chosen(all, Deferred(kinds))) :
            \E n \in 1..Len(all) : n \in Deferred(kinds) /\ Chosen(all, Deferred(kinds))[m] = all[n]
  BY <1>4, ChosenAre
<1>7. \A m \in 1..Len(Chosen(all, Deferred(kinds))) : Chosen(all, Deferred(kinds))[m] \in Fit
  BY <1>2, <1>4, <1>5, <1>6
<1>8. Chosen(all, Deferred(kinds)) \in Seq(Fit)
  BY <1>6, <1>7, ElementsIn
<1> QED
  BY <1>8 DEF ResolveSteps, all

\* The passes of a provisioning.
LEMMA PassFits ==
    ASSUME Flash, Provisions, ListsInv, NEW ufsPass \in UfsSteps
    PROVE  Pass(ufsPass) \in Seq(Fit) /\ Len(Pass(ufsPass)) = Len(ufsdoc) /\ Len(ufsdoc) \in Nat \ {0}
<1>1. /\ ufsdoc \in Seq({"common", "body", "epilogue"}) /\ Len(ufsdoc) > 1
  BY DEF ListsInv, Provisions, UfsShape
<1>2. Len(ufsdoc) \in Nat \ {0}
  BY <1>1
<1>3. ASSUME NEW n \in 1..Len(ufsdoc)
      PROVE  StepFor(ufsPass, ufsdoc[n], << >>, "stop") \in Fit
  <2> DEFINE s == StepFor(ufsPass, ufsdoc[n], << >>, "stop")
  <2>1. ufsdoc[n] \in Words /\ ufsPass \in Words /\ "stop" \in Words
    <3>1. ufsdoc[n] \in {"common", "body", "epilogue"}
      BY <1>1, ElementOfSeq
    <3> QED
      BY <3>1 DEF Words, UfsSteps
  <2>2. s \in AllSteps /\ s.do = ufsPass /\ s.then = << >>
    BY <2>1 DEF AllSteps, StepFor
  <2>3. Then(s) = {}
    BY <2>2 DEF Then
  <2> HIDE DEF s
  <2>4. Allowed(s)
    BY <2>2, <2>3 DEF Allowed, UfsSteps, TableSteps, ChangingSteps
  <2> QED
    BY <2>2, <2>4 DEF Fit, s
<1>4. Pass(ufsPass) \in [1..Len(ufsdoc) -> Fit]
  BY <1>3 DEF Pass
<1> QED
  BY <1>2, <1>4, SeqDef, LenProperties

\* A step on a given partition that does not change it is allowed.
LEMMA WorkFits ==
    ASSUME NEW do \in {"xml", "check", "print", "info", "slot", "setslot", "read", "probe", "lun",
                       "luns", "backup", "bootable"},
           NEW part \in Seq(Nat), NEW fails \in {"stop", "count", "negative", "skip", "ignore"},
           do \in {"xml", "print", "slot"} => ~Meddles
    PROVE  Step(do, part, fails) \in Fit
<1>1. do \in Words /\ fails \in Words /\ "" \in Words
  BY DEF Words
<1>2. /\ do \notin UfsSteps \cup ChangingSteps \cup {"find", "each", "resolve", "plan"}
      /\ do \in TableSteps => ~Meddles
  BY DEF UfsSteps, ChangingSteps, TableSteps
<1>3. [do |-> do, label |-> "", part |-> part, then |-> << >>, fails |-> fails] \in Fit
  BY <1>1, <1>2, PlainFits
<1> QED
  BY <1>3 DEF Step

\* Lists of a few steps.
LEMMA ShortLists ==
    ASSUME NEW S
    PROVE  /\ << >> \in Seq(S) /\ \A a \in S : << a >> \in Seq(S)
           /\ \A a, b \in S : << a, b >> \in Seq(S)
           /\ \A a, b, c \in S : << a, b, c >> \in Seq(S)
  OBVIOUS

\* Each subcommand that has a session has a script of such steps.
LEMMA ScriptFits ==
    ASSUME setup \in Setups, ListsInv, Cmd \notin {"ramdump", "diag2edl"}
    PROVE  Script \in Seq(Fit)
<1> DEFINE F == Fit
<1>1. Cmd \in Subcommands
  BY DiskTyped DEF SetupFits, Cmd
<1>2. /\ << >> \in Seq(F) /\ \A a \in F : << a >> \in Seq(F)
      /\ \A a, b \in F : << a, b >> \in Seq(F)
      /\ \A a, b, c \in F : << a, b, c >> \in Seq(F)
  <2> HIDE DEF F
  <2> QED
    BY ShortLists
<1>3. << >> \in Seq(Nat) /\ << 1, 1 >> \in Seq(Nat)
  OBVIOUS
<1>4. \A do \in {"check", "info", "setslot", "read", "luns"} :
         \A fails \in {"stop", "count", "negative", "skip", "ignore"} : Step(do, << >>, fails) \in F
  BY <1>3, WorkFits
<1>5. ~Meddles => \A do \in {"xml", "print", "slot"} :
         \A fails \in {"stop", "count", "negative", "skip", "ignore"} : Step(do, << >>, fails) \in F
  BY <1>3, WorkFits
<1>6. CheckStep \in F /\ (~Meddles => XmlStep("stop") \in F /\ XmlStep("ignore") \in F)
  BY <1>4, <1>5 DEF CheckStep, XmlStep
<1>7. Cmd \notin {"erase", "write", "flash"} => ~Meddles
  BY DEF Meddles, Flash
<1>8. << "read" >> \in Errands /\ << "probe", "read" >> \in Errands /\ << "erase" >> \in Errands
      /\ << "erase", "program" >> \in Errands
  BY DEF Errands
<1>11. CASE Cmd = "printgpt"
  <2>1. Script = PrintGpt
    BY <1>11 DEF Script
  <2>2. Step("print", << >>, "stop") \in F /\ XmlStep("stop") \in F
    BY <1>5, <1>6, <1>7, <1>11
  <2>3. /\ << Step("print", << >>, "stop") >> \in Seq(F)
        /\ (IF setup.xml THEN << XmlStep("stop") >> ELSE << >>) \in Seq(F)
    BY <1>2, <2>2
  <2>4. PrintGpt \in Seq(F)
    <3> HIDE DEF F
    <3> QED
      BY <2>3, Concatenated DEF PrintGpt
  <2> QED
    BY <2>1, <2>4
<1>12. CASE Cmd = "storageinfo"
  BY <1>2, <1>4, <1>12 DEF Script, ShowStorageInfo
<1>13. CASE Cmd = "partinfo"
  <2>1. Step("info", << >>, "ignore") \in F /\ Step("print", << >>, "stop") \in F
    BY <1>4, <1>5, <1>7, <1>13
  <2> QED
    BY <1>2, <1>13, <2>1 DEF Script, PartInfo
<1>14. CASE Cmd = "reset"
  <2>1. setup.mode \in Words /\ "power" \in Words /\ "stop" \in Words
    BY DiskTyped DEF SetupFits, Words
  <2>2. "power" \notin UfsSteps \cup ChangingSteps \cup {"find", "each", "resolve", "plan"} \cup TableSteps
    BY DEF UfsSteps, ChangingSteps, TableSteps
  <2>3. [do |-> "power", label |-> setup.mode, part |-> << >>, then |-> << >>, fails |-> "stop"] \in F
    BY <1>3, <2>1, <2>2, PlainFits
  <2>4. StepFor("power", setup.mode, << >>, "stop") \in F
    BY <2>3 DEF StepFor
  <2> QED
    BY <1>2, <1>14, <2>4 DEF Script, ResetModem
<1>15. CASE Cmd = "getslot"
  <2>1. Step("slot", << >>, "stop") \in F
    BY <1>5, <1>7, <1>15
  <2> QED
    BY <1>2, <1>15, <2>1 DEF Script, GetSlot
<1>16. CASE Cmd = "setslot"
  BY <1>2, <1>4, <1>16 DEF Script, SetSlotTo
<1>17. CASE Cmd = "read"
  <2> DEFINE then == IF Len(setup.labels) = 1 THEN << "read" >> ELSE << "probe", "read" >>
  <2>1. then \in {<< "read" >>, << "probe", "read" >>} /\ then \in Errands
    BY <1>8
  <2> HIDE DEF then
  <2>2. OfLabels(then) \in Seq(Fit)
    BY <1>17, <2>1, OfLabelsFits DEF Flash
  <2> QED
    BY <1>17, <2>2 DEF Script, ReadPartition, then
<1>18. CASE Cmd = "readall"
  <2>1. Each(<< "probe", "read" >>, "negative") \in F
    BY <1>7, <1>8, <1>18, EachFits DEF Words
  <2>2. XmlStep("ignore") \in F
    BY <1>6, <1>7, <1>18
  <2> QED
    BY <1>2, <1>6, <1>18, <2>1, <2>2 DEF Script, ReadAll
<1>19. CASE Cmd = "dump"
  <2>1. Script = ReadStorage
    BY <1>19 DEF Script
  <2>2. CASE Nand
    <3>1. Step("info", << >>, "stop") \in F /\ Step("read", << 1, 1 >>, "stop") \in F
      BY <1>3, WorkFits
    <3> QED
      BY <1>2, <2>1, <2>2, <3>1 DEF ReadStorage
  <2>3. CASE ~Nand
    <3> DEFINE ss == [l \in 1..Len(Disk) |-> << Step("lun", << l, 1 >>, "skip") >>]
               a == << Step("info", << >>, "stop") >>
               c == << Step("luns", << >>, "stop") >>
    <3>1. Len(Disk) \in Nat
      BY DiskTyped
    <3>2. ASSUME NEW l \in 1..Len(Disk) PROVE << Step("lun", << l, 1 >>, "skip") >> \in Seq(F)
      <4>1. l \in Nat
        BY <3>1
      <4>2. << l, 1 >> \in Seq(Nat)
        BY <4>1
      <4>3. Step("lun", << l, 1 >>, "skip") \in F
        BY <4>2, WorkFits
      <4> QED
        BY <1>2, <4>3
    <3>3. ss \in [1..Len(Disk) -> Seq(F)]
      BY <3>2
    <3>4. a \in Seq(F) /\ c \in Seq(F)
      BY <1>2, <1>4
    <3>5. Script = (a \o FlattenSeq(ss)) \o c
      BY <2>1, <2>3 DEF ReadStorage
    <3> HIDE DEF F, ss, a, c
    <3>6. FlattenSeq(ss) \in Seq(F)
      BY <3>1, <3>3, MappedAre
    <3>7. a \o FlattenSeq(ss) \in Seq(F)
      BY <3>4, <3>6, Concatenated
    <3>8. (a \o FlattenSeq(ss)) \o c \in Seq(F)
      BY <3>4, <3>7, Concatenated
    <3> QED
      BY <3>5, <3>8 DEF F
  <2> QED
    BY <2>2, <2>3
<1>20. CASE Cmd = "erase"
  <2>1. Script = EraseLabels
    BY <1>20 DEF Script
  <2>2. CASE setup.raw
    <3>1. Touchable(<< 1, 1 >>)
      BY <1>20, <2>2 DEF Touchable, Asked, Cmd
    <3>2. Step("erase", << 1, 1 >>, "count") \in F
      BY <1>3, <3>1, ChangeFits DEF ChangingSteps, Words
    <3> QED
      BY <1>2, <2>1, <2>2, <3>2 DEF EraseLabels
  <2>3. CASE ~setup.raw
    <3>1. OfLabels(<< "erase" >>) \in Seq(Fit)
      BY <1>8, <1>20, <2>3, OfLabelsFits DEF Flash
    <3> QED
      BY <2>1, <2>3, <3>1 DEF EraseLabels
  <2> QED
    BY <2>2, <2>3
<1>21. CASE Cmd = "write"
  <2>1. 1 \in 1..Len(setup.labels)
    <3>1. setup.labels \in Seq(STRING) /\ setup.labels # << >>
      BY <1>21, DiskTyped DEF SetupFits, Cmd
    <3> QED
      BY <3>1
  <2>2. Find(setup.labels[1], << "erase", "program" >>, "stop") \in F
    BY <1>8, <1>21, <2>1, FindFits DEF Flash
  <2> QED
    BY <1>2, <1>21, <2>2 DEF Script, WritePartition
<1>22. CASE Cmd = "eraseall"
  <2>1. Each(<< "erase" >>, "count") \in F
    BY <1>7, <1>8, <1>22, EachFits DEF Words
  <2> QED
    BY <1>2, <1>22, <2>1 DEF Script, EraseAll
<1>23. CASE Cmd = "flash"
  <2>1. Script = FlashSteps /\ Flash
    BY <1>23 DEF Script, Flash
  <2>2. CASE Provisions
    <3>1. Pass("check ufs") \in Seq(F) /\ Pass("commit ufs") \in Seq(F)
      BY <2>1, <2>2, PassFits DEF UfsSteps
    <3>2. Provision \in Seq(F)
      <4> HIDE DEF F
      <4> QED
        BY <3>1, Concatenated DEF Provision
    <3> QED
      BY <2>1, <2>2, <3>2 DEF FlashSteps
  <2>3. CASE ~Provisions
    <3> DEFINE a == ResolveSteps({"read"})
               b == ResolveSteps({"program"})
               c == << Step("plan", << >>, "stop") >>
    <3>1. a \in Seq(F) /\ b \in Seq(F)
      BY <2>1, ResolveFits
    <3>2. Step("plan", << >>, "stop") \in F
      <4> DEFINE s == Step("plan", << >>, "stop")
      <4>1. s = [do |-> "plan", label |-> "", part |-> << >>, then |-> << >>, fails |-> "stop"]
        BY DEF Step
      <4> HIDE DEF s
      <4>2. << >> \in Seq(Words) /\ "plan" \in Words /\ "" \in Words /\ "stop" \in Words
        BY ShortLists DEF Words
      <4>3. s \in AllSteps
        BY <1>3, <4>1, <4>2 DEF AllSteps
      <4>4. s.do = "plan" /\ s.then = << >>
        BY <4>1
      <4>5. Then(s) = {}
        BY <4>4 DEF Then
      <4>6. Allowed(s)
        BY <2>1, <4>4, <4>5 DEF Allowed, UfsSteps, TableSteps, ChangingSteps
      <4> QED
        BY <4>3, <4>6 DEF Fit, s
    <3>3. c \in Seq(F)
      BY <1>2, <3>2
    <3>4. FlashSteps = (a \o b) \o c
      BY <2>3 DEF FlashSteps
    <3> HIDE DEF F, a, b, c
    <3>5. a \o b \in Seq(F)
      BY <3>1, Concatenated
    <3>6. (a \o b) \o c \in Seq(F)
      BY <3>3, <3>5, Concatenated
    <3> QED
      BY <2>1, <3>4, <3>6 DEF F
  <2> QED
    BY <2>2, <2>3
<1> QED
  BY <1>1, <1>11, <1>12, <1>13, <1>14, <1>15, <1>16, <1>17, <1>18, <1>19, <1>20, <1>21, <1>22, <1>23
  DEF Subcommands

Plannable ==
    {e \in DocTags : e.live /\ \E k \in 1..Len(queue) : e = queue[k]}
    \cup {op \in {[kind |-> "all", live |-> TRUE, part |-> << >>]} : setup.erase_all}

\* The plan is made of live operations, and of the erase of all when asked.
LEMMA PlanIs ==
    ASSUME ListsInv
    PROVE  Ordered!Plan(setup.erase_all) \in Seq(Plannable)
<1> DEFINE all == << [kind |-> "all", live |-> TRUE, part |-> << >>] >>
           P == Plannable
<1>1. queue \in Seq(DocTags) /\ Len(queue) \in Nat
  BY DEF ListsInv
<1>2. ASSUME NEW K, \A n \in 1..Len(queue) : n \in K => queue[n].live
      PROVE  Chosen(queue, K) \in Seq(P)
  <2>1. /\ Chosen(queue, K) \in Seq(DocTags)
        /\ \A m \in 1..Len(Chosen(queue, K)) :
              \E n \in 1..Len(queue) : n \in K /\ Chosen(queue, K)[m] = queue[n]
    BY <1>1, ChosenAre
  <2>2. \A n \in 1..Len(queue) : n \in K => queue[n] \in P
    <3>1. \A n \in 1..Len(queue) : queue[n] \in DocTags
      BY <1>1, ElementOfSeq
    <3> QED
      BY <1>2, <3>1 DEF Plannable
  <2>3. \A m \in 1..Len(Chosen(queue, K)) : Chosen(queue, K)[m] \in P
    BY <2>1, <2>2
  <2> HIDE DEF P
  <2> QED
    BY <2>1, <2>3, ElementsIn
<1>3. \A kind : Ordered!OfKind(kind)
                  = Chosen(queue, {n \in 1..Len(queue) : queue[n].kind = kind /\ queue[n].live})
  BY DEF Ordered!OfKind, Ordered!Chosen, Chosen, Ordered!FlattenSeq, FlattenSeq
<1>4. Ordered!DocumentOrder = Chosen(queue, {n \in 1..Len(queue) : queue[n].live})
  BY DEF Ordered!DocumentOrder, Ordered!Chosen, Chosen, Ordered!FlattenSeq, FlattenSeq
<1>5. \A kind : Ordered!OfKind(kind) \in Seq(P)
  BY <1>2, <1>3
<1>6. CASE ~setup.erase_all
  <2>1. Ordered!DocumentOrder \in Seq(P)
    BY <1>2, <1>4
  <2> QED
    BY <1>6, <2>1 DEF Ordered!Plan
<1>7. CASE setup.erase_all
  <2> DEFINE r == Ordered!OfKind("read")
             p == Ordered!OfKind("program")
             q == Ordered!OfKind("patch")
  <2>1. r \in Seq(P) /\ p \in Seq(P) /\ q \in Seq(P)
    BY <1>5
  <2>2. all \in Seq(P)
    <3>1. [kind |-> "all", live |-> TRUE, part |-> << >>] \in P
      BY <1>7 DEF Plannable
    <3> HIDE DEF P
    <3> QED
      BY <3>1
  <2>3. Ordered!Plan(setup.erase_all) = ((r \o all) \o p) \o q
    BY <1>7 DEF Ordered!Plan, Ordered!Phased
  <2> HIDE DEF r, p, q, all, P
  <2>4. r \o all \in Seq(P)
    BY <2>1, <2>2, Concatenated
  <2>5. (r \o all) \o p \in Seq(P)
    BY <2>1, <2>4, Concatenated
  <2>6. ((r \o all) \o p) \o q \in Seq(P)
    BY <2>1, <2>5, Concatenated
  <2> QED
    BY <2>3, <2>6 DEF P
<1> QED
  BY <1>6, <1>7

\* The boot LUN is set to that of a partition on the list.
LEMMA BootFits ==
    ASSUME ListsInv
    PROVE  BootSteps \in Seq(Fit) /\ \A n \in 1..Len(BootSteps) : BootSteps[n].do = "bootable"
<1>1. CASE Bootable = {}
  <2> DEFINE F == Fit
             none == << >>
  <2>1. BootSteps = none
    BY <1>1 DEF BootSteps
  <2> HIDE DEF F
  <2>2. none \in Seq(F) /\ \A n \in 1..Len(none) : none[n].do = "bootable"
    OBVIOUS
  <2> QED
    BY <2>1, <2>2 DEF F
<1>2. CASE Bootable # {}
  <2> DEFINE label == BootLabels[Min(Bootable)]
             s == Step("bootable", BootPart, "ignore")
             F == Fit
  <2>1. Labelled(label) # {}
    <3>1. Bootable \subseteq 1..3 /\ 3 \in Nat
      BY DEF Bootable
    <3>2. Min(Bootable) \in Bootable
      BY <1>2, <3>1, Extremes
    <3> QED
      BY <3>2 DEF Bootable
  <2> HIDE DEF label
  <2>2. Labelled(label) \subseteq 1..Len(queue)
    BY DEF Labelled, Programs
  <2>3. queue \in Seq(DocTags) /\ Len(queue) \in Nat
    BY DEF ListsInv
  <2>4. Min(Labelled(label)) \in 1..Len(queue)
    BY <2>1, <2>2, <2>3, Extremes
  <2>5. queue[Min(Labelled(label))] \in DocTags
    BY <2>3, <2>4, ElementOfSeq
  <2>6. BootPart \in Seq(Nat)
    BY <2>5 DEF BootPart, DocTags, label
  <2>7. s \in F
    BY <2>6, WorkFits
  <2>8. s.do = "bootable"
    BY DEF Step
  <2>9. BootSteps = << s >>
    BY <1>2 DEF BootSteps
  <2> HIDE DEF s, F
  <2>10. << s >> \in Seq(F) /\ \A n \in 1..Len(<< s >>) : << s >>[n].do = "bootable"
    BY <2>7, <2>8
  <2> QED
    BY <2>9, <2>10 DEF F
<1> QED
  BY <1>1, <1>2

\* What a flash does is what its documents ask for.
LEMMA PlannedFits ==
    ASSUME setup \in Setups, ListsInv, Flash
    PROVE  Planned \in Seq(Fit)
<1> DEFINE F == Fit
           ops == Ordered!Plan(setup.erase_all)
           ss == [n \in 1..Len(ops) |-> OpSteps(ops[n])]
<1>1. ops \in Seq(Plannable)
  BY PlanIs
<1>2. queue \in Seq(DocTags) /\ Len(queue) \in Nat
  BY DEF ListsInv
<1>3. << >> \in Seq(F) /\ (\A a \in F : << a >> \in Seq(F)) /\ (\A a, b \in F : << a, b >> \in Seq(F))
  <2> HIDE DEF F
  <2> QED
    BY ShortLists
<1>4. ASSUME NEW op \in Plannable PROVE OpSteps(op) \in Seq(F)
  <2>1. CASE op = [kind |-> "all", live |-> TRUE, part |-> << >>] /\ setup.erase_all
    <3>1. ~Meddles /\ << "erase" >> \in Errands /\ "count" \in Words
      BY <2>1 DEF Meddles, Flash, Errands, Words
    <3>2. Each(<< "erase" >>, "count") \in F
      BY <2>1, <3>1, EachFits
    <3>3. CheckStep \in F
      <4>1. << >> \in Seq(Nat)
        OBVIOUS
      <4> QED
        BY <4>1, WorkFits DEF CheckStep
    <3>4. OpSteps(op) = << Each(<< "erase" >>, "count"), CheckStep >>
      BY <2>1 DEF OpSteps
    <3> QED
      BY <1>3, <3>2, <3>3, <3>4
  <2>2. CASE op \in DocTags /\ op.live /\ \E k \in 1..Len(queue) : op = queue[k]
    <3>1. op.kind \in {"program", "erase", "patch", "read"} /\ op.part \in Seq(Nat) /\ "stop" \in Words
      BY <2>2 DEF DocTags, Words
    <3>2. CASE op.kind = "read"
      <4>1. Step("backup", op.part, "stop") \in F
        BY <3>1, WorkFits
      <4> QED
        BY <1>3, <3>2, <4>1 DEF OpSteps
    <3>3. CASE op.kind \in ChangingSteps
      <4>1. Touchable(op.part)
        BY <2>2, <3>3, QueuedIsAsked
      <4>2. Step(op.kind, op.part, "stop") \in F
        BY <3>1, <3>3, <4>1, ChangeFits
      <4>3. OpSteps(op) = << Step(op.kind, op.part, "stop") >>
        BY <3>3 DEF OpSteps, ChangingSteps
      <4> QED
        BY <1>3, <4>2, <4>3
    <3> QED
      BY <3>1, <3>2, <3>3 DEF ChangingSteps
  <2> QED
    BY <2>1, <2>2 DEF Plannable
<1>5. Len(ops) \in Nat /\ \A n \in 1..Len(ops) : ops[n] \in Plannable
  <2> HIDE DEF ops
  <2> QED
    BY <1>1, ElementOfSeq
<1>6. ss \in [1..Len(ops) -> Seq(F)]
  BY <1>4, <1>5
<1>7. BootSteps \in Seq(F)
  BY BootFits
<1>8. Planned = FlattenSeq(ss) \o BootSteps
  BY DEF Planned
<1> HIDE DEF F, ops, ss
<1>9. FlattenSeq(ss) \in Seq(F)
  BY <1>5, <1>6, MappedAre
<1>10. FlattenSeq(ss) \o BootSteps \in Seq(F)
  BY <1>7, <1>9, Concatenated
<1> QED
  BY <1>8, <1>10 DEF F
-----------------------------------------------------------------------------
(* The steps of a session.                                                 *)

\* What every step on the partitions has in common.
Same ==
    /\ setup' = setup /\ pc = "work" /\ steps # << >> /\ Do.do \notin UfsSteps
    /\ pc' \in {"work", "exit"} /\ (ret # 0 => ret' # 0)

\* A step that changes neither a partition nor the tables.
Quiet ==
    /\ steps' = steps \/ steps' = Tail(steps) \/ steps' = << >>
    /\ cache' = cache /\ (lun' = lun \/ lun' = 0) /\ store' = store

\* A step with a partition goes on with it, one with tables with those of them.
Errand ==
    /\ cache' = cache /\ lun' = 0 /\ store' = store /\ ret' = ret /\ loaded
    /\ \/ Do.do = "find" /\ Found(Do.label) /\ steps' = StepsFor(FoundPart(Do.label)) \o Tail(steps)
       \/ Do.do = "each" /\
             steps' = FlattenSeq([n \in 1..Len(Table) |-> StepsFor(Table[n].part)]) \o Tail(steps)

Alters ==
    /\ Do.do \in ChangingSteps /\ cache' = cache /\ lun' = 0
    /\ steps' = Tail(steps) \/ steps' = << >>
    /\ \E to : store' \in {store, [store EXCEPT ![Do.part] = to]}

\* When there is nothing to insert, the rest of the steps is left.
LEMMA GoesOn ==
    ASSUME steps \in Seq(Fit), steps # << >>
    PROVE  << >> \o Tail(steps) = Tail(steps)
<1> DEFINE F == Fit
<1> HIDE DEF F
<1>1. steps \in Seq(F)
  BY DEF F
<1>2. Tail(steps) \in Seq(F)
  BY <1>1
<1> QED
  BY <1>2

\* How a step ends, with success or without.
LEMMA Ends ==
    ASSUME steps \in Seq(Fit), steps # << >>, setup' = setup, pc = "work", Do.do \notin UfsSteps
    PROVE  /\ Succeeds => /\ Same /\ steps' = Tail(steps) /\ lun' = 0 /\ ret' = ret
           /\ \A positive : Misses(positive) =>
                 /\ Same /\ (steps' = Tail(steps) \/ steps' = << >>) /\ lun' = 0
                 /\ Do.fails = "stop" => steps' = << >>
                 /\ Do.fails \in {"stop", "count"} => ret' # 0
<1>1. Succeeds => Same /\ steps' = Tail(steps) /\ lun' = 0 /\ ret' = ret
  BY GoesOn DEF Succeeds, Advance, Goto, Same
<1>2. ASSUME NEW positive, Misses(positive)
      PROVE  /\ Same /\ (steps' = Tail(steps) \/ steps' = << >>) /\ lun' = 0
             /\ Do.fails = "stop" => steps' = << >>
             /\ Do.fails \in {"stop", "count"} => ret' # 0
  <2>1. /\ steps' = Tail(steps) \/ steps' = << >>
        /\ lun' = 0 /\ (ret' = ret \/ ret' = -1) /\ pc' = "work"
        /\ Do.fails = "stop" => steps' = << >>
        /\ Do.fails \in {"stop", "count"} => ret' = -1
    BY <1>2 DEF Misses
  <2> QED
    BY <2>1 DEF Same
<1> QED
  BY <1>1, <1>2

\* The tables are read.
LEMMA TablesKinds ==
    ASSUME steps \in Seq(Fit), Tables
    PROVE  /\ Same /\ store' = store
           /\ \/ Quiet
              \/ HeaderBlank \/ EntriesRead \/ EntriesUnread
              \/ EntriesPrinted /\ cache' = cache /\ (steps' = steps /\ lun' = lun + 1)
<1>1. /\ setup' = setup /\ pc = "work" /\ steps # << >> /\ store' = store
      /\ Do.do \in {"find", "each", "xml", "resolve", "slot", "print"}
  BY DEF Tables, UseCache, HeaderUnread, HeaderBlank, HeaderInvalid, EntriesRead, EntriesUnread,
         EntriesPrinted, NandTable, NandPrint, NandNoMibib, NandUnread, Scans, GptStep, NandCall,
         Tabled, dataVars, qdlVars
<1>2. Do.do \notin UfsSteps
  BY <1>1 DEF UfsSteps
<1> USE DEF dataVars, qdlVars
<1>3. CASE UseCache
  BY <1>1, <1>2, <1>3 DEF UseCache, Quiet, Same
<1>4. CASE HeaderUnread
  <2>1. (Printing /\ Advance(<< >>)) \/ (steps' = steps /\ lun' = 0)
    BY <1>4 DEF HeaderUnread
  <2>2. pc' = pc /\ ret' = ret /\ cache' = cache
    BY <1>4 DEF HeaderUnread
  <2>3. (steps' = steps \/ steps' = Tail(steps)) /\ lun' = 0
    BY <1>1, <2>1, GoesOn DEF Advance
  <2> QED
    BY <1>1, <1>2, <2>2, <2>3 DEF Quiet, Same
<1>5. CASE HeaderBlank
  BY <1>1, <1>2, <1>5 DEF HeaderBlank, Same
<1>6. CASE HeaderInvalid
  <2>1. Misses(FALSE) /\ cache' = cache
    BY <1>6 DEF HeaderInvalid
  <2> QED
    BY <1>1, <1>2, <2>1, Ends DEF Quiet
<1>7. CASE EntriesRead
  BY <1>1, <1>2, <1>7 DEF EntriesRead, Same
<1>8. CASE EntriesUnread
  <2>1. Misses(FALSE)
    BY <1>8 DEF EntriesUnread
  <2> QED
    BY <1>1, <1>2, <1>8, <2>1, Ends
<1>9. CASE EntriesPrinted
  <2>1. CASE Misses(FALSE)
    <3>1. cache' = cache
      BY <1>9 DEF EntriesPrinted
    <3> QED
      BY <1>1, <1>2, <2>1, <3>1, Ends DEF Quiet
  <2>2. CASE lun' = lun + 1 /\ UNCHANGED << pc, ret, unsaid, steps, loaded >>
    <3>1. cache' = cache
      BY <1>9 DEF EntriesPrinted
    <3> QED
      BY <1>1, <1>2, <1>9, <2>2, <3>1 DEF Same
  <2> QED
    BY <1>9, <2>1, <2>2 DEF EntriesPrinted
<1>10. CASE NandTable
  BY <1>1, <1>2, <1>10 DEF NandTable, Quiet, Same
<1>11. CASE NandPrint
  <2>1. Succeeds /\ cache' = cache
    BY <1>11 DEF NandPrint
  <2> QED
    BY <1>1, <1>2, <2>1, Ends DEF Quiet
<1>12. CASE NandNoMibib
  <2>1. Misses(FALSE) /\ cache' = cache
    BY <1>12 DEF NandNoMibib
  <2> QED
    BY <1>1, <1>2, <2>1, Ends DEF Quiet
<1>13. CASE NandUnread
  <2>1. Misses(FALSE) /\ cache' = cache
    BY <1>13 DEF NandUnread
  <2> QED
    BY <1>1, <1>2, <2>1, Ends DEF Quiet
<1> QED
  BY <1>3, <1>4, <1>5, <1>6, <1>7, <1>8, <1>9, <1>10, <1>11, <1>12, <1>13 DEF Tables

\* A step on a label finds it, or fails.
LEMMA LabelKinds ==
    ASSUME steps \in Seq(Fit), NEW onNand, NEW then, WithLabel(onNand, then)
    PROVE  Same /\ (Quiet \/ Errand)
<1>1. /\ setup' = setup /\ pc = "work" /\ steps # << >> /\ Do.do = "find" /\ store' = store
      /\ cache' = cache /\ loaded
      /\ IF Found(Do.label) THEN Advance(StepsFor(FoundPart(Do.label))) /\ Goto("work") ELSE Misses(FALSE)
  BY DEF WithLabel, Busy, dataVars
<1>2. Do.do \notin UfsSteps
  BY <1>1 DEF UfsSteps
<1>3. CASE Found(Do.label)
  BY <1>1, <1>2, <1>3 DEF Advance, Goto, Same, Errand
<1>4. CASE ~Found(Do.label)
  BY <1>1, <1>2, <1>4, Ends DEF Quiet
<1> QED
  BY <1>3, <1>4

\* A step on all partitions goes on with each of them.
LEMMA EachKinds ==
    ASSUME steps \in Seq(Fit), NEW onNand, NEW then, ForEach(onNand, then)
    PROVE  Same /\ Errand
<1>1. /\ setup' = setup /\ pc = "work" /\ steps # << >> /\ Do.do = "each" /\ store' = store
      /\ cache' = cache /\ loaded /\ Goto("work")
      /\ Advance(FlattenSeq([n \in 1..Len(Table) |-> StepsFor(Table[n].part)]))
  BY DEF ForEach, Busy, dataVars
<1>2. Do.do \notin UfsSteps
  BY <1>1 DEF UfsSteps
<1> QED
  BY <1>1, <1>2 DEF Advance, Goto, Same, Errand

\* A step that may fail, and one that may change its partition.
LEMMA PlainKinds ==
    ASSUME steps \in Seq(Fit), setup' = setup, pc = "work", steps # << >>, Do.do \notin UfsSteps,
           cache' = cache, Succeeds \/ (\E positive \in BOOLEAN : Misses(positive))
    PROVE  /\ Same
           /\ store' = store => Quiet
           /\ Do.do \in ChangingSteps /\ (\E to : store' \in {store, [store EXCEPT ![Do.part] = to]})
                 => Alters
<1>1. Same /\ (steps' = Tail(steps) \/ steps' = << >>) /\ lun' = 0
  BY Ends
<1> QED
  BY <1>1 DEF Quiet, Alters

\* A step that erases or programs changes its partition alone.
LEMMA ChangesKinds ==
    ASSUME steps \in Seq(Fit), NEW do \in ChangingSteps, NEW to, NEW torn, Changes(do, to, torn)
    PROVE  Same /\ Alters
<1>1. /\ setup' = setup /\ pc = "work" /\ steps # << >> /\ Do.do = do /\ cache' = cache
      /\ Succeeds \/ Misses(FALSE)
      /\ \/ store' = [store EXCEPT ![Do.part] = to]
         \/ store' \in {store, [store EXCEPT ![Do.part] = torn]}
  BY DEF Changes, Busy
<1>2. Do.do \notin UfsSteps
  BY <1>1 DEF UfsSteps, ChangingSteps
<1>3. \E x : store' \in {store, [store EXCEPT ![Do.part] = x]}
  BY <1>1
<1> QED
  BY <1>1, <1>2, <1>3, PlainKinds

\* Each step on the partitions is of one of these kinds.
LEMMA StepsKinds ==
    ASSUME steps \in Seq(Fit), PartitionStep
    PROVE  /\ Same
           /\ \/ Quiet
              \/ (HeaderBlank \/ EntriesRead \/ EntriesUnread) /\ store' = store
              \/ EntriesPrinted /\ store' = store /\ cache' = cache /\ steps' = steps /\ lun' = lun + 1
              \/ Errand
              \/ Alters
<1> USE DEF dataVars, tableVars
<1>1. CASE Tables
  BY <1>1, TablesKinds
<1>2. CASE \/ GptReadPartition \/ GptReadToDir \/ GptErasePartition \/ GptWritePartition
           \/ NandReadPartition \/ NandReadToDir \/ NandErasePartition \/ NandWritePartition
  BY <1>2, LabelKinds
  DEF GptReadPartition, GptReadToDir, GptErasePartition, GptWritePartition,
      NandReadPartition, NandReadToDir, NandErasePartition, NandWritePartition
<1>3. CASE GptReadAll \/ GptEraseAll \/ NandReadAll \/ NandEraseAll
  BY <1>3, EachKinds DEF GptReadAll, GptEraseAll, NandReadAll, NandEraseAll
<1>4. CASE GptMakeXml \/ NandMakeXml
  <2>1. /\ setup' = setup /\ pc = "work" /\ steps # << >> /\ Do.do = "xml"
        /\ cache' = cache /\ store' = store /\ (Succeeds \/ Misses(FALSE))
    BY <1>4 DEF GptMakeXml, NandMakeXml, XmlFor, Busy
  <2>2. Do.do \notin UfsSteps
    BY <2>1 DEF UfsSteps
  <2> QED
    BY <2>1, <2>2, PlainKinds
<1>5. CASE NoDirectory
  <2>1. /\ setup' = setup /\ pc = "work" /\ steps # << >> /\ Do.do = "each"
        /\ cache' = cache /\ store' = store /\ Misses(FALSE)
    BY <1>5 DEF NoDirectory, Busy
  <2>2. Do.do \notin UfsSteps
    BY <2>1 DEF UfsSteps
  <2> QED
    BY <2>1, <2>2, PlainKinds
<1>6. CASE ActiveSlot
  <2>1. /\ setup' = setup /\ pc = "work" /\ steps # << >> /\ Do.do = "slot"
        /\ cache' = cache /\ store' = store /\ (Succeeds \/ Misses(FALSE))
    BY <1>6 DEF ActiveSlot, Busy
  <2>2. Do.do \notin UfsSteps
    BY <2>1 DEF UfsSteps
  <2> QED
    BY <2>1, <2>2, PlainKinds
<1>7. CASE SetSlot
  <2>1. /\ setup' = setup /\ pc = "work" /\ steps # << >> /\ Do.do = "setslot"
        /\ cache' = cache /\ store' = store /\ Misses(FALSE)
    BY <1>7 DEF SetSlot, Busy
  <2>2. Do.do \notin UfsSteps
    BY <2>1 DEF UfsSteps
  <2> QED
    BY <2>1, <2>2, PlainKinds
<1>8. CASE Check
  <2>1. /\ setup' = setup /\ pc = "work" /\ steps # << >> /\ Do.do = "check"
        /\ cache' = cache /\ store' = store
        /\ Succeeds \/ (steps' = << >> /\ Goto("work") /\ lun' = lun)
    BY <1>8 DEF Check, Busy
  <2>2. Do.do \notin UfsSteps
    BY <2>1 DEF UfsSteps
  <2>3. CASE Succeeds
    BY <2>1, <2>2, <2>3, PlainKinds
  <2>4. CASE steps' = << >> /\ Goto("work") /\ lun' = lun
    BY <2>1, <2>2, <2>4 DEF Same, Quiet, Goto
  <2> QED
    BY <2>1, <2>3, <2>4
<1>9. CASE StorageInfo
  <2>1. /\ setup' = setup /\ pc = "work" /\ steps # << >> /\ Do.do = "info"
        /\ cache' = cache /\ store' = store /\ (Succeeds \/ Misses(FALSE))
    BY <1>9 DEF StorageInfo, Busy
  <2>2. Do.do \notin UfsSteps
    BY <2>1 DEF UfsSteps
  <2> QED
    BY <2>1, <2>2, PlainKinds
<1>10. CASE CountLuns
  <2>1. /\ setup' = setup /\ pc = "work" /\ steps # << >> /\ Do.do = "luns"
        /\ cache' = cache /\ store' = store /\ (Succeeds \/ Misses(FALSE))
    BY <1>10 DEF CountLuns, Busy
  <2>2. Do.do \notin UfsSteps
    BY <2>1 DEF UfsSteps
  <2> QED
    BY <2>1, <2>2, PlainKinds
<1>11. CASE Probe
  <2>1. /\ setup' = setup /\ pc = "work" /\ steps # << >> /\ Do.do = "probe"
        /\ cache' = cache /\ store' = store /\ Succeeds
    BY <1>11 DEF Probe, Busy
  <2>2. Do.do \notin UfsSteps
    BY <2>1 DEF UfsSteps
  <2> QED
    BY <2>1, <2>2, PlainKinds
<1>12. CASE OpenFile \/ ReadSectors \/ ReadBreaks
  <2>1. /\ setup' = setup /\ pc = "work" /\ steps # << >> /\ Do.do = "read"
        /\ cache' = cache /\ store' = store
        /\ \/ Succeeds \/ \E positive \in BOOLEAN : Misses(positive)
           \/ UNCHANGED << pc, ret, unsaid, steps, lun, loaded >>
    BY <1>12 DEF OpenFile, ReadSectors, ReadBreaks, Busy
  <2>2. Do.do \notin UfsSteps
    BY <2>1 DEF UfsSteps
  <2>3. CASE UNCHANGED << pc, ret, unsaid, steps, lun, loaded >>
    BY <2>1, <2>2, <2>3 DEF Same, Quiet
  <2> QED
    BY <2>1, <2>2, <2>3, PlainKinds
<1>13. CASE HostDiskFull
  <2>1. /\ setup' = setup /\ pc = "work" /\ steps # << >> /\ Do.do = "read"
        /\ cache' = cache /\ store' = store /\ steps' = steps /\ lun' = lun /\ ret' = 1 /\ pc' = "exit"
    BY <1>13 DEF HostDiskFull, Busy
  <2>2. Do.do \notin UfsSteps
    BY <2>1 DEF UfsSteps
  <2> QED
    BY <2>1, <2>2 DEF Same, Quiet
<1>14. CASE Backup
  <2>1. /\ setup' = setup /\ pc = "work" /\ steps # << >> /\ Do.do = "backup"
        /\ cache' = cache /\ store' = store /\ (Succeeds \/ Misses(FALSE))
    BY <1>14 DEF Backup, Busy
  <2>2. Do.do \notin UfsSteps
    BY <2>1 DEF UfsSteps
  <2> QED
    BY <2>1, <2>2, PlainKinds
<1>15. CASE Erase \/ Patch \/ Program
  BY <1>15, ChangesKinds DEF Erase, Patch, Program, ChangingSteps
<1>16. CASE ImageMissing
  <2>1. /\ setup' = setup /\ pc = "work" /\ steps # << >> /\ Do.do = "program"
        /\ cache' = cache /\ store' = store /\ Misses(FALSE)
    BY <1>16 DEF ImageMissing, Busy
  <2>2. Do.do \notin UfsSteps
    BY <2>1 DEF UfsSteps
  <2> QED
    BY <2>1, <2>2, PlainKinds
<1>17. CASE Power
  <2>1. /\ setup' = setup /\ pc = "work" /\ steps # << >> /\ Do.do = "power"
        /\ cache' = cache /\ store' = store
        /\ Succeeds \/ Misses(FALSE) \/ (Advance(<< >>) /\ pc' = pc /\ ret' = ret)
    BY <1>17 DEF Power, Busy
  <2>2. Do.do \notin UfsSteps
    BY <2>1 DEF UfsSteps
  <2>3. CASE Advance(<< >>) /\ pc' = pc /\ ret' = ret
    BY <2>1, <2>2, <2>3, GoesOn DEF Advance, Same, Quiet
  <2> QED
    BY <2>1, <2>2, <2>3, PlainKinds
<1> QED
  BY <1>1, <1>2, <1>3, <1>4, <1>5, <1>6, <1>7, <1>8, <1>9, <1>10, <1>11, <1>12, <1>13, <1>14, <1>15,
     <1>16, <1>17 DEF PartitionStep
-----------------------------------------------------------------------------
(* What such a step leaves.                                                *)

\* When the lists stay, what is allowed stays allowed.
LEMMA Grown ==
    ASSUME setup' = setup, queue' = queue, ufsdoc' = ufsdoc, ret # 0 => ret' # 0
    PROVE  Fit \subseteq Fit' /\ \A part : Touchable(part) => Touchable(part)'
<1>1. Gpts' = Gpts
  BY DEF Gpts
<1> QED
  BY <1>1, FitGrows

\* A table that is not read stays as it is.
LEMMA TableKept ==
    ASSUME TableInv, setup' = setup, cache' = cache, lun' = lun \/ lun' = 0, ret # 0 => ret' # 0,
           setup \in Setups, steps # << >> \/ steps' = steps
    PROVE  TableInv'
<1>1. /\ RowSet' = RowSet /\ Disk' = Disk /\ Nand' = Nand /\ Meddles' = Meddles /\ Flash' = Flash
      /\ Parts' = Parts
  BY FixedRows, FixedDisk
<1>2. Whence => Whence'
  BY <1>1 DEF Whence, Covers, UpTo
<1>3. Covers(cache, lun) /\ lun' = lun => Covers(cache, lun)'
  BY <1>1 DEF Covers, UpTo
<1>4. 0 \in 0..Len(Disk)
  BY DiskTyped
<1>5. cache' \in Seq(RowSet') /\ lun' \in 0..Len(Disk') /\ (Nand' => cache' = << >>)
  BY <1>1, <1>4 DEF TableInv
<1>6. Meddles' /\ ~Nand' /\ lun' > 0 => Covers(cache, lun)'
  BY <1>1, <1>3 DEF TableInv
<1>7. Meddles' /\ ~Nand' => Whence' \/ (ret' # 0 /\ (Flash' => steps' = << >>))
  BY <1>1, <1>2 DEF TableInv
<1> QED
  BY <1>5, <1>6, <1>7 DEF TableInv

\* What has been changed on the modem may have been changed.
LEMMA StoreKept ==
    ASSUME StoreInv, setup' = setup, store' = store, \A part : Touchable(part) => Touchable(part)'
    PROVE  StoreInv'
<1>1. Parts' = Parts
  BY FixedDisk
<1> QED
  BY <1>1 DEF StoreInv

\* Steps that neither change a partition nor read a table.
LEMMA QuietHolds ==
    ASSUME setup \in Setups, steps \in Seq(Fit), TableInv, StoreInv, Same, Quiet, UNCHANGED listVars
    PROVE  steps' \in Seq(Fit') /\ TableInv' /\ StoreInv'
<1>1. Fit \subseteq Fit' /\ \A part : Touchable(part) => Touchable(part)'
  BY Grown DEF Same, listVars
<1>2. steps' \in Seq(Fit')
  BY <1>1, LessSteps DEF Same, Quiet
<1>3. TableInv'
  BY TableKept DEF Same, Quiet
<1>4. StoreInv'
  BY <1>1, StoreKept DEF Same, Quiet
<1> QED
  BY <1>2, <1>3, <1>4

\* Only a partition that may be changed is changed.
LEMMA AltersHolds ==
    ASSUME setup \in Setups, steps \in Seq(Fit), TableInv, StoreInv, Same, Alters, UNCHANGED listVars
    PROVE  steps' \in Seq(Fit') /\ TableInv' /\ StoreInv'
<1>1. Fit \subseteq Fit' /\ \A part : Touchable(part) => Touchable(part)'
  BY Grown DEF Same, listVars
<1>2. steps' \in Seq(Fit')
  BY <1>1, LessSteps DEF Same, Alters
<1>3. TableInv'
  BY TableKept DEF Same, Alters
<1>4. Touchable(Do.part)
  BY StepOn DEF Same, Alters, Allowed
<1>5. DOMAIN store' = DOMAIN store /\ \A part \in DOMAIN store : part # Do.part => store'[part] = store[part]
  BY DEF Alters
<1>6. Parts' = Parts
  BY FixedDisk DEF Same
<1>7. StoreInv'
  BY <1>1, <1>4, <1>5, <1>6 DEF StoreInv
<1> QED
  BY <1>2, <1>3, <1>7

\* The steps for a partition.
LEMMA StepsForFit ==
    ASSUME setup \in Setups, steps \in Seq(Fit), steps # << >>, NEW part \in Parts,
           Then(Do) \cap ChangingSteps # {} => Touchable(part)
    PROVE  StepsFor(part) \in Seq(Fit)
<1>1. Do \in AllSteps /\ Then(Do) \subseteq {"probe", "read", "erase", "program"}
  BY StepOn DEF Allowed
<1>2. Do.then \in Seq(Words) /\ Do.fails \in Words /\ Len(Do.then) \in Nat
  BY <1>1 DEF AllSteps
<1>3. part \in Seq(Nat)
  BY PartsAre
<1>4. ASSUME NEW n \in 1..Len(Do.then) PROVE Step(Do.then[n], part, Do.fails) \in Fit
  <2> DEFINE do == Do.then[n]
  <2>1. do \in Then(Do) /\ do \in {"probe", "read", "erase", "program"}
    BY <1>1 DEF Then
  <2> HIDE DEF do
  <2>2. CASE do \in {"probe", "read"}
    <3>1. /\ do \in Words /\ "" \in Words
          /\ do \notin UfsSteps \cup ChangingSteps \cup {"find", "each", "resolve", "plan"} \cup TableSteps
      BY <2>2 DEF Words, UfsSteps, ChangingSteps, TableSteps
    <3>2. [do |-> do, label |-> "", part |-> part, then |-> << >>, fails |-> Do.fails] \in Fit
      BY <1>2, <1>3, <3>1, PlainFits
    <3> QED
      BY <3>2 DEF Step, do
  <2>3. CASE do \in {"erase", "program"}
    <3>1. do \in ChangingSteps
      BY <2>3 DEF ChangingSteps
    <3>2. Touchable(part)
      BY <2>1, <3>1
    <3>3. Step(do, part, Do.fails) \in Fit
      BY <1>2, <1>3, <3>1, <3>2, ChangeFits
    <3> QED
      BY <3>3 DEF do
  <2> QED
    BY <2>1, <2>2, <2>3
<1>5. StepsFor(part) \in [1..Len(Do.then) -> Fit]
  BY <1>4 DEF StepsFor
<1> QED
  BY <1>2, <1>5, SeqDef

\* The tables that a step looks at.
LEMMA TableTyped ==
    ASSUME setup \in Setups, TableInv
    PROVE  Table \in Seq(RowSet)
<1>1. CASE Nand /\ ~GptOnly
  <2>1. Len(Disk) = 1
    BY <1>1, DiskTyped DEF SetupFits, Nand, Disk
  <2>2. 1 \in 1..Len(Disk)
    BY <2>1
  <2> QED
    BY <1>1, <2>2, RowsAre DEF Table
<1>2. CASE ~(Nand /\ ~GptOnly)
  BY <1>2 DEF Table, TableInv
<1> QED
  BY <1>1, <1>2

\* What a command changes under a label may be changed.
LEMMA LabelTouchable ==
    ASSUME setup \in Setups, TableInv, steps \in Seq(Fit), steps # << >>,
           Do.do = "find", Found(Do.label), Then(Do) \cap ChangingSteps # {}
    PROVE  Touchable(FoundPart(Do.label))
<1> DEFINE label == Do.label
           part == FoundPart(label)
<1>1. /\ ~Flash /\ (\E n \in 1..Len(setup.labels) : label = setup.labels[n])
      /\ (Cmd = "erase" /\ ~setup.raw) \/ (Cmd = "write" /\ label = setup.labels[1])
  BY StepOn DEF Allowed
<1>2. PICK n \in 1..Len(setup.labels) : label = setup.labels[n]
  BY <1>1
<1>3. Meddles
  BY <1>1 DEF Meddles
<1>4. Table \in Seq(RowSet) /\ Len(Table) \in Nat
  BY TableTyped
<1>5. Matches(label) \subseteq 1..Len(Table)
  BY DEF Matches, Bearing
<1>6. Cardinality(Matches(label)) = 1 \/ (Nand /\ Matches(label) # {})
  BY DEF Found
<1> HIDE DEF label
<1>7. Matches(label) # {}
  BY <1>4, <1>5, <1>6, OneOf
<1>8. part \in Called(label)
  BY <1>4, <1>7, FoundNamed
<1>9. part \in Named
  BY <1>2, <1>8 DEF Named, Called
<1>10. ~GptOnly
  BY DEF GptOnly
<1>11. CASE ret # 0
  BY <1>9, <1>11 DEF Touchable, label
<1>12. CASE ret = 0
  <2>1. part = Place(label)
    <3>1. CASE Nand
      <4>1. Table = Rows(1)
        BY <1>10, <3>1 DEF Table
      <4> QED
        BY <1>1, <1>7, <3>1, <4>1, FoundOnNand
    <3>2. CASE ~Nand
      <4>1. Table = cache /\ cache \in Seq(RowSet) /\ Cardinality(Matches(label)) = 1
        BY <1>6, <3>2 DEF Table, TableInv
      <4>2. PICK k \in 0..Len(Disk) : Covers(cache, k)
        BY <1>3, <1>12, <3>2 DEF TableInv, Whence
      <4> QED
        BY <4>1, <4>2, FoundIsPlace
    <3> QED
      BY <3>1, <3>2
  <2>2. Asked(Place(label)) # "old"
    BY <1>1, <1>2, AskedOfLabel
  <2> QED
    BY <2>1, <2>2 DEF Touchable, label
<1> QED
  BY <1>11, <1>12 DEF label

\* A step goes on with what the tables say.
LEMMA ErrandHolds ==
    ASSUME setup \in Setups, steps \in Seq(Fit), TableInv, StoreInv, Same, Errand, UNCHANGED listVars
    PROVE  steps' \in Seq(Fit') /\ TableInv' /\ StoreInv'
<1>1. Fit \subseteq Fit' /\ \A part : Touchable(part) => Touchable(part)'
  BY Grown DEF Same, listVars
<1>2. TableInv'
  BY TableKept DEF Same, Errand
<1>3. StoreInv'
  BY <1>1, StoreKept DEF Same, Errand
<1>4. Table \in Seq(RowSet) /\ Len(Table) \in Nat /\ \A n \in 1..Len(Table) : Table[n].part \in Parts
  BY TableTyped, RowsFit
<1>5. ASSUME NEW more \in Seq(Fit), steps' = more \o Tail(steps)
      PROVE  steps' \in Seq(Fit')
  <2>1. more \in Seq(Fit')
    <3> DEFINE F == Fit
               G == Fit'
    <3>1. F \subseteq G /\ more \in Seq(F)
      BY <1>1
    <3> HIDE DEF F, G
    <3>2. more \in Seq(G)
      BY <3>1, ElementsIn, ElementOfSeq
    <3> QED
      BY <3>2 DEF G
  <2> QED
    BY <1>1, <1>5, <2>1, MoreSteps DEF Same
<1>6. CASE Do.do = "find" /\ Found(Do.label) /\ steps' = StepsFor(FoundPart(Do.label)) \o Tail(steps)
  <2>1. Matches(Do.label) # {}
    <3>1. Matches(Do.label) \subseteq 1..Len(Table)
      BY DEF Matches, Bearing
    <3>2. Cardinality(Matches(Do.label)) = 1 \/ Matches(Do.label) # {}
      BY <1>6 DEF Found
    <3> QED
      BY <1>4, <3>1, <3>2, OneOf
  <2>2. FoundPart(Do.label) \in Parts
    BY <1>4, <2>1, FoundNamed DEF Called
  <2>3. Then(Do) \cap ChangingSteps # {} => Touchable(FoundPart(Do.label))
    BY <1>6, LabelTouchable DEF Same
  <2>4. StepsFor(FoundPart(Do.label)) \in Seq(Fit)
    BY <2>2, <2>3, StepsForFit DEF Same
  <2>5. steps' \in Seq(Fit')
    BY <1>5, <1>6, <2>4
  <2> QED
    BY <1>2, <1>3, <2>5
<1>7. CASE Do.do = "each" /\
           steps' = FlattenSeq([n \in 1..Len(Table) |-> StepsFor(Table[n].part)]) \o Tail(steps)
  <2> DEFINE ss == [n \in 1..Len(Table) |-> StepsFor(Table[n].part)]
  <2>1. ASSUME NEW part \in Parts PROVE StepsFor(part) \in Seq(Fit)
    <3>1. Then(Do) \cap ChangingSteps # {} => Cmd = "eraseall" \/ (Flash /\ setup.erase_all)
      BY <1>7, StepOn DEF Same, Allowed
    <3>2. Then(Do) \cap ChangingSteps # {} => Touchable(part)
      BY <3>1, AskedOfAll DEF Touchable
    <3> QED
      BY <3>2, StepsForFit DEF Same
  <2>2. ss \in [1..Len(Table) -> Seq(Fit)]
    BY <1>4, <2>1
  <2>3. steps' = FlattenSeq(ss) \o Tail(steps)
    BY <1>7
  <2> HIDE DEF ss
  <2>4. FlattenSeq(ss) \in Seq(Fit)
    BY <1>4, <2>2, MappedAre
  <2>5. steps' \in Seq(Fit')
    BY <1>5, <2>3, <2>4
  <2> QED
    BY <1>2, <1>3, <2>5
<1> QED
  BY <1>6, <1>7 DEF Errand

\* A LUN without a table, and one whose table is printed or read.
LEMMA ScanHolds ==
    ASSUME setup \in Setups, steps \in Seq(Fit), TableInv, StoreInv, Same, UNCHANGED listVars,
           store' = store,
           \/ HeaderBlank
           \/ EntriesRead
           \/ EntriesPrinted /\ cache' = cache /\ steps' = steps /\ lun' = lun + 1
    PROVE  steps' \in Seq(Fit') /\ TableInv' /\ StoreInv'
<1>1. Fit \subseteq Fit' /\ \A part : Touchable(part) => Touchable(part)'
  BY Grown DEF Same, listVars
<1>2. StoreInv'
  BY <1>1, StoreKept DEF Same
<1>3. /\ steps' = steps /\ lun' = lun + 1 /\ lun < Len(Disk) /\ Scans /\ steps # << >>
      /\ \/ HeaderBlank /\ cache' = cache /\ KindOf(lun + 1) = "blank"
         \/ cache' = cache \o Rows(lun + 1) /\ KindOf(lun + 1) = "gpt" /\ ~Printing
         \/ Printing /\ cache' = cache
  BY DEF HeaderBlank, EntriesRead, EntriesPrinted, Same
<1>4. steps' \in Seq(Fit')
  BY <1>1, <1>3, LessSteps
<1>5. /\ lun \in 0..(Len(Disk) - 1) /\ lun + 1 \in 1..Len(Disk) /\ Len(Disk) \in Nat
      /\ lun + 1 \in 0..Len(Disk) /\ cache \in Seq(RowSet)
  BY <1>3, DiskTyped DEF TableInv
<1>6. /\ RowSet' = RowSet /\ Disk' = Disk /\ Nand' = Nand /\ Meddles' = Meddles /\ Flash' = Flash
      /\ Parts' = Parts /\ setup' = setup
  BY FixedRows, FixedDisk DEF Same
<1>7. Meddles => ~Printing
  <2>1. Do.do \in TableSteps
    BY <1>3 DEF Scans, GptStep, Tabled, TableSteps
  <2> QED
    BY <1>3, <2>1, StepOn DEF Allowed, Printing
<1>8. Nand => KindOf(lun + 1) = "blank"
  BY DEF KindOf
<1>9. cache' \in Seq(RowSet') /\ (Nand' => cache' = << >>)
  <2>1. CASE cache' = cache
    BY <1>5, <1>6, <2>1 DEF TableInv
  <2>2. CASE cache' = cache \o Rows(lun + 1) /\ KindOf(lun + 1) = "gpt"
    <3>1. Rows(lun + 1) \in Seq(RowSet)
      BY <1>5, RowsAre
    <3>2. cache \o Rows(lun + 1) \in Seq(RowSet)
      BY <1>5, <3>1, Concatenated
    <3> QED
      BY <1>6, <1>8, <2>2, <3>2
  <2> QED
    BY <1>3, <2>1, <2>2
<1>10. ASSUME Meddles, ~Nand PROVE Covers(cache, lun)' /\ Whence'
  <2>1. Covers(cache, lun)
    <3>1. CASE lun > 0
      BY <1>10, <3>1 DEF TableInv
    <3>2. CASE ~(lun > 0)
      <4>1. lun = 0
        BY <1>5, <3>2
      <4>2. cache = << >>
        BY <1>3, <1>7, <1>10, <4>1 DEF Scans
      <4> QED
        BY <4>1, <4>2, CoversNone
    <3> QED
      BY <3>1, <3>2
  <2>2. \E c : c = cache' /\ Covers(c, lun + 1)
    <3>1. CASE cache' = cache /\ KindOf(lun + 1) = "blank"
      BY <1>5, <1>10, <2>1, <3>1, CoversBlank DEF KindOf
    <3>2. CASE cache' = cache \o Rows(lun + 1)
      BY <1>5, <2>1, <3>2, CoversNext
    <3> QED
      BY <1>3, <1>7, <1>10, <3>1, <3>2
  <2>3. PICK c : c = cache' /\ Covers(c, lun + 1)
    BY <2>2
  <2>4. Covers(cache, lun)'
    BY <1>3, <1>6, <2>3 DEF Covers, UpTo
  <2>5. PICK k : k = lun + 1
    OBVIOUS
  <2>6. c = cache' /\ Covers(c, k)
    BY <2>3, <2>5
  <2>7. UpTo(k)' = UpTo(k)
    BY <1>6, FixedRows
  <2>8. Covers(cache, k)'
    BY <2>6, <2>7 DEF Covers
  <2>9. k \in 0..Len(Disk')
    BY <1>5, <1>6, <2>5
  <2> QED
    BY <2>4, <2>8, <2>9 DEF Whence
<1>11. lun' \in 0..Len(Disk')
  BY <1>3, <1>5, <1>6
<1>12. TableInv'
  BY <1>6, <1>9, <1>10, <1>11 DEF TableInv
<1> QED
  BY <1>2, <1>4, <1>12

\* A list that is cut short comes with a failure, and ends a flash.
LEMMA UnreadHolds ==
    ASSUME setup \in Setups, steps \in Seq(Fit), TableInv, StoreInv, Same, UNCHANGED listVars,
           store' = store, EntriesUnread
    PROVE  steps' \in Seq(Fit') /\ TableInv' /\ StoreInv'
<1>1. Fit \subseteq Fit' /\ \A part : Touchable(part) => Touchable(part)'
  BY Grown DEF Same, listVars
<1>2. StoreInv'
  BY <1>1, StoreKept DEF Same
<1>3. /\ lun < Len(Disk) /\ Tabled /\ GptStep /\ KindOf(lun + 1) = "gpt" /\ Misses(FALSE)
      /\ \E n \in 0..(Len(Disk[lun + 1].parts) - 1) : cache' = cache \o SubSeq(Rows(lun + 1), 1, n)
  BY DEF EntriesUnread, Scans, GptStep
<1>4. /\ steps' = Tail(steps) \/ steps' = << >>
      /\ lun' = 0 /\ (Do.fails = "stop" => steps' = << >>) /\ (Do.fails \in {"stop", "count"} => ret' # 0)
  BY <1>3, Ends DEF Same
<1>5. steps' \in Seq(Fit')
  BY <1>1, <1>4, LessSteps DEF Same
<1>6. lun + 1 \in 1..Len(Disk) /\ cache \in Seq(RowSet) /\ 0 \in 0..Len(Disk)
  BY <1>3, DiskTyped DEF TableInv
<1>7. /\ RowSet' = RowSet /\ Disk' = Disk /\ Nand' = Nand /\ Meddles' = Meddles /\ Flash' = Flash
  BY FixedRows, FixedDisk DEF Same
<1>8. ~Nand
  BY <1>3 DEF KindOf
<1>9. cache' \in Seq(RowSet)
  <2>1. PICK n \in 0..(Len(Disk[lun + 1].parts) - 1) : cache' = cache \o SubSeq(Rows(lun + 1), 1, n)
    BY <1>3
  <2>2. Rows(lun + 1) \in Seq(RowSet) /\ Len(Rows(lun + 1)) = Len(Disk[lun + 1].parts)
    BY <1>6, RowsAre
  <2>3. Len(Disk[lun + 1].parts) \in Nat
    BY <1>6, DiskTyped
  <2> DEFINE r == Rows(lun + 1)
  <2>4. r \in Seq(RowSet) /\ n \in 0..Len(r) /\ Len(r) \in Nat
    BY <2>2, <2>3
  <2> HIDE DEF r
  <2>5. SubSeq(r, 1, n) \in Seq(RowSet)
    <3> DEFINE R == RowSet
    <3> HIDE DEF R
    <3>1. r \in Seq(R)
      BY <2>4 DEF R
    <3>2. SubSeq(r, 1, n) \in Seq(R)
      BY <2>4, <3>1, SubSeqProperties
    <3> QED
      BY <3>2 DEF R
  <2> QED
    BY <1>6, <2>1, <2>5, Concatenated DEF r
<1>10. ASSUME Meddles PROVE ret' # 0 /\ (Flash => steps' = << >>)
  <2>1. Do.do \in TableSteps /\ Allowed(Do)
    BY <1>3, StepOn DEF Tabled, TableSteps, Same
  <2>2. Do.do \in {"find", "resolve"} /\ Do.fails \in {"stop", "count"}
    BY <1>10, <2>1 DEF Allowed
  <2>3. Flash => Do.fails = "stop"
    BY <2>1, <2>2 DEF Allowed
  <2> QED
    BY <1>4, <2>2, <2>3
<1>11. TableInv'
  BY <1>4, <1>6, <1>7, <1>8, <1>9, <1>10 DEF TableInv
<1> QED
  BY <1>2, <1>5, <1>11

\* Every step on the partitions keeps to what the command asks for.
LEMMA WorkHolds ==
    ASSUME setup \in Setups, steps \in Seq(Fit), TableInv, StoreInv, PartitionStep, UNCHANGED listVars
    PROVE  Same /\ steps' \in Seq(Fit') /\ TableInv' /\ StoreInv'
  BY StepsKinds, QuietHolds, AltersHolds, ErrandHolds, ScanHolds, UnreadHolds
-----------------------------------------------------------------------------
(* The steps that leave the work on the partitions alone.                  *)

\* Before the session is configured nothing has happened on the modem, and it
\* stays so.
LEMMA EarlyHolds ==
    ASSUME setup \in Setups, Fresh, UfsInv, UNCHANGED << setup, work >>
    PROVE  Fresh' /\ steps' \in Seq(Fit') /\ TableInv' /\ UfsInv' /\ StoreInv'
<1>1. /\ steps' = << >> /\ cache' = << >> /\ lun' = 0 /\ loaded' = FALSE /\ store' = store /\ ufs' = ufs
      /\ setup' = setup
  BY DEF work, partVars, Fresh
<1>2. /\ Disk' = Disk /\ Parts' = Parts /\ Nand' = Nand /\ RowSet' = RowSet /\ UpTo(0)' = UpTo(0)
  BY <1>1, FixedDisk, FixedRows
<1>3. Fresh'
  BY <1>1, UntouchedKept DEF Fresh
<1>4. steps' \in Seq(Fit')
  <2> DEFINE G == Fit'
  <2> HIDE DEF G
  <2>1. steps' \in Seq(G)
    BY <1>1
  <2> QED
    BY <2>1 DEF G
<1>5. TableInv'
  <2>1. cache' \in Seq(RowSet')
    <3> DEFINE R == RowSet'
    <3> HIDE DEF R
    <3>1. cache' \in Seq(R)
      BY <1>1
    <3> QED
      BY <3>1 DEF R
  <2>2. 0 \in 0..Len(Disk') /\ 0 \in 0..Len(Disk)
    BY <1>2, DiskTyped
  <2>3. Covers(cache, 0)'
    BY <1>1, <1>2, CoversNone DEF Covers
  <2> QED
    BY <1>1, <2>1, <2>2, <2>3 DEF TableInv, Whence
<1>6. UfsInv'
  BY <1>1 DEF UfsInv, Fresh, Unused
<1>7. StoreInv'
  BY <1>1, <1>2 DEF StoreInv, Fresh, Untouched
<1> QED
  BY <1>3, <1>4, <1>5, <1>6, <1>7

\* When only the link moves on, the work stays as it is.
LEMMA LateHolds ==
    ASSUME setup \in Setups, steps \in Seq(Fit), TableInv, UfsInv, StoreInv,
           UNCHANGED << setup, listVars, work >>, ret # 0 => ret' # 0
    PROVE  steps' \in Seq(Fit') /\ TableInv' /\ UfsInv' /\ StoreInv'
<1>1. /\ steps' = steps /\ cache' = cache /\ lun' = lun /\ store' = store /\ ufs' = ufs /\ setup' = setup
      /\ queue' = queue /\ ufsdoc' = ufsdoc
  BY DEF work, partVars, listVars
<1>2. Fit \subseteq Fit' /\ \A part : Touchable(part) => Touchable(part)'
  BY <1>1, Grown
<1>3. steps' \in Seq(Fit')
  BY <1>1, <1>2, LessSteps
<1>4. TableInv'
  BY <1>1, TableKept
<1>5. UfsInv'
  <2>1. Flash' = Flash /\ Provisions' = Provisions
    BY <1>1, FixedDisk DEF Provisions
  <2>2. ASSUME NEW k, Ahead(k) PROVE Ahead(k)'
    BY <1>1, <2>2 DEF Ahead, Turn, Provision, Pass
  <2> QED
    BY <1>1, <2>1, <2>2 DEF UfsInv, Unused
<1>6. StoreInv'
  BY <1>1, <1>2, StoreKept
<1> QED
  BY <1>3, <1>4, <1>5, <1>6

\* Once they are loaded, the documents and the lists do not change, but for the
\* places that labels get.
LEMMA OnwardLists ==
    ASSUME ListsInv, TakenInv, FusingInv, VerifiedInv, setup' = setup, docs' = docs,
           pc \notin Loading \cup {"exit", "stuck"}, pc' \notin Loading
    PROVE  TakenInv' /\ FusingInv' /\ VerifiedInv'
<1>1. TakenInv' /\ FusingInv'
  BY DEF TakenInv, FusingInv, Loading
<1>2. VerifiedInv'
  <2>1. Flash => Verified
    BY DEF VerifiedInv
  <2>2. Flash' => Verified'
    BY <2>1, VerifiedKept, FixedDisk
  <2> QED
    BY <2>2 DEF VerifiedInv
<1> QED
  BY <1>1, <1>2

\* From the configuration on a command goes its way.
LEMMA OnwardPath ==
    ASSUME PathInv, setup' = setup, pc \in {"configure", "work", "close"},
           pc' \in {"work", "close", "exit", "stuck"}, pc = "close" => pc' = "exit"
    PROVE  PathInv'
<1>1. Cmd' = Cmd /\ Cmd # "diag2edl" /\ (Cmd = "ramdump" => pc = "close")
  BY FixedDisk DEF PathInv
<1> QED
  BY <1>1 DEF PathInv, Early, Loading

\* Start
LEMMA StartHolds ==
    ASSUME ChangeInv, Start
    PROVE  ChangeInv'
<1>1. /\ pc = "start" /\ UNCHANGED << setup, listVars, work >> /\ setup' = setup
      /\ pc' = "exit" \/ (pc' = "load" /\ Flash) \/ (~Flash /\ pc' = FirstPc)
  BY DEF Start, Goto, Fails
<1>2. Fresh /\ setup \in Setups
  BY <1>1 DEF ChangeInv, PathInv, Early, Loading
<1>3. Fresh' /\ steps' \in Seq(Fit') /\ TableInv' /\ UfsInv' /\ StoreInv' /\ Untouched'
  BY <1>1, <1>2, EarlyHolds DEF ChangeInv, Fresh
<1>4. ListsInv' /\ TakenInv' /\ Loaded' = Loaded
  BY <1>1, LoadingKept, ListsKept DEF ChangeInv, Loading
<1>5. FirstPc \in {"scan", "prepare"} /\ (Cmd = "diag2edl" => FirstPc = "scan")
  BY <1>2, DiskTyped DEF FirstPc, Usb, SetupFits, Cmd
<1>6. Flash' = Flash /\ Cmd' = Cmd
  BY <1>1, FixedDisk
<1>7. PathInv'
  BY <1>1, <1>3, <1>5, <1>6 DEF PathInv, Flash
<1>8. FusingInv'
  <2>1. LoadOrder' = LoadOrder /\ (SecdataPlain' <=> SecdataPlain) /\ docs' = docs
    BY <1>1, FixedLists, FixedSecdata DEF listVars
  <2>2. FusingInv /\ pc = "start"
    BY <1>1 DEF ChangeInv
  <2> QED
    BY <1>1, <1>4, <2>1, <2>2 DEF FusingInv, Harmless, Whole
<1>9. VerifiedInv'
  BY <1>1, <1>3, <1>6 DEF VerifiedInv, Loading
<1> QED
  BY <1>1, <1>2, <1>3, <1>4, <1>7, <1>8, <1>9 DEF ChangeInv

\* LoadDocument, CheckFusing, VerifyMd5 and Hang
LEMMA LoadKeeps ==
    ASSUME ChangeInv, Load
    PROVE  ChangeInv'
<1>1. UNCHANGED work /\ store' = store
  BY DEF Load, work, partVars
<1>2. /\ LoadDocument \/ CheckFusing \/ VerifyMd5(FirstPc) \/ Hang
      /\ pc \in {"load", "fusing"} /\ pc' \in {"load", "fusing", "exit", "stuck", FirstPc}
  BY DEF Load, LoadDocument, CheckFusing, VerifyMd5, Hang, Goto, Fails
<1>3. setup \in Setups /\ Fresh /\ Untouched /\ Flash
  BY <1>2 DEF ChangeInv, PathInv, Early, Loading, Fresh
<1>4. setup' = setup /\ ListsInv' /\ TakenInv' /\ FusingInv' /\ VerifiedInv'
  BY <1>1, <1>2, <1>3, LoadHolds DEF ChangeInv
<1>5. Fresh' /\ steps' \in Seq(Fit') /\ TableInv' /\ UfsInv' /\ StoreInv'
  BY <1>1, <1>3, <1>4, EarlyHolds DEF ChangeInv
<1>6. PathInv'
  BY <1>3, <1>4, <1>5, FixedDisk DEF PathInv, Flash
<1> QED
  BY <1>3, <1>4, <1>5, <1>6 DEF ChangeInv

\* The way to the programmer, and the modem that is plugged in.
LEMMA ReachHolds ==
    ASSUME ChangeInv, Reach \/ User
    PROVE  ChangeInv'
<1>1. /\ UNCHANGED << setup, listVars, work >> /\ setup' = setup /\ docs' = docs
      /\ pc \in {"scan", "prepare", "open", "sahara"}
      /\ pc' \in {"scan", "prepare", "open", "sahara", "configure", "close", "exit"}
  BY DEF Reach, User, Plug, ScanOther, ScanClaims, ScanCannotClaim, DiagSwitch, DiagToEdl, PcieWrite,
         PcieUploads, PcieFails, PrepareFailed, ComPrepare, PcieOpens, OpenFails, SaharaRuns,
         AfterSahara, SaharaFails, Goto, Fails, Echoed, qdlVars, linkConst, listVars
<1>2. Cmd = "diag2edl" => pc' \in {"scan", "exit"}
  <2>1. Cmd = "diag2edl" => pc = "scan"
    BY <1>1 DEF ChangeInv, PathInv
  <2> QED
    BY <2>1 DEF Reach, User, Plug, DiagToEdl, PcieWrite, PcieUploads, PcieFails, ComPrepare,
           PcieOpens, OpenFails, SaharaRuns, SaharaFails, Goto, Fails, Echoed, qdlVars
<1>3. Cmd = "ramdump" => pc' # "configure"
  <2>1. Cmd = "ramdump" => ~Mhi
    BY DiskTyped DEF ChangeInv, SetupFits, Mhi, Cmd
  <2> QED
    BY <2>1, <1>1 DEF Reach, User, Plug, ScanOther, ScanClaims, ScanCannotClaim, DiagSwitch, DiagToEdl,
         PcieWrite, PcieUploads, PcieFails, PrepareFailed, ComPrepare, PcieOpens, OpenFails, SaharaRuns,
         AfterSahara, SaharaFails, Goto, Fails, Echoed, qdlVars
<1>4. setup \in Setups /\ Fresh
  BY <1>1 DEF ChangeInv, PathInv, Early
<1>5. Fresh' /\ steps' \in Seq(Fit') /\ TableInv' /\ UfsInv' /\ StoreInv'
  BY <1>1, <1>4, EarlyHolds DEF ChangeInv
<1>6. ListsInv'
  BY <1>1, ListsKept DEF ChangeInv
<1>7. TakenInv' /\ FusingInv' /\ VerifiedInv'
  BY <1>1, OnwardLists DEF ChangeInv, Loading
<1>8. PathInv'
  BY <1>1, <1>2, <1>3, <1>5, FixedDisk DEF PathInv
<1> QED
  BY <1>1, <1>4, <1>5, <1>6, <1>7, <1>8 DEF ChangeInv

\* Worked, Close, and a command that is over
LEMMA EndsHold ==
    ASSUME ChangeInv, Worked \/ Close \/ (Over /\ UNCHANGED vars)
    PROVE  ChangeInv'
<1>1. /\ UNCHANGED << setup, listVars, work >> /\ setup' = setup /\ docs' = docs
      /\ ret # 0 => ret' # 0
  BY DEF Worked, Close, Goto, vars, qdlVars, listVars, partVars, work
<1>2. steps' \in Seq(Fit') /\ TableInv' /\ UfsInv' /\ StoreInv' /\ setup \in Setups
  BY <1>1, LateHolds DEF ChangeInv
<1>3. ListsInv' /\ Loaded' = Loaded
  BY <1>1, ListsKept DEF ChangeInv
<1>4. CASE Worked \/ Close
  <2>1. /\ pc \in {"work", "close"} /\ pc' \in {"close", "exit"} /\ (pc = "close" => pc' = "exit")
    BY <1>4 DEF Worked, Close, Goto
  <2>2. TakenInv' /\ FusingInv' /\ VerifiedInv'
    BY <1>1, <2>1, OnwardLists DEF ChangeInv, Loading
  <2>3. PathInv'
    BY <1>1, <2>1, OnwardPath DEF ChangeInv
  <2> QED
    BY <1>1, <1>2, <1>3, <2>2, <2>3 DEF ChangeInv
<1>5. CASE Over /\ UNCHANGED vars
  <2>1. pc' = pc /\ pc \in {"exit", "stuck"} /\ store' = store
    BY <1>5 DEF Over, vars, qdlVars, partVars
  <2>2. TakenInv' /\ FusingInv'
    BY <2>1 DEF TakenInv, FusingInv, Loading
  <2>3. VerifiedInv'
    <3>1. Flash => Verified \/ Untouched
      BY <2>1 DEF ChangeInv, VerifiedInv, Loading
    <3>2. Flash' => Verified' \/ Untouched'
      BY <1>1, <2>1, <3>1, VerifiedKept, UntouchedKept, FixedDisk
    <3> QED
      BY <2>1, <3>2 DEF VerifiedInv
  <2>4. PathInv'
    BY <1>1, <2>1, FixedDisk DEF ChangeInv, PathInv, Early, Loading
  <2> QED
    BY <1>1, <1>2, <1>3, <2>2, <2>3, <2>4 DEF ChangeInv
<1> QED
  BY <1>4, <1>5
-----------------------------------------------------------------------------
(* The steps that are not taken on the partitions.                         *)

\* The halves of a sequence.
LEMMA Halves ==
    ASSUME NEW S, NEW a \in Seq(S), NEW b \in Seq(S), NEW N \in Nat \ {0}, Len(a) = N, Len(b) = N,
           NEW k \in 1..(2 * N)
    PROVE  /\ Len(a \o b) = 2 * N
           /\ k <= N => k \in 1..N /\ (a \o b)[k] = a[k]
           /\ ~(k <= N) => k - N \in 1..N /\ (a \o b)[k] = b[k - N]
<1>1. Len(a \o b) = 2 * N
  BY ConcatProperties
<1>2. k <= N => k \in 1..N /\ (a \o b)[k] = a[k]
  BY ConcatProperties
<1>3. ~(k <= N) => k - N \in 1..N /\ (a \o b)[k] = b[k - N]
  BY ConcatProperties
<1> QED
  BY <1>1, <1>2, <1>3

\* Both passes are the tags of the document in their order.
LEMMA ProvisionIs ==
    ASSUME ListsInv, Flash, Provisions, NEW k \in 1..(2 * Len(ufsdoc))
    PROVE  /\ Len(ufsdoc) \in Nat \ {0} /\ Turn(k) \in 1..Len(ufsdoc)
           /\ Len(Provision) = 2 * Len(ufsdoc)
           /\ Provision[k].label = ufsdoc[Turn(k)] /\ Provision[k].fails = "stop"
           /\ Provision[k].do = (IF k <= Len(ufsdoc) THEN "check ufs" ELSE "commit ufs")
<1> DEFINE a == Pass("check ufs")
           b == Pass("commit ufs")
<1>1. /\ a \in Seq(Fit) /\ b \in Seq(Fit) /\ Len(a) = Len(ufsdoc) /\ Len(b) = Len(ufsdoc)
      /\ Len(ufsdoc) \in Nat \ {0}
  BY PassFits DEF UfsSteps
<1>2. \A n \in 1..Len(ufsdoc) : a[n] = StepFor("check ufs", ufsdoc[n], << >>, "stop")
  BY DEF Pass
<1>3. \A n \in 1..Len(ufsdoc) : b[n] = StepFor("commit ufs", ufsdoc[n], << >>, "stop")
  BY DEF Pass
<1>4. Provision = a \o b
  BY DEF Provision
<1> HIDE DEF a, b
<1>5. /\ Len(a \o b) = 2 * Len(ufsdoc)
      /\ k <= Len(ufsdoc) => k \in 1..Len(ufsdoc) /\ (a \o b)[k] = a[k]
      /\ ~(k <= Len(ufsdoc)) => k - Len(ufsdoc) \in 1..Len(ufsdoc) /\ (a \o b)[k] = b[k - Len(ufsdoc)]
  <2> DEFINE F == Fit
  <2> HIDE DEF F
  <2>1. a \in Seq(F) /\ b \in Seq(F)
    BY <1>1 DEF F
  <2>2. PICK N \in Nat \ {0} : N = Len(ufsdoc)
    BY <1>1
  <2>3. k \in 1..(2 * N) /\ Len(a) = N /\ Len(b) = N
    BY <1>1, <2>2
  <2>4. /\ Len(a \o b) = 2 * N
        /\ k <= N => k \in 1..N /\ (a \o b)[k] = a[k]
        /\ ~(k <= N) => k - N \in 1..N /\ (a \o b)[k] = b[k - N]
    BY <2>1, <2>3, Halves
  <2> QED
    BY <2>2, <2>4
<1>9. Len(Provision) = 2 * Len(ufsdoc)
  BY <1>4, <1>5
<1>6. Turn(k) \in 1..Len(ufsdoc)
  BY <1>5 DEF Turn
<1>7. CASE k <= Len(ufsdoc)
  <2>1. Provision[k] = StepFor("check ufs", ufsdoc[Turn(k)], << >>, "stop")
    BY <1>2, <1>4, <1>5, <1>7 DEF Turn
  <2>2. PICK s : s = Provision[k]
    OBVIOUS
  <2>3. s = StepFor("check ufs", ufsdoc[Turn(k)], << >>, "stop")
    BY <2>1, <2>2
  <2>4. s.label = ufsdoc[Turn(k)] /\ s.fails = "stop" /\ s.do = "check ufs"
    BY <2>3 DEF StepFor
  <2> QED
    BY <1>1, <1>6, <1>7, <1>9, <2>2, <2>4
<1>8. CASE ~(k <= Len(ufsdoc))
  <2>1. Provision[k] = StepFor("commit ufs", ufsdoc[Turn(k)], << >>, "stop")
    BY <1>3, <1>4, <1>5, <1>8 DEF Turn
  <2>2. PICK s : s = Provision[k]
    OBVIOUS
  <2>3. s = StepFor("commit ufs", ufsdoc[Turn(k)], << >>, "stop")
    BY <2>1, <2>2
  <2>4. s.label = ufsdoc[Turn(k)] /\ s.fails = "stop" /\ s.do = "commit ufs"
    BY <2>3 DEF StepFor
  <2> QED
    BY <1>1, <1>6, <1>8, <1>9, <2>2, <2>4
<1> QED
  BY <1>7, <1>8

\* The next step of a provisioning is the one that its place says.
LEMMA NextUfs ==
    ASSUME ListsInv, Flash, Provisions, steps \in Seq(Fit), NEW k \in 1..(2 * Len(ufsdoc)), Ahead(k)
    PROVE  /\ Do = Provision[k] /\ steps # << >> /\ Len(steps) = 2 * Len(ufsdoc) + 1 - k
           /\ Tail(steps) \in Seq(Fit) /\ Len(Tail(steps)) = 2 * Len(ufsdoc) - k
           /\ \A n \in 1..Len(Tail(steps)) : Tail(steps)[n] = Provision[k + n]
<1>1. Len(steps) = 2 * Len(ufsdoc) + 1 - k /\ \A n \in 1..Len(steps) : steps[n] = Provision[k + n - 1]
  BY DEF Ahead
<1>2. Len(ufsdoc) \in Nat
  BY ProvisionIs
<1>3. Len(steps) \in 1..(2 * Len(ufsdoc))
  BY <1>1, <1>2
<1> DEFINE F == Fit
<1> HIDE DEF F
<1>4. steps \in Seq(F)
  BY DEF F
<1>5. steps # << >> /\ Head(steps) = steps[1]
  BY <1>3, <1>4
<1>6. /\ Tail(steps) \in Seq(F) /\ Len(Tail(steps)) = Len(steps) - 1
      /\ \A n \in 1..Len(Tail(steps)) : n + 1 \in 1..Len(steps) /\ Tail(steps)[n] = steps[n + 1]
  BY <1>3, <1>4, <1>5
<1>7. Do = Provision[k]
  <2>1. 1 \in 1..Len(steps) /\ k + 1 - 1 = k
    BY <1>3, <1>2
  <2> QED
    BY <1>1, <1>5, <2>1 DEF Do
<1>8. ASSUME NEW n \in 1..Len(Tail(steps)) PROVE Tail(steps)[n] = Provision[k + n]
  <2>1. n + 1 \in 1..Len(steps) /\ Tail(steps)[n] = steps[n + 1]
    BY <1>6
  <2>2. k + (n + 1) - 1 = k + n
    BY <1>3, <1>6, <1>2
  <2>3. steps[n + 1] = Provision[k + (n + 1) - 1]
    BY <1>1, <2>1
  <2> QED
    BY <2>1, <2>2, <2>3
<1>9. Len(Tail(steps)) = 2 * Len(ufsdoc) - k
  BY <1>1, <1>2, <1>6
<1> QED
  BY <1>1, <1>5, <1>6, <1>7, <1>8, <1>9 DEF F

\* While the storage is provisioned there are no other steps.
LEMMA UfsUntouched ==
    ASSUME setup \in Setups, ListsInv, UfsInv, steps \in Seq(Fit), steps # << >>, Do.do \notin UfsSteps
    PROVE  ~(Flash /\ Provisions) /\ Unused
<1> SUFFICES ASSUME Flash, Provisions PROVE FALSE
  BY DEF UfsInv
<1>1. PICK k \in 1..(2 * Len(ufsdoc)) : Ahead(k)
  BY DEF UfsInv
<1>2. Provision[k].do = (IF k <= Len(ufsdoc) THEN "check ufs" ELSE "commit ufs")
  BY ProvisionIs
<1>3. Do = Provision[k]
  BY <1>1, NextUfs
<1> QED
  BY <1>2, <1>3 DEF UfsSteps

\* A step that is no provisioning, whatever it does to the boot LUN.
LEMMA UfsKept ==
    ASSUME setup \in Setups, ListsInv, UfsInv, steps \in Seq(Fit), steps # << >>, Do.do \notin UfsSteps,
           setup' = setup, ufsdoc' = ufsdoc,
           ufs' = ufs \/ \E l : ufs' = [ufs EXCEPT !.boot = l]
    PROVE  UfsInv'
<1>1. ~(Flash /\ Provisions) /\ Unused
  BY UfsUntouched
<1>2. ~(Flash' /\ Provisions')
  BY <1>1, FixedDisk DEF Provisions
<1>3. Unused' /\ DOMAIN ufs' = {"staged", "checked", "applied", "boot"}
  BY <1>1 DEF Unused, UfsInv
<1> QED
  BY <1>2, <1>3 DEF UfsInv

\* What the steps of a session leave as it is.
LEMMA WorkKeeps ==
    ASSUME ChangeInv, setup' = setup, UNCHANGED listVars, pc = "work",
           pc' \in {"work", "close", "exit", "stuck"}
    PROVE  PathInv' /\ ListsInv' /\ TakenInv' /\ FusingInv' /\ VerifiedInv'
<1>1. ListsInv' /\ docs' = docs
  BY ListsKept DEF ChangeInv, listVars
<1>2. TakenInv' /\ FusingInv' /\ VerifiedInv'
  BY <1>1, OnwardLists DEF ChangeInv, Loading
<1>3. PathInv'
  BY OnwardPath DEF ChangeInv
<1> QED
  BY <1>1, <1>2, <1>3

\* The steps on the partitions
LEMMA PartitionsHold ==
    ASSUME ChangeInv, Work
    PROVE  ChangeInv'
<1>1. PartitionStep /\ UNCHANGED listVars /\ ufs' = ufs /\ ufsdoc' = ufsdoc
  BY DEF Work, listVars
<1>2. Same /\ steps' \in Seq(Fit') /\ TableInv' /\ StoreInv'
  BY <1>1, WorkHolds DEF ChangeInv
<1>3. UfsInv'
  BY <1>1, <1>2, UfsKept DEF ChangeInv, Same
<1>4. PathInv' /\ ListsInv' /\ TakenInv' /\ FusingInv' /\ VerifiedInv'
  BY <1>1, <1>2, WorkKeeps DEF Same
<1> QED
  BY <1>2, <1>3, <1>4 DEF ChangeInv, Same

\* SetBootable, LunInfo and PlanOps: a step is done, or fails, or is followed
\* by those it stands for.
LEMMA OneStepHolds ==
    ASSUME ChangeInv, SetBootable \/ LunInfo \/ PlanOps
    PROVE  ChangeInv'
<1>1. /\ setup' = setup /\ UNCHANGED listVars /\ cache' = cache /\ store' = store /\ ufsdoc' = ufsdoc
      /\ queue' = queue
      /\ pc = "work" /\ steps # << >> /\ Do.do \in {"bootable", "lun", "plan"}
      /\ setup \in Setups /\ steps \in Seq(Fit)
      /\ ufs' = ufs \/ \E l : ufs' = [ufs EXCEPT !.boot = l]
  BY DEF SetBootable, LunInfo, PlanOps, Busy, dataVars, listVars, ChangeInv
<1>2. Do.do \notin UfsSteps
  BY <1>1 DEF UfsSteps
<1>3. /\ lun' = 0 \/ (lun' = lun /\ steps' = steps)
      /\ pc' \in {"work", "stuck"}
      /\ ret # 0 => ret' # 0
      /\ \/ steps' = steps \/ steps' = Tail(steps) \/ steps' = << >>
         \/ Do.do = "lun" /\ Do.part \in Parts /\ steps' = << Step("read", Do.part, "skip") >> \o Tail(steps)
         \/ Do.do = "plan" /\ steps' = Planned \o Tail(steps)
  <2>1. CASE Succeeds \/ Misses(FALSE)
    BY <1>1, <1>2, <2>1, Ends DEF Same, Succeeds, Misses, Goto
  <2>2. CASE ~Succeeds /\ ~Misses(FALSE)
    BY <1>1, <2>2 DEF SetBootable, LunInfo, PlanOps, Busy, Advance, Goto
  <2> QED
    BY <2>1, <2>2
<1>4. Fit \subseteq Fit' /\ \A part : Touchable(part) => Touchable(part)'
  BY <1>1, <1>3, Grown
<1>5. ASSUME NEW more \in Seq(Fit), steps' = more \o Tail(steps)
      PROVE  steps' \in Seq(Fit')
  <2>1. more \in Seq(Fit')
    <3> DEFINE F == Fit
               G == Fit'
    <3>1. F \subseteq G /\ more \in Seq(F)
      BY <1>4
    <3> HIDE DEF F, G
    <3>2. more \in Seq(G)
      BY <3>1, ElementsIn, ElementOfSeq
    <3> QED
      BY <3>2 DEF G
  <2> QED
    BY <1>1, <1>4, <1>5, <2>1, MoreSteps
<1>6. steps' \in Seq(Fit')
  <2>1. CASE steps' = steps \/ steps' = Tail(steps) \/ steps' = << >>
    BY <1>1, <1>4, <2>1, LessSteps
  <2>2. CASE Do.do = "lun" /\ Do.part \in Parts /\ steps' = << Step("read", Do.part, "skip") >> \o Tail(steps)
    <3>1. Do.part \in Seq(Nat)
      BY <1>1, <2>2, PartsAre
    <3>2. Step("read", Do.part, "skip") \in Fit
      BY <3>1, WorkFits
    <3>3. << Step("read", Do.part, "skip") >> \in Seq(Fit)
      BY <3>2, ShortLists
    <3> QED
      BY <1>5, <2>2, <3>3
  <2>3. CASE Do.do = "plan" /\ steps' = Planned \o Tail(steps)
    <3>1. Flash
      BY <1>1, <2>3, StepOn DEF Allowed
    <3>2. Planned \in Seq(Fit)
      BY <3>1, PlannedFits DEF ChangeInv
    <3> QED
      BY <1>5, <2>3, <3>2
  <2> QED
    BY <1>3, <2>1, <2>2, <2>3
<1>7. TableInv'
  BY <1>1, <1>3, TableKept DEF ChangeInv
<1>8. StoreInv'
  BY <1>1, <1>4, StoreKept DEF ChangeInv
<1>9. UfsInv'
  BY <1>1, <1>2, UfsKept DEF ChangeInv
<1>10. PathInv' /\ ListsInv' /\ TakenInv' /\ FusingInv' /\ VerifiedInv'
  BY <1>1, <1>3, WorkKeeps
<1> QED
  BY <1>1, <1>6, <1>7, <1>8, <1>9, <1>10 DEF ChangeInv

\* firehose_detect_and_configure(), after which the command knows its steps
LEMMA ConfigureHolds ==
    ASSUME ChangeInv, Configure
    PROVE  ChangeInv'
<1>1. /\ setup' = setup /\ UNCHANGED listVars /\ docs' = docs /\ queue' = queue /\ ufsdoc' = ufsdoc
      /\ cache' = cache /\ lun' = lun /\ store' = store /\ ufs' = ufs
      /\ pc = "configure" /\ setup \in Setups /\ Fresh /\ ListsInv /\ UfsInv
      /\ \/ pc' = "work" /\ ret' = ret /\ steps' = Script
         \/ pc' = "exit" /\ ret' = -1 /\ steps' = steps
  BY DEF Configure, Goto, Fails, tableVars, dataVars, listVars, ChangeInv, PathInv, Early
<1>2. Cmd \notin {"ramdump", "diag2edl"}
  BY <1>1 DEF ChangeInv, PathInv
<1>3. Fit \subseteq Fit' /\ \A part : Touchable(part) => Touchable(part)'
  BY <1>1, Grown
<1>4. steps' \in Seq(Fit')
  <2>1. CASE steps' = Script
    <3> DEFINE F == Fit
               G == Fit'
    <3>1. F \subseteq G /\ Script \in Seq(F)
      BY <1>1, <1>2, <1>3, ScriptFits
    <3> HIDE DEF F, G
    <3>2. Script \in Seq(G)
      BY <3>1, ElementsIn, ElementOfSeq
    <3> QED
      BY <2>1, <3>2 DEF G
  <2>2. CASE steps' = steps
    BY <1>3, <2>2, LessSteps DEF ChangeInv
  <2> QED
    BY <1>1, <2>1, <2>2
<1>5. TableInv'
  <2>1. /\ Disk' = Disk /\ Nand' = Nand /\ RowSet' = RowSet /\ UpTo(0)' = UpTo(0) /\ Meddles' = Meddles
    BY <1>1, FixedDisk, FixedRows
  <2>2. cache' = << >> /\ lun' = 0 /\ 0 \in 0..Len(Disk') /\ cache' \in Seq(RowSet')
    <3>1. cache \in Seq(RowSet) /\ cache = << >> /\ lun = 0
      BY <1>1 DEF ChangeInv, TableInv, Fresh
    <3> QED
      BY <1>1, <2>1, <3>1, DiskTyped
  <2>3. Covers(cache, 0)'
    BY <1>1, <2>1, <2>2, CoversNone DEF Covers
  <2> QED
    BY <2>2, <2>3 DEF TableInv, Whence
<1>6. StoreInv'
  BY <1>1, <1>3, StoreKept DEF ChangeInv
<1>7. UfsInv'
  <2>1. Flash' = Flash /\ Provisions' = Provisions /\ Unused' /\ DOMAIN ufs' = DOMAIN ufs
    BY <1>1, FixedDisk DEF Provisions, Unused, Fresh
  <2>2. CASE ~(Flash /\ Provisions)
    BY <1>1, <2>1, <2>2 DEF UfsInv
  <2>3. CASE steps' = steps
    BY <1>1, <2>1, <2>3 DEF UfsInv, Unused, Fresh
  <2>4. CASE Flash /\ Provisions /\ steps' = Script
    <3>1. steps' = Provision /\ Provision' = Provision
      BY <1>1, <2>4 DEF Script, Flash, FlashSteps, Provision, Pass
    <3>2. Len(ufsdoc) \in Nat \ {0}
      BY <1>1, <2>4, PassFits DEF UfsSteps
    <3>3. 1 \in 1..(2 * Len(ufsdoc)) /\ 1 <= Len(ufsdoc)
      BY <3>2
    <3>4. Len(Provision) = 2 * Len(ufsdoc)
      BY <1>1, <2>4, <3>3, ProvisionIs
    <3>5. SubSeq(ufsdoc, 1, 0) = << >>
      <4>1. ufsdoc \in Seq({"common", "body", "epilogue"})
        BY <1>1, <2>4 DEF ListsInv, UfsShape, Provisions
      <4> QED
        BY <4>1
    <3>6. PICK k : k = 1
      OBVIOUS
    <3>7. Ahead(k)'
      <4>1. Len(steps') = 2 * Len(ufsdoc') + 1 - k
        BY <1>1, <3>1, <3>2, <3>4, <3>6
      <4>2. \A n \in 1..Len(steps') : steps'[n] = Provision'[k + n - 1]
        <5>1. \A n \in 1..Len(steps') : k + n - 1 = n
          BY <3>6, <4>1, <1>1, <3>2
        <5> QED
          BY <3>1, <5>1
      <4>3. Turn(k)' - 1 = 0
        BY <1>1, <3>3, <3>6 DEF Turn
      <4> QED
        BY <1>1, <2>1, <3>3, <3>5, <3>6, <4>1, <4>2, <4>3 DEF Ahead, Unused
    <3> QED
      BY <1>1, <2>1, <3>3, <3>6, <3>7 DEF UfsInv
  <2> QED
    BY <1>1, <2>2, <2>3, <2>4
<1>8. ListsInv'
  BY <1>1, ListsKept
<1>9. TakenInv' /\ FusingInv' /\ VerifiedInv'
  BY <1>1, OnwardLists DEF ChangeInv, Loading
<1>10. PathInv'
  BY <1>1, OnwardPath DEF ChangeInv
<1> QED
  BY <1>1, <1>4, <1>5, <1>6, <1>7, <1>8, <1>9, <1>10 DEF ChangeInv

\* From one step of the passes to the next.
LEMMA TurnOn ==
    ASSUME NEW N \in Nat \ {0}, NEW k \in 1..(2 * N), NEW T, T = (IF k <= N THEN k ELSE k - N)
    PROVE  /\ T \in 1..N
           /\ k = 2 * N => T = N /\ ~(k <= N)
           /\ k # 2 * N => /\ k + 1 \in 1..(2 * N)
                           /\ (IF k + 1 <= N THEN k + 1 ELSE k + 1 - N) - 1 = (IF T = N THEN 0 ELSE T)
                           /\ T = N => k <= N /\ ~(k + 1 <= N)
                           /\ T # N => (k + 1 <= N <=> k <= N)
<1>1. CASE k <= N
  BY <1>1
<1>2. CASE ~(k <= N)
  BY <1>2
<1> QED
  BY <1>1, <1>2

\* The beginnings of a sequence.
LEMMA Beginnings ==
    ASSUME NEW S, NEW s \in Seq(S), NEW T \in 1..Len(s)
    PROVE  /\ Append(SubSeq(s, 1, T - 1), s[T]) = SubSeq(s, 1, T)
           /\ SubSeq(s, 1, Len(s)) = s /\ SubSeq(s, 1, 0) = << >>
<1>1. SubSeq(s, 1, T) \in Seq(S) /\ SubSeq(s, 1, T - 1) \in Seq(S) /\ s[T] \in S
  BY SubSeqProperties, ElementOfSeq
<1>2. /\ Len(SubSeq(s, 1, T)) = T /\ Len(SubSeq(s, 1, T - 1)) = T - 1
      /\ \A i \in 1..T : SubSeq(s, 1, T)[i] = s[i]
      /\ \A i \in 1..(T - 1) : SubSeq(s, 1, T - 1)[i] = s[i]
  BY SubSeqProperties
<1>3. /\ Append(SubSeq(s, 1, T - 1), s[T]) \in Seq(S)
      /\ Len(Append(SubSeq(s, 1, T - 1), s[T])) = T
      /\ \A i \in 1..T : Append(SubSeq(s, 1, T - 1), s[T])[i] = s[i]
  BY <1>1, <1>2, AppendProperties
<1>4. Append(SubSeq(s, 1, T - 1), s[T]) = SubSeq(s, 1, T)
  <2>1. \A i \in 1..T : Append(SubSeq(s, 1, T - 1), s[T])[i] = SubSeq(s, 1, T)[i]
    BY <1>2, <1>3
  <2> QED
    BY <1>1, <1>2, <1>3, <2>1, SeqEqual
<1>5. SubSeq(s, 1, Len(s)) = s
  <2>1. SubSeq(s, 1, Len(s)) \in Seq(S) /\ Len(SubSeq(s, 1, Len(s))) = Len(s)
    BY SubSeqProperties
  <2>2. \A i \in 1..Len(s) : SubSeq(s, 1, Len(s))[i] = s[i]
    BY SubSeqProperties
  <2> QED
    BY <2>1, <2>2, SeqEqual
<1> QED
  BY <1>4, <1>5

\* What firehose_apply_ufs_epilogue() makes of the tags that are staged.
LEMMA Kept ==
    ASSUME NEW u, DOMAIN u = {"staged", "checked", "applied", "boot"}, NEW staged, NEW ends, NEW commit,
           NEW v, v = IF ~ends THEN [u EXCEPT !.staged = staged]
                      ELSE IF commit THEN [u EXCEPT !.staged = << >>, !.applied = staged]
                      ELSE [u EXCEPT !.staged = << >>, !.checked = staged]
    PROVE  /\ DOMAIN v = {"staged", "checked", "applied", "boot"}
           /\ ~ends => v.staged = staged /\ v.applied = u.applied /\ v.checked = u.checked
           /\ ends => v.staged = << >>
           /\ ends /\ commit => v.applied = staged /\ v.checked = u.checked
           /\ ends /\ ~commit => v.applied = u.applied /\ v.checked = staged
<1>1. CASE ~ends
  BY <1>1
<1>2. CASE ends /\ commit
  BY <1>2
<1>3. CASE ends /\ ~commit
  BY <1>3
<1> QED
  BY <1>1, <1>2, <1>3

\* A tag of the provisioning is sent: the epilogue ends a pass.
UfsEnd(staged) ==
    ufs' = IF ~(Do.label = "epilogue") THEN [ufs EXCEPT !.staged = staged]
           ELSE IF Do.do = "commit ufs" THEN [ufs EXCEPT !.staged = << >>, !.applied = staged]
           ELSE [ufs EXCEPT !.staged = << >>, !.checked = staged]

\* A tag of the provisioning is sent, and the next is in its place.
LEMMA UfsSent ==
    ASSUME ListsInv, Flash, Provisions, steps \in Seq(Fit), UfsInv, setup' = setup, ufsdoc' = ufsdoc,
           NEW k, k \in 1..(2 * Len(ufsdoc)), Ahead(k), steps' = Tail(steps),
           NEW staged, staged = Append(ufs.staged, Do.label), UfsEnd(staged)
    PROVE  UfsInv'
<1>1. /\ Do = Provision[k] /\ Len(steps') = 2 * Len(ufsdoc) - k
      /\ \A n \in 1..Len(steps') : steps'[n] = Provision[k + n]
  BY NextUfs
<1>2. Len(ufsdoc) \in Nat \ {0} /\ Do.label = ufsdoc[Turn(k)] /\ Turn(k) \in 1..Len(ufsdoc)
      /\ Do.do = (IF k <= Len(ufsdoc) THEN "check ufs" ELSE "commit ufs")
  BY <1>1, ProvisionIs
<1>3. PICK N \in Nat \ {0} : N = Len(ufsdoc)
  BY <1>2
<1>4. PICK T : T = Turn(k)
  OBVIOUS
<1>5. k \in 1..(2 * N) /\ T = (IF k <= N THEN k ELSE k - N) /\ Do.label = ufsdoc[T] /\ T \in 1..N
  BY <1>2, <1>3, <1>4 DEF Turn
<1>6. /\ ufsdoc \in Seq({"common", "body", "epilogue"})
      /\ ufsdoc[T] = "epilogue" <=> T = N
  BY <1>3, <1>5 DEF ListsInv, UfsShape, Provisions
<1>7. /\ ufs.staged = SubSeq(ufsdoc, 1, T - 1) /\ ufs.applied = << >>
      /\ ufs.checked = (IF k <= N THEN << >> ELSE ufsdoc)
      /\ DOMAIN ufs = {"staged", "checked", "applied", "boot"}
  BY <1>3, <1>4 DEF Ahead, UfsInv
<1>8. /\ SubSeq(ufsdoc, 1, T) = staged /\ (T = N => staged = ufsdoc) /\ SubSeq(ufsdoc, 1, 0) = << >>
  <2>1. staged = Append(SubSeq(ufsdoc, 1, T - 1), ufsdoc[T])
    BY <1>5, <1>7
  <2>2. ufsdoc \in Seq({"common", "body", "epilogue"}) /\ T \in 1..Len(ufsdoc)
    BY <1>3, <1>5, <1>6
  <2>3. /\ Append(SubSeq(ufsdoc, 1, T - 1), ufsdoc[T]) = SubSeq(ufsdoc, 1, T)
        /\ SubSeq(ufsdoc, 1, Len(ufsdoc)) = ufsdoc /\ SubSeq(ufsdoc, 1, 0) = << >>
    BY <2>2, Beginnings
  <2> QED
    BY <1>3, <2>1, <2>3
<1>9. Do.do = "commit ufs" <=> ~(k <= N)
  BY <1>2, <1>3
<1>10. /\ DOMAIN ufs' = {"staged", "checked", "applied", "boot"}
       /\ T # N => ufs'.staged = staged /\ ufs'.applied = << >> /\ ufs'.checked = ufs.checked
       /\ T = N => ufs'.staged = << >>
       /\ T = N /\ ~(k <= N) => ufs'.applied = ufsdoc /\ ufs'.checked = ufsdoc
       /\ T = N /\ k <= N => ufs'.applied = << >> /\ ufs'.checked = ufsdoc
  <2> DEFINE v == ufs'
             ends == Do.label = "epilogue"
             commit == Do.do = "commit ufs"
  <2>1. v = IF ~ends THEN [ufs EXCEPT !.staged = staged]
            ELSE IF commit THEN [ufs EXCEPT !.staged = << >>, !.applied = staged]
            ELSE [ufs EXCEPT !.staged = << >>, !.checked = staged]
    BY DEF UfsEnd
  <2>2. (ends <=> T = N) /\ (commit <=> ~(k <= N))
    BY <1>5, <1>6, <1>9
  <2> HIDE DEF v, ends, commit
  <2>3. /\ DOMAIN v = {"staged", "checked", "applied", "boot"}
        /\ ~ends => v.staged = staged /\ v.applied = ufs.applied /\ v.checked = ufs.checked
        /\ ends => v.staged = << >>
        /\ ends /\ commit => v.applied = staged /\ v.checked = ufs.checked
        /\ ends /\ ~commit => v.applied = ufs.applied /\ v.checked = staged
    BY <1>7, <2>1, Kept
  <2>4. /\ DOMAIN v = {"staged", "checked", "applied", "boot"}
        /\ T # N => v.staged = staged /\ v.applied = << >> /\ v.checked = ufs.checked
        /\ T = N => v.staged = << >>
        /\ T = N /\ ~(k <= N) => v.applied = ufsdoc /\ v.checked = ufsdoc
        /\ T = N /\ k <= N => v.applied = << >> /\ v.checked = ufsdoc
    BY <1>7, <1>8, <2>2, <2>3
  <2> QED
    BY <2>4 DEF v
<1>11. Flash' /\ Provisions' /\ Provision' = Provision
  BY FixedDisk DEF Provisions, Provision, Pass
<1>12. /\ T \in 1..N
       /\ k = 2 * N => T = N /\ ~(k <= N)
       /\ k # 2 * N => /\ k + 1 \in 1..(2 * N)
                       /\ (IF k + 1 <= N THEN k + 1 ELSE k + 1 - N) - 1 = (IF T = N THEN 0 ELSE T)
                       /\ T = N => k <= N /\ ~(k + 1 <= N)
                       /\ T # N => (k + 1 <= N <=> k <= N)
  BY <1>5, TurnOn
<1>13. CASE k = 2 * N
  <2>1. ufs'.applied = ufsdoc /\ ufs'.checked = ufsdoc
    BY <1>10, <1>12, <1>13
  <2>2. steps' = << >>
    <3> DEFINE F == Fit
               t == steps'
    <3>1. t \in Seq(F) /\ Len(t) = 2 * Len(ufsdoc) - k
      BY <1>1, NextUfs
    <3> HIDE DEF F, t
    <3>2. Len(t) = 0
      BY <1>3, <1>13, <3>1
    <3>3. t = << >>
      BY <3>1, <3>2
    <3> QED
      BY <3>3 DEF t
  <2> QED
    BY <1>10, <1>11, <2>1, <2>2 DEF UfsInv
<1>14. CASE k # 2 * N
  <2>1. PICK m : m = k + 1
    OBVIOUS
  <2>2. m \in 1..(2 * N)
    BY <1>12, <1>14, <2>1
  <2>3. Turn(m)' - 1 = (IF T = N THEN 0 ELSE T)
    BY <1>3, <1>12, <1>14, <2>1 DEF Turn
  <2>4. Len(steps') = 2 * Len(ufsdoc') + 1 - m
    <3>1. 2 * N - k = 2 * N + 1 - m
      BY <1>5, <2>1
    <3> QED
      BY <1>1, <1>3, <3>1
  <2>5. ASSUME NEW n \in 1..Len(steps') PROVE steps'[n] = Provision'[m + n - 1]
    <3>1. m + n - 1 = k + n
      BY <1>5, <2>1
    <3> QED
      BY <1>1, <1>11, <3>1
  <2>6. ufs'.staged = SubSeq(ufsdoc', 1, Turn(m)' - 1)
    BY <1>8, <1>10, <2>3
  <2>7. ufs'.applied = << >> /\ ufs'.checked = (IF m <= Len(ufsdoc') THEN << >> ELSE ufsdoc')
    BY <1>3, <1>7, <1>10, <1>12, <1>14, <2>1
  <2>8. Ahead(m)'
    BY <2>4, <2>5, <2>6, <2>7 DEF Ahead
  <2>9. m \in 1..(2 * Len(ufsdoc'))
    BY <1>3, <2>2
  <2> QED
    BY <1>10, <1>11, <2>8, <2>9 DEF UfsInv
<1> QED
  BY <1>13, <1>14

\* firehose_apply_ufs_common(), _body() and _epilogue()
LEMMA SendUfsHolds ==
    ASSUME ChangeInv, SendUfs
    PROVE  ChangeInv'
<1>1. /\ setup' = setup /\ UNCHANGED listVars /\ queue' = queue /\ ufsdoc' = ufsdoc
      /\ cache' = cache /\ store' = store /\ pc = "work" /\ steps # << >> /\ Do.do \in UfsSteps
      /\ setup \in Setups /\ steps \in Seq(Fit) /\ ListsInv /\ UfsInv
  BY DEF SendUfs, Busy, dataVars, listVars, UfsSteps, ChangeInv
<1>2. Flash /\ Provisions
  BY <1>1, StepOn DEF Allowed
<1>3. PICK k \in 1..(2 * Len(ufsdoc)) : Ahead(k)
  BY <1>1, <1>2 DEF UfsInv
<1>4. Do.fails = "stop"
  <2>1. Do = Provision[k]
    BY <1>1, <1>2, <1>3, NextUfs
  <2> QED
    BY <1>1, <1>2, <2>1, ProvisionIs
<1>5. /\ lun' = 0 /\ pc' = "work" /\ (ret # 0 => ret' # 0)
      /\ steps' = Tail(steps) \/ steps' = << >>
      /\ UfsInv'
  <2>1. CASE Succeeds /\ UfsEnd(Append(ufs.staged, Do.label))
    <3>1. steps' = Tail(steps) /\ lun' = 0 /\ pc' = "work" /\ ret' = ret
      BY <1>1, <2>1, GoesOn DEF Succeeds, Advance, Goto
    <3>2. PICK staged : staged = Append(ufs.staged, Do.label)
      OBVIOUS
    <3>3. UfsEnd(staged)
      BY <2>1, <3>2
    <3>4. UfsInv'
      BY <1>1, <1>2, <1>3, <3>1, <3>2, <3>3, UfsSent
    <3> QED
      BY <3>1, <3>4
  <2>2. CASE Misses(FALSE) /\ ufs' = ufs
    <3>1. steps' = << >> /\ lun' = 0 /\ pc' = "work" /\ (ret # 0 => ret' # 0)
      BY <1>4, <2>2 DEF Misses
    <3>2. UfsInv'
      <4>1. Flash' /\ Provisions'
        BY <1>1, <1>2, FixedDisk DEF Provisions
      <4> QED
        BY <1>1, <1>3, <2>2, <3>1, <4>1 DEF UfsInv, Ahead
    <3> QED
      BY <3>1, <3>2
  <2> QED
    BY <2>1, <2>2 DEF SendUfs, UfsEnd
<1>6. Fit \subseteq Fit' /\ \A part : Touchable(part) => Touchable(part)'
  BY <1>1, <1>5, Grown
<1>7. steps' \in Seq(Fit')
  BY <1>1, <1>5, <1>6, LessSteps
<1>8. TableInv'
  BY <1>1, <1>5, TableKept DEF ChangeInv
<1>9. StoreInv'
  BY <1>1, <1>6, StoreKept DEF ChangeInv
<1>10. PathInv' /\ ListsInv' /\ TakenInv' /\ FusingInv' /\ VerifiedInv'
  BY <1>1, <1>5, WorkKeeps
<1> QED
  BY <1>1, <1>5, <1>7, <1>8, <1>9, <1>10 DEF ChangeInv

\* One element of a sequence is another.
LEMMA OneChanged ==
    ASSUME NEW S, NEW s, s \in Seq(S), NEW i, i \in 1..Len(s), NEW e, e \in S,
           NEW q, q = [s EXCEPT ![i] = e]
    PROVE  /\ q \in Seq(S) /\ Len(q) = Len(s) /\ Len(s) \in Nat
           /\ q[i] = e /\ \A n \in 1..Len(s) : n # i => q[n] = s[n]
  BY ExceptSeq

\* A label of the documents gets its place.
LEMMA QueuePlaced ==
    ASSUME setup \in Setups, ListsInv, TableInv, steps \in Seq(Fit), steps # << >>,
           Do.do = "resolve", Found(Do.label)
    PROVE  /\ Flash /\ Do.part[1] \in 1..Len(queue) /\ queue[Do.part[1]].gpt = Do.label
           /\ Do.label # "" /\ FoundPart(Do.label) \in Seq(Nat)
           /\ setup.erase_all \/ FoundPart(Do.label) = Place(Do.label)
<1> DEFINE label == Do.label
<1>1. /\ Flash /\ Do.part[1] \in 1..Len(Gpts) /\ Gpts[Do.part[1]] = label /\ Do.label # ""
  BY StepOn DEF Allowed
<1>2. Len(queue) \in Nat /\ Len(Gpts) = Len(queue)
  BY DEF ListsInv, Gpts
<1>3. Do.part[1] \in 1..Len(queue) /\ queue[Do.part[1]].gpt = label
  BY <1>1, <1>2 DEF Gpts
<1>4. GptOnly /\ Table = cache /\ Table \in Seq(RowSet) /\ Len(Table) \in Nat
  BY TableTyped DEF GptOnly, Table
<1>5. Cardinality(Matches(label)) = 1
  BY <1>4 DEF Found
<1>6. Matches(label) # {}
  <2>1. Matches(label) \subseteq 1..Len(Table)
    BY DEF Matches, Bearing
  <2> HIDE DEF label
  <2> QED
    BY <1>4, <1>5, <2>1, OneOf
<1> HIDE DEF label
<1>7. FoundPart(label) \in Called(label)
  BY <1>4, <1>6, FoundNamed
<1>8. FoundPart(label) \in Seq(Nat)
  BY <1>7, PartsAre DEF Called
<1>9. ~Nand
  <2> SUFFICES ASSUME Nand PROVE FALSE
    OBVIOUS
  <2>1. Len(Table) = 0
    BY <1>4 DEF TableInv
  <2>2. Matches(label) \subseteq 1..Len(Table)
    BY DEF Matches, Bearing
  <2> QED
    BY <1>6, <2>1, <2>2
<1>10. ASSUME ~setup.erase_all PROVE FoundPart(label) = Place(label)
  <2>1. Whence
    BY <1>1, <1>9, <1>10 DEF TableInv, Meddles
  <2>2. PICK k \in 0..Len(Disk) : Covers(cache, k)
    BY <2>1 DEF Whence
  <2>3. cache \in Seq(RowSet)
    BY DEF TableInv
  <2> QED
    BY <1>4, <1>5, <2>2, <2>3, FoundIsPlace
<1> QED
  BY <1>1, <1>3, <1>8, <1>10 DEF label

\* firehose_resolve_gpt_partition()
LEMMA ResolveHolds ==
    ASSUME ChangeInv, Resolve
    PROVE  ChangeInv'
<1>1. /\ setup' = setup /\ docs' = docs /\ ufsdoc' = ufsdoc /\ cache' = cache /\ store' = store
      /\ ufs' = ufs /\ pc = "work" /\ steps # << >> /\ Do.do = "resolve"
      /\ setup \in Setups /\ steps \in Seq(Fit) /\ ListsInv /\ UfsInv /\ TableInv
  BY DEF Resolve, Busy, dataVars, ChangeInv
<1>2. Do.do \notin UfsSteps
  BY <1>1 DEF UfsSteps
<1>3. /\ lun' = 0 /\ pc' = "work" /\ (ret # 0 => ret' # 0)
      /\ steps' = Tail(steps) \/ steps' = << >>
      /\ \/ queue' = queue
         \/ /\ Found(Do.label)
            /\ queue' = [queue EXCEPT ![Do.part[1]].part = FoundPart(Do.label)]
  <2>1. Succeeds \/ Misses(FALSE)
    BY DEF Resolve
  <2>2. /\ \/ queue' = queue
           \/ /\ Found(Do.label)
              /\ queue' = [queue EXCEPT ![Do.part[1]].part = FoundPart(Do.label)]
    BY DEF Resolve
  <2>3. pc' = "work"
    BY <2>1 DEF Succeeds, Misses, Goto
  <2> QED
    BY <1>1, <1>2, <2>1, <2>2, <2>3, Ends DEF Same
<1>4. /\ Len(queue') = Len(queue) /\ Len(queue) \in Nat /\ queue' \in Seq(DocTags)
      /\ \A n \in 1..Len(queue) :
            /\ queue'[n].gpt = queue[n].gpt
            /\ \E m \in 1..Len(Tags) : << queue'[n], Tags[m] >> \in Origins
  <2>1. CASE queue' = queue
    BY <1>1, <2>1 DEF ListsInv
  <2>2. CASE /\ Found(Do.label)
             /\ queue' = [queue EXCEPT ![Do.part[1]].part = FoundPart(Do.label)]
    <3> DEFINE i == Do.part[1]
               part == FoundPart(Do.label)
               label == Do.label
               e == [queue[i] EXCEPT !.part = part]
    <3>1. /\ i \in 1..Len(queue) /\ queue[i].gpt = label /\ label # ""
          /\ part \in Seq(Nat) /\ (setup.erase_all \/ part = Place(label))
      BY <1>1, <2>2, QueuePlaced
    <3>2. queue' = [queue EXCEPT ![i] = e]
      BY <2>2
    <3> HIDE DEF i, part, label
    <3>3. queue \in Seq(DocTags) /\ queue[i] \in DocTags
      BY <1>1, <3>1, ElementOfSeq DEF ListsInv
    <3>4. /\ e \in DocTags /\ e.part = part /\ e.kind = queue[i].kind /\ e.label = queue[i].label
          /\ e.gpt = queue[i].gpt /\ e.live = queue[i].live /\ e.md5 = queue[i].md5
          /\ e.file = queue[i].file
      BY <3>1, <3>3 DEF DocTags
    <3> HIDE DEF e
    <3>5. /\ queue' \in Seq(DocTags) /\ Len(queue') = Len(queue) /\ Len(queue) \in Nat
          /\ queue'[i] = e /\ \A n \in 1..Len(queue) : n # i => queue'[n] = queue[n]
      <4>1. PICK q : q = queue'
        OBVIOUS
      <4>2. PICK s : s = queue
        OBVIOUS
      <4>3. s \in Seq(DocTags) /\ i \in 1..Len(s) /\ e \in DocTags /\ q = [s EXCEPT ![i] = e]
        BY <3>1, <3>2, <3>3, <3>4, <4>1, <4>2
      <4>4. /\ q \in Seq(DocTags) /\ Len(q) = Len(s) /\ Len(s) \in Nat
            /\ q[i] = e /\ \A n \in 1..Len(s) : n # i => q[n] = s[n]
        BY <4>3, OneChanged
      <4> QED
        BY <4>1, <4>2, <4>4
    <3>6. ASSUME NEW n \in 1..Len(queue)
          PROVE  queue'[n].gpt = queue[n].gpt /\ \E m \in 1..Len(Tags) : << queue'[n], Tags[m] >> \in Origins
      <4>1. CASE n # i
        BY <1>1, <3>5, <4>1 DEF ListsInv
      <4>2. CASE n = i
        <5>1. PICK m \in 1..Len(Tags) : << queue[i], Tags[m] >> \in Origins
          BY <1>1, <3>1 DEF ListsInv
        <5>2. Made(queue[i], Tags[m]) /\ Tags[m] \in DocTags
          BY <5>1 DEF Origins
        <5>3. Made(e, Tags[m])
          BY <3>4, <5>2 DEF Made
        <5>4. Placed(e, Tags[m])
          <6>1. Tags[m].gpt = label
            BY <3>1, <5>2 DEF Made
          <6> QED
            BY <3>1, <3>4, <6>1 DEF Placed
        <5>5. << e, Tags[m] >> \in Origins
          BY <3>4, <5>2, <5>3, <5>4 DEF Origins
        <5> QED
          BY <3>4, <3>5, <4>2, <5>5
      <4> QED
        BY <4>1, <4>2
    <3> QED
      BY <3>5, <3>6
  <2> QED
    BY <1>3, <2>1, <2>2
<1>5. Gpts' = Gpts
  BY <1>4 DEF Gpts
<1>6. Fit \subseteq Fit' /\ \A part : Touchable(part) => Touchable(part)'
  BY <1>1, <1>3, <1>5, FitGrows
<1>7. ListsInv'
  <2>1. LoadOrder' = LoadOrder /\ Tags' = Tags /\ Origins' = Origins
    BY <1>1, FixedLists, FixedOrigins
  <2>2. Loaded' = Loaded
    BY <1>1, <2>1 DEF Loaded
  <2> QED
    BY <1>1, <1>4, <2>1, <2>2 DEF ListsInv
<1>8. TakenInv' /\ FusingInv' /\ VerifiedInv'
  BY <1>1, <1>3, OnwardLists DEF ChangeInv, Loading
<1>9. PathInv'
  BY <1>1, <1>3, OnwardPath DEF ChangeInv
<1>10. steps' \in Seq(Fit')
  BY <1>1, <1>3, <1>6, LessSteps
<1>11. TableInv'
  BY <1>1, <1>3, TableKept
<1>12. StoreInv'
  BY <1>1, <1>6, StoreKept DEF ChangeInv
<1>13. UfsInv'
  BY <1>1, <1>2, UfsKept
<1> QED
  BY <1>1, <1>7, <1>8, <1>9, <1>10, <1>11, <1>12, <1>13 DEF ChangeInv
-----------------------------------------------------------------------------
(* The invariant, and what it says of a flash.                             *)

\* The invariant holds at the start,
LEMMA InitChange ==
    ASSUME Init
    PROVE  ChangeInv
<1>1. /\ setup \in Setups /\ pc = "start" /\ steps = << >> /\ cache = << >> /\ lun = 0 /\ loaded = FALSE
      /\ store = [part \in Parts |-> "old"] /\ docs = LoadOrder /\ queue = << >> /\ ufsdoc = << >>
      /\ ufs = [staged |-> << >>, checked |-> << >>, applied |-> << >>, boot |-> 0]
  BY DEF Init, PartInit, ListsInit
<1>2. Fresh /\ PathInv
  BY <1>1 DEF Fresh, Untouched, PathInv
<1>3. Len(LoadOrder) \in Nat /\ LoadOrder \in Seq({doc \in Documents : DocFits(doc)})
  BY <1>1, OrderFits
<1>4. Loaded = 0
  BY <1>1, <1>3 DEF Loaded
<1>5. ListsInv
  <2>1. queue \in Seq(DocTags) /\ Len(queue) = 0
    BY <1>1
  <2>2. \A i \in 1..Len(docs) : docs[i] = LoadOrder[Loaded + i]
    BY <1>1, <1>3, <1>4
  <2> QED
    BY <1>1, <1>3, <2>1, <2>2 DEF ListsInv
<1>6. TakenInv /\ FusingInv /\ VerifiedInv
  BY <1>1, <1>4 DEF TakenInv, FusingInv, VerifiedInv, Harmless, Loading
<1>7. steps \in Seq(Fit)
  <2> DEFINE F == Fit
  <2> HIDE DEF F
  <2>1. steps \in Seq(F)
    BY <1>1
  <2> QED
    BY <2>1 DEF F
<1>8. TableInv
  <2>1. cache \in Seq(RowSet)
    <3> DEFINE R == RowSet
    <3> HIDE DEF R
    <3>1. cache \in Seq(R)
      BY <1>1
    <3> QED
      BY <3>1 DEF R
  <2>2. 0 \in 0..Len(Disk) /\ Covers(cache, 0)
    BY <1>1, DiskTyped, CoversNone
  <2> QED
    BY <1>1, <2>1, <2>2 DEF TableInv, Whence
<1>9. UfsInv
  BY <1>1 DEF UfsInv, Unused
<1>10. StoreInv
  BY <1>1 DEF StoreInv
<1> QED
  BY <1>1, <1>2, <1>5, <1>6, <1>7, <1>8, <1>9, <1>10 DEF ChangeInv

\* and each step of the program and of its operator keeps it.
LEMMA NextChange ==
    ASSUME ChangeInv, [Next]_vars
    PROVE  ChangeInv'
<1>1. CASE UNCHANGED vars
  <2>1. /\ UNCHANGED << setup, listVars, work >> /\ setup' = setup /\ pc' = pc /\ ret' = ret /\ docs' = docs
        /\ store' = store
    BY <1>1 DEF vars, qdlVars, listVars, partVars, work
  <2>2. ListsInv' /\ Loaded' = Loaded /\ LoadOrder' = LoadOrder
    BY <2>1, ListsKept, FixedLists DEF ChangeInv
  <2>3. steps' \in Seq(Fit') /\ TableInv' /\ UfsInv' /\ StoreInv'
    BY <2>1, LateHolds DEF ChangeInv
  <2>4. TakenInv'
    BY <2>1, LoadingKept DEF ChangeInv
  <2>5. FusingInv'
    BY <2>1, <2>2, FixedSecdata DEF ChangeInv, FusingInv, Harmless, Whole
  <2>6. VerifiedInv'
    BY <2>1, VerifiedKept, UntouchedKept, FixedDisk DEF ChangeInv, VerifiedInv
  <2>7. PathInv'
    <3>1. pc \in Early => Fresh'
      BY <2>1, EarlyHolds DEF ChangeInv, PathInv
    <3> QED
      BY <2>1, <3>1, FixedDisk DEF ChangeInv, PathInv
  <2> QED
    BY <2>1, <2>2, <2>3, <2>4, <2>5, <2>6, <2>7 DEF ChangeInv
<1>2. CASE Start
  BY <1>2, StartHolds
<1>3. CASE Load
  BY <1>3, LoadKeeps
<1>4. CASE Reach \/ User
  BY <1>4, ReachHolds
<1>5. CASE Configure
  BY <1>5, ConfigureHolds
<1>6. CASE Resolve
  BY <1>6, ResolveHolds
<1>7. CASE SetBootable \/ LunInfo \/ PlanOps
  BY <1>7, OneStepHolds
<1>8. CASE SendUfs
  BY <1>8, SendUfsHolds
<1>9. CASE Work
  BY <1>9, PartitionsHold
<1>10. CASE Worked \/ Close \/ (Over /\ UNCHANGED vars)
  BY <1>10, EndsHold
<1> QED
  BY <1>1, <1>2, <1>3, <1>4, <1>5, <1>6, <1>7, <1>8, <1>9, <1>10 DEF Next, Run

\* Every state of a run: where the command is, what is on its lists, what its
\* steps may change, and what it has checked.
THEOREM ChangesHold == Spec => []ChangeInv
<1>1. Init => ChangeInv
  BY InitChange
<1>2. ChangeInv /\ [Next]_vars => ChangeInv'
  BY NextChange
<1> QED
  BY <1>1, <1>2, PTL DEF Spec

\* Nothing changes on the modem before the documents are loaded and checked,
\* and a provisioning is committed as it was checked, when no two entries for
\* secdata differ in having an image.
THEOREM CheckedFirstHolds == Spec => [](SecdataPlain => CheckedFirst)
<1>1. ChangeInv => (SecdataPlain => CheckedFirst)
  <2> SUFFICES ASSUME ChangeInv, SecdataPlain PROVE CheckedFirst
    OBVIOUS
  <2>1. ASSUME Flash, NEW part \in Parts, store[part] # "old" PROVE Verified
    <3>1. ~Untouched
      BY <2>1 DEF Untouched
    <3>2. pc \notin Loading
      BY <3>1 DEF ChangeInv, PathInv, Early, Fresh
    <3> QED
      BY <2>1, <3>1, <3>2 DEF ChangeInv, VerifiedInv
  <2>2. ASSUME Flash, \E part \in Parts : store[part] # "old"
        PROVE  /\ docs = << >>
               /\ \A n \in 1..Len(Tags) : Whole(Tags[n]) =>
                     /\ setup.skip_md5 \/ ~(Tags[n].md5 /\ Tags[n].file = "altered")
                     /\ Tags[n].label = "secdata" => setup.allow_fusing
    <3>1. Verified
      BY <2>1, <2>2
    <3> QED
      BY <3>1 DEF Verified, Checked
  <2>3. ufs.applied # << >> => ufs.applied = ufs.checked
    BY DEF ChangeInv, UfsInv, Ahead, Unused
  <2> QED
    BY <2>2, <2>3 DEF CheckedFirst, Whole
<1> QED
  BY <1>1, ChangesHold, PTL

\* A partition that nothing asks for keeps what it holds, whatever fails.
THEOREM OthersKeptHolds == Spec => []OthersKept
<1>1. ChangeInv => OthersKept
  BY DEF ChangeInv, StoreInv, Touchable, OthersKept
<1> QED
  BY <1>1, ChangesHold, PTL
-----------------------------------------------------------------------------
(* What a list does to one thing: the last of its elements that does       *)
(* anything to it counts.  F says what an element does, "" for nothing.    *)
Lead(s, F, j, v) ==
    IF v = "" THEN \A n \in 1..j : F[s[n]] = ""
    ELSE \E n \in 1..j : F[s[n]] = v /\ \A m \in (n + 1)..j : F[s[m]] = ""
Leaves(s, F, v) == Lead(s, F, Len(s), v)
After(u, w) == IF w = "" THEN u ELSE w

\* The first j elements leave one thing, and not two.
LEMMA LeadIsOne ==
    ASSUME NEW s, NEW F, NEW j \in Nat
    PROVE  /\ \A u, v : Lead(s, F, j, u) /\ Lead(s, F, j, v) => u = v
           /\ \A V : (\A n \in 1..j : F[s[n]] \in V) => \E v \in V \cup {""} : Lead(s, F, j, v)
<1>1. ASSUME NEW u, NEW v, Lead(s, F, j, u), Lead(s, F, j, v), u # v
      PROVE  FALSE
  <2>1. CASE u = "" \/ v = ""
    BY <1>1, <2>1 DEF Lead
  <2>2. CASE u # "" /\ v # ""
    <3>1. PICK m \in 1..j : F[s[m]] = u /\ \A i \in (m + 1)..j : F[s[i]] = ""
      BY <1>1, <2>2 DEF Lead
    <3>2. PICK n \in 1..j : F[s[n]] = v /\ \A i \in (n + 1)..j : F[s[i]] = ""
      BY <1>1, <2>2 DEF Lead
    <3>3. m \notin (n + 1)..j /\ n \notin (m + 1)..j
      BY <2>2, <3>1, <3>2
    <3>4. m = n
      BY <3>3
    <3> QED
      BY <1>1, <3>1, <3>2, <3>4
  <2> QED
    BY <2>1, <2>2
<1>2. ASSUME NEW V, \A n \in 1..j : F[s[n]] \in V
      PROVE  \E v \in V \cup {""} : Lead(s, F, j, v)
  <2> DEFINE T == {n \in 1..j : F[s[n]] # ""}
  <2>1. CASE T = {}
    <3>1. Lead(s, F, j, "")
      BY <2>1 DEF Lead
    <3> QED
      BY <3>1
  <2>2. CASE T # {}
    <3>1. T \subseteq 1..j
      OBVIOUS
    <3> DEFINE n == Max(T)
    <3>2. n \in T /\ \A x \in T : x <= n
      <4> HIDE DEF T
      <4> QED
        BY <2>2, <3>1, Extremes
    <3> HIDE DEF n
    <3>3. n \in 1..j /\ F[s[n]] # ""
      BY <3>2
    <3>6. n \in 1..j
      BY <3>3
    <3>4. ASSUME NEW m \in (n + 1)..j PROVE F[s[m]] = ""
      <4>1. m \in 1..j /\ ~(m <= n)
        BY <3>6
      <4> QED
        BY <3>2, <4>1
    <3>5. Lead(s, F, j, F[s[n]])
      BY <3>3, <3>4 DEF Lead
    <3> QED
      BY <1>2, <3>3, <3>5
  <2> QED
    BY <2>1, <2>2
<1> QED
  BY <1>1, <1>2

\* One element more: it counts if it does anything.
LEMMA LeadNext ==
    ASSUME NEW s, NEW F, NEW j \in Nat, NEW u, Lead(s, F, j, u)
    PROVE  Lead(s, F, j + 1, After(u, F[s[j + 1]]))
<1> DEFINE e == F[s[j + 1]]
<1>1. CASE e # ""
  <2>1. j + 1 \in 1..(j + 1) /\ \A m : m \notin (j + 1 + 1)..(j + 1)
    OBVIOUS
  <2> QED
    BY <1>1, <2>1 DEF Lead, After
<1>2. CASE e = "" /\ u = ""
  <2>1. \A n \in 1..(j + 1) : n \in 1..j \/ n = j + 1
    OBVIOUS
  <2> QED
    BY <1>2, <2>1 DEF Lead, After
<1>3. CASE e = "" /\ u # ""
  <2>1. PICK n \in 1..j : F[s[n]] = u /\ \A m \in (n + 1)..j : F[s[m]] = ""
    BY <1>3 DEF Lead
  <2>2. n \in 1..(j + 1) /\ \A m \in (n + 1)..(j + 1) : m \in (n + 1)..j \/ m = j + 1
    OBVIOUS
  <2>3. \A m \in (n + 1)..(j + 1) : F[s[m]] = ""
    BY <1>3, <2>1, <2>2
  <2> QED
    BY <1>3, <2>1, <2>2, <2>3 DEF Lead, After
<1> QED
  BY <1>1, <1>2, <1>3

\* One list after the other.
LEMMA LeavesBoth ==
    ASSUME NEW S, NEW F, NEW a \in Seq(S), NEW b \in Seq(S), NEW u, NEW v,
           Leaves(a, F, u), Leaves(b, F, v)
    PROVE  Leaves(a \o b, F, After(u, v))
<1> DEFINE c == a \o b
<1>1. /\ Len(c) = Len(a) + Len(b) /\ Len(a) \in Nat /\ Len(b) \in Nat
      /\ \A m \in 1..Len(a) : c[m] = a[m]
      /\ \A m \in 1..Len(b) : c[Len(a) + m] = b[m]
  BY ConcatProperties
<1> HIDE DEF c
<1>2. \A m \in 1..Len(c) : m \in 1..Len(a) \/ (m - Len(a) \in 1..Len(b) /\ c[m] = b[m - Len(a)])
  <2> SUFFICES ASSUME NEW m \in 1..Len(c), m \notin 1..Len(a)
               PROVE  m - Len(a) \in 1..Len(b) /\ c[m] = b[m - Len(a)]
    OBVIOUS
  <2>1. m - Len(a) \in 1..Len(b) /\ Len(a) + (m - Len(a)) = m
    BY <1>1
  <2> QED
    BY <1>1, <2>1
<1>3. ASSUME v # "" PROVE Leaves(c, F, After(u, v))
  <2>1. PICK n \in 1..Len(b) : F[b[n]] = v /\ \A m \in (n + 1)..Len(b) : F[b[m]] = ""
    BY <1>3 DEF Leaves, Lead
  <2>5. Len(a) + n \in 1..Len(c) /\ c[Len(a) + n] = b[n]
    BY <1>1
  <2>2. Len(a) + n \in 1..Len(c) /\ F[c[Len(a) + n]] = v
    BY <2>1, <2>5
  <2>3. ASSUME NEW m \in (Len(a) + n + 1)..Len(c) PROVE F[c[m]] = ""
    <3>1. m - Len(a) \in (n + 1)..Len(b) /\ m \in 1..Len(c) /\ m \notin 1..Len(a)
      BY <1>1
    <3> QED
      BY <1>2, <2>1, <3>1
  <2>4. Leaves(c, F, v) /\ After(u, v) = v
    BY <1>3, <2>2, <2>3 DEF Leaves, Lead, After
  <2> QED
    BY <2>4
<1>4. ASSUME v = "" PROVE Leaves(c, F, After(u, v))
  <2>1. \A m \in 1..Len(b) : F[b[m]] = ""
    BY <1>4 DEF Leaves, Lead
  <2>2. CASE u = ""
    <3>1. \A m \in 1..Len(a) : F[a[m]] = ""
      BY <2>2 DEF Leaves, Lead
    <3>4. ASSUME NEW m \in 1..Len(c) PROVE F[c[m]] = ""
      <4>1. CASE m \in 1..Len(a)
        <5>1. c[m] = a[m]
          BY <1>1, <4>1
        <5> QED
          BY <3>1, <4>1, <5>1
      <4>2. CASE m \notin 1..Len(a)
        <5>1. m - Len(a) \in 1..Len(b) /\ c[m] = b[m - Len(a)]
          BY <1>2, <4>2
        <5> QED
          BY <2>1, <5>1
      <4> QED
        BY <4>1, <4>2
    <3>2. \A m \in 1..Len(c) : F[c[m]] = ""
      BY <3>4
    <3>3. Leaves(c, F, "") /\ After(u, v) = ""
      BY <1>4, <2>2, <3>2 DEF Leaves, Lead, After
    <3> QED
      BY <3>3
  <2>3. CASE u # ""
    <3>1. PICK n \in 1..Len(a) : F[a[n]] = u /\ \A m \in (n + 1)..Len(a) : F[a[m]] = ""
      BY <2>3 DEF Leaves, Lead
    <3>5. n \in 1..Len(c) /\ c[n] = a[n]
      BY <1>1
    <3>2. n \in 1..Len(c) /\ F[c[n]] = u
      BY <3>1, <3>5
    <3>3. ASSUME NEW m \in (n + 1)..Len(c) PROVE F[c[m]] = ""
      <4>1. m \in 1..Len(c)
        OBVIOUS
      <4>2. CASE m \in 1..Len(a)
        <5>1. m \in (n + 1)..Len(a)
          BY <4>2
        <5> QED
          BY <1>1, <3>1, <4>2, <5>1
      <4>3. CASE m - Len(a) \in 1..Len(b) /\ c[m] = b[m - Len(a)]
        BY <2>1, <4>3
      <4> QED
        BY <1>2, <4>1, <4>2, <4>3
    <3>4. Leaves(c, F, u) /\ After(u, v) = u
      BY <1>4, <2>3, <3>2, <3>3 DEF Leaves, Lead, After
    <3> QED
      BY <3>4
  <2> QED
    BY <2>2, <2>3
<1>5. Leaves(c, F, After(u, v))
  BY <1>3, <1>4
<1> QED
  BY <1>5 DEF c

\* A list of one element, and none.
LEMMA LeavesOne ==
    ASSUME NEW F, NEW x
    PROVE  Leaves(<< x >>, F, F[x]) /\ Leaves(<< >>, F, "")
<1>1. Len(<< x >>) = 1 /\ << x >>[1] = x /\ Len(<< >>) = 0
  OBVIOUS
<1>2. \A n \in 1..1 : n = 1
  OBVIOUS
<1>3. 1 \in 1..1 /\ \A m : m \notin (1 + 1)..1
  OBVIOUS
<1>4. \A n : n \notin 1..0
  OBVIOUS
<1>5. Leaves(<< >>, F, "")
  BY <1>1, <1>4 DEF Leaves, Lead
<1>6. Lead(<< x >>, F, 1, F[x])
  BY <1>1, <1>2, <1>3 DEF Lead
<1> QED
  BY <1>1, <1>5, <1>6 DEF Leaves

\* A list without its first element.
LEMMA LeavesRest ==
    ASSUME NEW S, NEW F, NEW s \in Seq(S), s # << >>, NEW w, Leaves(s, F, w)
    PROVE  \E v \in {w, ""} : Leaves(Tail(s), F, v) /\ w = After(F[Head(s)], v)
<1> DEFINE t == Tail(s)
<1>1. /\ Len(s) \in Nat /\ Len(s) # 0 /\ Len(t) = Len(s) - 1 /\ Head(s) = s[1]
      /\ \A i \in 1..Len(t) : t[i] = s[i + 1]
  BY EmptySeq
<1> HIDE DEF t
<1>2. CASE w = ""
  <2>1. \A n \in 1..Len(s) : F[s[n]] = ""
    BY <1>2 DEF Leaves, Lead
  <2>2. 1 \in 1..Len(s) /\ \A i \in 1..Len(t) : i + 1 \in 1..Len(s)
    BY <1>1
  <2>3. Leaves(t, F, "")
    BY <1>1, <2>1, <2>2 DEF Leaves, Lead
  <2> QED
    BY <1>1, <1>2, <2>1, <2>2, <2>3 DEF After, t
<1>3. CASE w # ""
  <2>1. PICK n \in 1..Len(s) : F[s[n]] = w /\ \A m \in (n + 1)..Len(s) : F[s[m]] = ""
    BY <1>3 DEF Leaves, Lead
  <2>2. CASE n = 1
    <3>1. ASSUME NEW i \in 1..Len(t) PROVE F[t[i]] = ""
      <4>1. i + 1 \in (n + 1)..Len(s)
        BY <1>1, <2>2
      <4> QED
        BY <1>1, <2>1, <4>1
    <3>2. Leaves(t, F, "")
      BY <3>1 DEF Leaves, Lead
    <3> QED
      BY <1>1, <2>1, <2>2, <3>2 DEF After, t
  <2>3. CASE n # 1
    <3>1. n - 1 \in 1..Len(t) /\ n - 1 + 1 = n
      BY <1>1, <2>3
    <3>2. F[t[n - 1]] = w
      BY <1>1, <2>1, <3>1
    <3>3. ASSUME NEW i \in (n - 1 + 1)..Len(t) PROVE F[t[i]] = ""
      <4>1. i + 1 \in (n + 1)..Len(s) /\ i \in 1..Len(t)
        BY <1>1, <2>3
      <4> QED
        BY <1>1, <2>1, <4>1
    <3>4. Leaves(t, F, w)
      BY <1>3, <3>1, <3>2, <3>3 DEF Leaves, Lead
    <3> QED
      BY <1>3, <3>4 DEF After, t
  <2> QED
    BY <2>2, <2>3
<1> QED
  BY <1>2, <1>3

\* Lists one after the other leave what a list of their results leaves.
LEMMA LeavesAll ==
    ASSUME NEW S, NEW F, NEW ss, Len(ss) \in Nat, ss = << >> \/ Len(ss) # 0,
           \A i \in 1..Len(ss) : ss[i] \in Seq(S),
           NEW t, Len(t) = Len(ss), NEW E, \A i \in 1..Len(ss) : Leaves(ss[i], F, E[t[i]]),
           NEW v, Leaves(t, E, v)
    PROVE  Leaves(FlattenSeq(ss), F, v)
<1> DEFINE n == Len(ss)
<1>1. CASE n = 0
  <2>1. FlattenSeq(ss) = ss /\ Len(FlattenSeq(ss)) = 0 /\ Len(t) = 0
    BY <1>1 DEF FlattenSeq
  <2>2. \A m : m \notin 1..0
    OBVIOUS
  <2>3. v = ""
    BY <2>1, <2>2 DEF Leaves, Lead
  <2> QED
    BY <2>1, <2>2, <2>3 DEF Leaves, Lead
<1>2. CASE n # 0
  <2>1. PICK f : Concatenates(f, ss, n) /\ FlattenSeq(ss) = f[n]
    BY <1>2, Concatenation
  <2>2. \A i \in 1..n : f[i] = IF i = 1 THEN ss[i] ELSE f[i - 1] \o ss[i]
    BY <2>1 DEF Concatenates
  <2> DEFINE T == {j \in Nat : j \in 1..n =>
                      f[j] \in Seq(S) /\ \A u : Lead(t, E, j, u) => Leaves(f[j], F, u)}
  <2>3. 0 \in T
    OBVIOUS
  <2>4. ASSUME NEW j \in Nat, j \in T PROVE j + 1 \in T
    <3> SUFFICES ASSUME j + 1 \in 1..n
                 PROVE  /\ f[j + 1] \in Seq(S)
                        /\ \A u : Lead(t, E, j + 1, u) => Leaves(f[j + 1], F, u)
      BY <2>4
    <3>1. ss[j + 1] \in Seq(S) /\ Leaves(ss[j + 1], F, E[t[j + 1]])
      OBVIOUS
    <3>2. CASE j = 0
      <4>1. f[1] = ss[1] /\ 1 \in 1..n /\ j + 1 = 1
        BY <2>2, <3>2
      <4>2. Lead(t, E, 0, "")
        BY DEF Lead
      <4>3. \A i : 0 + 1 = i => Lead(t, E, i, After("", E[t[i]]))
        BY <4>2, LeadNext
      <4>6. 0 + 1 = 1 /\ 1 \in Nat
        OBVIOUS
      <4>4. Lead(t, E, 1, E[t[1]])
        BY <4>3, <4>6 DEF After
      <4>5. \A u : Lead(t, E, 1, u) => u = E[t[1]]
        BY <4>4, <4>6, LeadIsOne
      <4> QED
        BY <3>1, <4>1, <4>5
    <3>3. CASE j # 0
      <4>1. j \in 1..n /\ j + 1 # 1 /\ j + 1 - 1 = j
        BY <3>3
      <4>2. f[j + 1] = f[j] \o ss[j + 1]
        <5>1. f[j + 1] = IF j + 1 = 1 THEN ss[j + 1] ELSE f[j + 1 - 1] \o ss[j + 1]
          BY <2>2
        <5> QED
          BY <4>1, <5>1
      <4>3. f[j] \in Seq(S) /\ \A u : Lead(t, E, j, u) => Leaves(f[j], F, u)
        BY <2>4, <4>1
      <4>4. ASSUME NEW u, Lead(t, E, j + 1, u) PROVE Leaves(f[j + 1], F, u)
        <5>1. PICK w : Lead(t, E, j, w)
          <6>1. \A i \in 1..j : E[t[i]] \in {E[t[k]] : k \in 1..j}
            OBVIOUS
          <6> QED
            BY <6>1, LeadIsOne
        <5>2. Lead(t, E, j + 1, After(w, E[t[j + 1]]))
          BY <5>1, LeadNext
        <5>5. j + 1 \in Nat
          OBVIOUS
        <5>3. u = After(w, E[t[j + 1]])
          BY <4>4, <5>2, <5>5, LeadIsOne
        <5>4. Leaves(f[j] \o ss[j + 1], F, After(w, E[t[j + 1]]))
          BY <3>1, <4>3, <5>1, LeavesBoth
        <5> QED
          BY <4>2, <5>3, <5>4
      <4>5. f[j] \o ss[j + 1] \in Seq(S)
        BY <3>1, <4>3
      <4> QED
        BY <4>2, <4>4, <4>5
    <3> QED
      BY <3>2, <3>3
  <2> HIDE DEF T
  <2>5. n \in T
    BY <2>3, <2>4, Induction
  <2>6. \A u : Lead(t, E, n, u) => Leaves(f[n], F, u)
    BY <1>2, <2>5 DEF T
  <2> QED
    BY <2>1, <2>6 DEF Leaves
<1> QED
  BY <1>1, <1>2

\* The elements that are chosen, as sequences of one or none.
Singly(ss, s, K, S) ==
    /\ Len(ss) = Len(s) /\ Len(s) \in Nat /\ (ss = << >> \/ Len(ss) # 0)
    /\ \A n \in 1..Len(s) : ss[n] = IF n \in K THEN << s[n] >> ELSE << >>
    /\ \A n \in 1..Len(s) : ss[n] \in Seq(S) /\ s[n] \in S

\* What is chosen is what they are one after the other.
LEMMA ChosenSingly ==
    ASSUME NEW S, NEW s \in Seq(S), NEW K
    PROVE  \E ss : Singly(ss, s, K, S) /\ Chosen(s, K) = FlattenSeq(ss)
<1> DEFINE ss == [n \in 1..Len(s) |-> IF n \in K THEN << s[n] >> ELSE << >>]
<1>1. Len(s) \in Nat /\ Len(ss) = Len(s) /\ (ss = << >> \/ Len(ss) # 0)
  <2>1. Len(s) \in Nat
    OBVIOUS
  <2>2. ss \in Seq({<< s[n] >> : n \in 1..Len(s)} \cup {<< >>})
    BY <2>1, SeqDef
  <2>3. Len(ss) = Len(s)
    BY <2>1, <2>2, LenProperties
  <2>4. Len(ss) = 0 => ss = << >>
    BY <2>2, EmptySeq
  <2> QED
    BY <2>1, <2>3, <2>4
<1>2. \A n \in 1..Len(ss) : ss[n] = IF n \in K THEN << s[n] >> ELSE << >>
  BY <1>1
<1>3. \A n \in 1..Len(ss) : s[n] \in S
  BY <1>1, ElementOfSeq
<1> HIDE DEF ss
<1>4. ASSUME NEW n \in 1..Len(ss) PROVE ss[n] \in Seq(S)
  <2>1. << s[n] >> \in Seq(S) /\ << >> \in Seq(S)
    BY <1>3
  <2> QED
    BY <1>2, <2>1
<1>5. Chosen(s, K) = FlattenSeq(ss)
  BY Zenon DEF Chosen, ss
<1>6. Singly(ss, s, K, S)
  BY <1>1, <1>2, <1>3, <1>4 DEF Singly
<1> QED
  BY <1>5, <1>6

\* What is chosen from a list leaves what the list would, if nothing else in it
\* did anything.
LEMMA LeavesChosen ==
    ASSUME NEW S, NEW s \in Seq(S), NEW K, NEW F, NEW E, NEW v, Leaves(s, E, v),
           \A n \in 1..Len(s) : E[s[n]] = IF n \in K THEN F[s[n]] ELSE ""
    PROVE  Leaves(Chosen(s, K), F, v)
<1>1. PICK ss : Singly(ss, s, K, S) /\ Chosen(s, K) = FlattenSeq(ss)
  BY ChosenSingly
<1>2. ASSUME NEW n \in 1..Len(s) PROVE Leaves(ss[n], F, E[s[n]])
  <2>1. E[s[n]] = IF n \in K THEN F[s[n]] ELSE ""
    OBVIOUS
  <2>2. Leaves(<< s[n] >>, F, F[s[n]]) /\ Leaves(<< >>, F, "")
    BY LeavesOne
  <2>3. CASE n \in K
    BY <1>1, <2>1, <2>2, <2>3 DEF Singly
  <2>4. CASE n \notin K
    BY <1>1, <2>1, <2>2, <2>4 DEF Singly
  <2> QED
    BY <2>3, <2>4
<1>3. Leaves(FlattenSeq(ss), F, v)
  BY <1>1, <1>2, LeavesAll DEF Singly
<1> QED
  BY <1>1, <1>3

\* A list whose elements all do the same, if they do anything.
LEMMA LeavesSame ==
    ASSUME NEW F, NEW s, Len(s) \in Nat, NEW v, \A n \in 1..Len(s) : F[s[n]] \in {"", v},
           v # "" => \E n \in 1..Len(s) : F[s[n]] = v
    PROVE  Leaves(s, F, v)
<1>1. PICK w \in {"", v} : Lead(s, F, Len(s), w)
  <2>1. \E w \in {"", v} \cup {""} : Lead(s, F, Len(s), w)
    BY LeadIsOne
  <2> QED
    BY <2>1
<1>2. ASSUME w = "", v # "" PROVE FALSE
  <2>1. \A n \in 1..Len(s) : F[s[n]] = ""
    BY <1>1, <1>2 DEF Lead
  <2> QED
    BY <1>2, <2>1
<1>3. w = v
  BY <1>1, <1>2
<1> QED
  BY <1>1, <1>3 DEF Leaves
-----------------------------------------------------------------------------
(* What the tags of the documents say of a partition, and what the entries *)
(* of the lists will do to it.                                             *)
Tells(kinds, part) ==
    [tag \in DocTags |-> IF Applies(tag, kinds, part) THEN Result[tag.kind] ELSE ""]
Puts(kinds, part) ==
    [e \in DocTags |->
        IF e.live /\ e.kind \in kinds /\ PlaceOf(e) = part THEN Result[e.kind] ELSE ""]
Leaving(s, F) == CHOOSE v : Leaves(s, F, v)
Brings(kinds, part) ==
    [doc \in Documents |->
        IF doc.type = "ufs" THEN "" ELSE Leaving(doc.tags, Tells(kinds, part))]

\* The entries of a tag that is taken do what the tag says.
LEMMA TagLeaves ==
    ASSUME NEW kinds \in SUBSET ChangingSteps, NEW part, NEW tag \in DocTags, NEW type,
           TagFits(type, tag), ~Refused(tag), ~Mistaken(tag)
    PROVE  Leaves(Entries(tag), Puts(kinds, part), Tells(kinds, part)[tag])
<1> DEFINE F == Puts(kinds, part)
           r == Tells(kinds, part)[tag]
           no == Entry(tag, FALSE)
           yes == Entry(tag, TRUE)
           chunk == [tag EXCEPT !.live = TRUE, !.md5 = FALSE]
<1>1. /\ tag.kind \in {"program", "erase", "patch", "read"} /\ tag.bad \in BOOLEAN
      /\ tag.vendor \in BOOLEAN /\ tag.file \in {"ok", "missing", "altered"}
      /\ tag.sparse \in {"no", "yes", "typo", "broken"}
      /\ tag.vendor => tag.kind = "erase"
      /\ tag.file = "missing" => tag.kind = "program"
  BY DEF DocTags, TagFits
<1>2. /\ no \in DocTags /\ ~no.live /\ no.kind = tag.kind /\ no.gpt = tag.gpt /\ no.part = tag.part
      /\ yes \in DocTags /\ yes.live /\ yes.kind = tag.kind /\ yes.gpt = tag.gpt /\ yes.part = tag.part
  BY OneEntry
<1>17. /\ chunk \in DocTags /\ chunk.live /\ chunk.kind = tag.kind /\ chunk.gpt = tag.gpt
       /\ chunk.part = tag.part
  BY DEF DocTags
<1>3. r = IF Applies(tag, kinds, part) THEN Result[tag.kind] ELSE ""
  BY DEF Tells
<1> HIDE DEF no, yes, chunk
<1>18. \A e \in DocTags : e.kind = tag.kind /\ e.gpt = tag.gpt /\ e.part = tag.part =>
         F[e] = IF e.live /\ tag.kind \in kinds /\ PlaceOf(tag) = part THEN Result[tag.kind] ELSE ""
  BY DEF Puts, PlaceOf
<1> HIDE DEF F
<1>4. F[no] = ""
  BY <1>2, <1>18
<1>5. /\ F[yes] = IF tag.kind \in kinds /\ PlaceOf(tag) = part THEN Result[tag.kind] ELSE ""
      /\ F[chunk] = IF tag.kind \in kinds /\ PlaceOf(tag) = part THEN Result[tag.kind] ELSE ""
  BY <1>2, <1>17, <1>18
<1>6. tag.kind = "program" => ~tag.bad
  BY <1>1 DEF Refused, ProgramRefused
<1>7. tag.kind = "erase" /\ ~tag.vendor => ~tag.bad
  BY <1>1 DEF Refused
<1>8. tag.kind \notin {"program", "erase"} => ~tag.bad
  BY <1>1 DEF Refused
<1>9. CASE tag.kind = "program" /\ tag.file = "missing"
  <2>1. Entries(tag) = << no >>
    BY <1>9 DEF Entries, ProgramEntries, no
  <2>2. r = ""
    BY <1>3, <1>9 DEF Applies
  <2> HIDE DEF r
  <2> QED
    BY <1>4, <2>1, <2>2, LeavesOne DEF F, r
<1>10. CASE tag.kind = "program" /\ tag.file # "missing" /\ tag.sparse = "yes"
  <2>1. Entries(tag) = << chunk >> \o << no >>
    BY <1>10 DEF Entries, ProgramEntries, Chunks, no, chunk
  <2>2. r = F[chunk]
    BY <1>1, <1>3, <1>5, <1>6, <1>10 DEF Applies
  <2> HIDE DEF r
  <2>3. Leaves(<< chunk >>, F, r) /\ Leaves(<< no >>, F, "")
    <3>1. Leaves(<< chunk >>, F, F[chunk]) /\ Leaves(<< no >>, F, F[no])
      BY LeavesOne
    <3> QED
      BY <1>4, <2>2, <3>1
  <2>4. << chunk >> \in Seq(DocTags) /\ << no >> \in Seq(DocTags)
    BY <1>2, <1>17
  <2>5. Leaves(<< chunk >> \o << no >>, F, After(r, ""))
    BY <2>3, <2>4, LeavesBoth
  <2> QED
    BY <2>1, <2>5 DEF After, F, r
<1>11. CASE tag.kind = "program" /\ tag.file # "missing" /\ tag.sparse # "yes"
  <2>1. tag.sparse # "typo"
    BY <1>11 DEF Mistaken
  <2>2. Entries(tag) = << yes >>
    BY <1>11, <2>1 DEF Entries, ProgramEntries, yes
  <2>3. r = F[yes]
    BY <1>1, <1>3, <1>5, <1>6, <1>11 DEF Applies
  <2> HIDE DEF r
  <2> QED
    BY <2>2, <2>3, LeavesOne DEF F, r
<1>12. CASE tag.kind = "erase" /\ tag.vendor
  <2>1. Entries(tag) = << >>
    BY <1>12 DEF Entries, EraseEntries
  <2>2. r = ""
    BY <1>3, <1>12 DEF Applies
  <2> HIDE DEF r
  <2> QED
    BY <2>1, <2>2, LeavesOne DEF F, r
<1>13. CASE tag.kind = "erase" /\ ~tag.vendor
  <2>1. Entries(tag) = << yes >>
    BY <1>13 DEF Entries, EraseEntries, yes
  <2>2. r = F[yes]
    BY <1>1, <1>3, <1>5, <1>7, <1>13 DEF Applies
  <2> HIDE DEF r
  <2> QED
    BY <2>1, <2>2, LeavesOne DEF F, r
<1>14. CASE tag.kind = "patch" /\ tag.file = "ok"
  <2>1. Entries(tag) = << yes >>
    <3>1. (tag.file = "ok") = TRUE
      BY <1>14
    <3> QED
      BY <1>14, <3>1 DEF Entries, PatchEntries, yes
  <2>2. r = F[yes]
    BY <1>1, <1>3, <1>5, <1>8, <1>14 DEF Applies
  <2> HIDE DEF r
  <2> QED
    BY <2>1, <2>2, LeavesOne DEF F, r
<1>15. CASE tag.kind = "patch" /\ tag.file # "ok"
  <2>1. Entries(tag) = << no >>
    <3>1. (tag.file = "ok") = FALSE
      BY <1>15
    <3> QED
      BY <1>15, <3>1 DEF Entries, PatchEntries, no
  <2>2. r = ""
    BY <1>3, <1>15 DEF Applies
  <2> HIDE DEF r
  <2> QED
    BY <1>4, <2>1, <2>2, LeavesOne DEF F, r
<1>16. CASE tag.kind = "read"
  <2>1. Entries(tag) = << yes >>
    BY <1>16 DEF Entries, yes
  <2>2. r = "" /\ F[yes] = ""
    BY <1>3, <1>5, <1>16 DEF Applies, ChangingSteps
  <2> HIDE DEF r
  <2> QED
    BY <2>1, <2>2, LeavesOne DEF F, r
<1> QED
  BY <1>1, <1>9, <1>10, <1>11, <1>12, <1>13, <1>14, <1>15, <1>16

\* A document that is loaded, and nothing of it left out, has no tag that is
\* refused or taken for another.
LEMMA AllTaken ==
    ASSUME NEW doc, DocFits(doc), doc.type # "ufs", ~DocRefused(doc), ~LeavesOut(doc),
           NEW n \in 1..Len(doc.tags)
    PROVE  /\ doc.tags[n] \in DocTags /\ TagFits(doc.type, doc.tags[n])
           /\ ~Refused(doc.tags[n]) /\ ~Mistaken(doc.tags[n])
<1> DEFINE tag == doc.tags[n]
<1>1. /\ tag \in DocTags /\ TagFits(doc.type, tag)
      /\ doc.type \in {"read", "program", "patch", "command", "unknown"}
      /\ tag.kind \in {"program", "erase", "patch", "read"}
  BY DEF DocFits, Documents, DocTags
<1>2. CASE doc.type = "command"
  <2>1. n = 1
    BY <1>2 DEF DocFits
  <2>2. ~tag.bad
    BY <1>2, <2>1 DEF DocRefused, CommandRefused
  <2>3. tag.sparse = "no" /\ tag.file # "missing" /\ tag.kind \in {"program", "read"}
    BY <1>1, <1>2 DEF TagFits, KindsIn
  <2> HIDE DEF tag
  <2>4. ~Refused(tag) /\ ~Mistaken(tag)
    BY <2>2, <2>3 DEF Refused, ProgramRefused, Mistaken
  <2> QED
    BY <1>1, <2>4 DEF tag
<1>3. CASE doc.type = "program"
  <2>1. ~Refused(tag)
    BY <1>3 DEF DocRefused, SomeRefused
  <2>2. ~Mistaken(tag)
    BY <1>3 DEF LeavesOut
  <2> QED
    BY <1>1, <2>1, <2>2
<1>4. CASE doc.type \in {"read", "patch"}
  <2>1. ~Refused(tag)
    BY <1>4 DEF LeavesOut, Skips, SomeRefused
  <2>2. tag.kind \in {"read", "patch"}
    BY <1>1, <1>4 DEF TagFits, KindsIn
  <2> QED
    BY <1>1, <2>1, <2>2 DEF Mistaken
<1>5. doc.type # "unknown"
  BY DEF DocRefused
<1> QED
  BY <1>1, <1>2, <1>3, <1>4, <1>5

\* What a document says of a partition.
LEMMA BringsIs ==
    ASSUME NEW kinds, NEW part, NEW doc \in Documents
    PROVE  IF doc.type = "ufs" THEN Brings(kinds, part)[doc] = ""
           ELSE Leaves(doc.tags, Tells(kinds, part), Brings(kinds, part)[doc])
<1>1. Brings(kinds, part)[doc] =
         IF doc.type = "ufs" THEN "" ELSE Leaving(doc.tags, Tells(kinds, part))
  BY DEF Brings
<1>2. CASE doc.type = "ufs"
  BY <1>1, <1>2
<1>3. CASE doc.type # "ufs"
  <2> DEFINE F == Tells(kinds, part)
             s == doc.tags
  <2>1. Len(s) \in Nat
    BY <1>3 DEF Documents
  <2>2. \E v : Leaves(s, F, v)
    <3> HIDE DEF F, s
    <3>1. \A n \in 1..Len(s) : F[s[n]] \in {F[s[k]] : k \in 1..Len(s)}
      OBVIOUS
    <3>2. \E v \in {F[s[k]] : k \in 1..Len(s)} \cup {""} : Lead(s, F, Len(s), v)
      BY <2>1, <3>1, LeadIsOne
    <3> QED
      BY <3>2 DEF Leaves
  <2> HIDE DEF F, s
  <2>3. Leaves(s, F, Leaving(s, F))
    BY <2>2 DEF Leaving
  <2> QED
    BY <1>1, <1>3, <2>3 DEF F, s
<1> QED
  BY <1>2, <1>3

\* The entries of a document do what it says.
LEMMA DocLeaves ==
    ASSUME NEW kinds \in SUBSET ChangingSteps, NEW part, NEW doc, DocFits(doc), doc.type # "ufs",
           ~DocRefused(doc), ~LeavesOut(doc)
    PROVE  Leaves(DocEntries(doc), Puts(kinds, part), Brings(kinds, part)[doc])
<1> DEFINE ss == [n \in 1..Len(doc.tags) |->
                    IF Refused(doc.tags[n]) THEN << >> ELSE Entries(doc.tags[n])]
           F == Puts(kinds, part)
           E == Tells(kinds, part)
           t == doc.tags
<1>1. t \in Seq(DocTags) /\ Len(t) \in Nat
  <2>1. t \in Seq(DocTags)
    BY DEF DocFits, Documents
  <2> QED
    BY <2>1
<1>2. Len(ss) = Len(t) /\ (ss = << >> \/ Len(ss) # 0)
  <2>1. ss \in Seq({ss[n] : n \in 1..Len(doc.tags)})
    BY <1>1, SeqDef
  <2>2. Len(ss) = Len(doc.tags)
    BY <1>1, <2>1, LenProperties
  <2>3. Len(ss) = 0 => ss = << >>
    BY <2>1, EmptySeq
  <2> QED
    BY <2>2, <2>3
<1>3. \A n \in 1..Len(ss) : ss[n] = IF Refused(t[n]) THEN << >> ELSE Entries(t[n])
  BY <1>2
<1>4. DocEntries(doc) = FlattenSeq(ss)
  BY Zenon DEF DocEntries, ss
<1> HIDE DEF ss, F, E
<1>5. ASSUME NEW n \in 1..Len(ss) PROVE ss[n] \in Seq(DocTags) /\ Leaves(ss[n], F, E[t[n]])
  <2>1. /\ t[n] \in DocTags /\ TagFits(doc.type, t[n])
        /\ ~Refused(t[n]) /\ ~Mistaken(t[n])
    BY <1>2, AllTaken
  <2>2. ss[n] = Entries(t[n])
    BY <1>3, <2>1
  <2>3. Entries(t[n]) \in Seq(DocTags)
    BY <2>1, EntriesMade
  <2>4. Leaves(Entries(t[n]), F, E[t[n]])
    BY <2>1, TagLeaves DEF F, E
  <2> QED
    BY <2>2, <2>3, <2>4
<1>6. Leaves(t, E, Brings(kinds, part)[doc])
  BY BringsIs DEF DocFits, E
<1> HIDE DEF t
<1> DEFINE v == Brings(kinds, part)[doc]
<1> HIDE DEF v
<1>7. Leaves(t, E, v)
  BY <1>6 DEF v
<1>8. Leaves(FlattenSeq(ss), F, v)
  BY <1>1, <1>2, <1>5, <1>7, LeavesAll
<1> QED
  BY <1>4, <1>8 DEF v, F

\* What all documents say is what all tags say.
LEMMA AllTells ==
    ASSUME setup \in Setups, NEW kinds, NEW part, NEW v,
           Leaves(LoadOrder, Brings(kinds, part), v)
    PROVE  Leaves(Tags, Tells(kinds, part), v)
<1> DEFINE ss == [d \in 1..Len(LoadOrder) |->
                    IF LoadOrder[d].type = "ufs" THEN << >> ELSE LoadOrder[d].tags]
           F == Tells(kinds, part)
           E == Brings(kinds, part)
<1>1. LoadOrder \in Seq({doc \in Documents : DocFits(doc)}) /\ Len(LoadOrder) \in Nat
  BY OrderFits
<1>2. Len(ss) = Len(LoadOrder) /\ (ss = << >> \/ Len(ss) # 0)
  <2>1. ss \in Seq({ss[d] : d \in 1..Len(LoadOrder)})
    BY <1>1, SeqDef
  <2>2. Len(ss) = Len(LoadOrder)
    BY <1>1, <2>1, LenProperties
  <2>3. Len(ss) = 0 => ss = << >>
    BY <2>1, EmptySeq
  <2> QED
    BY <2>2, <2>3
<1>3. \A d \in 1..Len(ss) :
         ss[d] = IF LoadOrder[d].type = "ufs" THEN << >> ELSE LoadOrder[d].tags
  BY <1>2
<1>4. Tags = FlattenSeq(ss)
  BY Zenon DEF Tags, ss
<1> HIDE DEF ss, F, E
<1>5. ASSUME NEW d \in 1..Len(ss)
      PROVE  ss[d] \in Seq(DocTags) /\ Leaves(ss[d], F, E[LoadOrder[d]])
  <2>1. LoadOrder[d] \in Documents
    BY <1>1, <1>2, ElementOfSeq
  <2>2. CASE LoadOrder[d].type = "ufs"
    <3>1. ss[d] = << >> /\ E[LoadOrder[d]] = ""
      BY <1>3, <2>1, <2>2, BringsIs DEF E
    <3>2. << >> \in Seq(DocTags)
      OBVIOUS
    <3>3. Leaves(<< >>, F, "")
      BY LeavesOne
    <3> QED
      BY <3>1, <3>2, <3>3
  <2>3. CASE LoadOrder[d].type # "ufs"
    <3>1. ss[d] = LoadOrder[d].tags
      BY <1>3, <2>3
    <3>2. LoadOrder[d].tags \in Seq(DocTags)
      BY <2>1, <2>3 DEF Documents
    <3>3. Leaves(LoadOrder[d].tags, F, E[LoadOrder[d]])
      BY <2>1, <2>3, BringsIs DEF E, F
    <3> QED
      BY <3>1, <3>2, <3>3
  <2> QED
    BY <2>2, <2>3
<1>6. Leaves(LoadOrder, E, v)
  BY DEF E
<1>7. \A t : Len(t) = Len(ss) /\ (\A d \in 1..Len(ss) : Leaves(ss[d], F, E[t[d]])) /\ Leaves(t, E, v) =>
         Leaves(FlattenSeq(ss), F, v)
  <2> SUFFICES ASSUME NEW t, Len(t) = Len(ss), \A d \in 1..Len(ss) : Leaves(ss[d], F, E[t[d]]),
                      Leaves(t, E, v)
               PROVE  Leaves(FlattenSeq(ss), F, v)
    OBVIOUS
  <2>1. Len(ss) \in Nat /\ \A d \in 1..Len(ss) : ss[d] \in Seq(DocTags)
    BY <1>1, <1>2, <1>5
  <2> QED
    BY <1>2, <2>1, LeavesAll
<1>8. Leaves(FlattenSeq(ss), F, v)
  BY <1>2, <1>5, <1>6, <1>7
<1> QED
  BY <1>4, <1>8 DEF F

\* What the tags say of a partition is what the last one says that applies.
LEMMA LastTells ==
    ASSUME setup \in Setups, NEW kinds \in SUBSET ChangingSteps, NEW part, NEW v,
           Leaves(Tags, Tells(kinds, part), v)
    PROVE  v = IF LastOf(kinds, part) = 0 THEN "" ELSE Result[Tags[LastOf(kinds, part)].kind]
<1> DEFINE A == Applying(kinds, part)
           F == Tells(kinds, part)
<1>1. Tags \in Seq(DocTags) /\ Len(Tags) \in Nat
  BY TagsAre
<1>2. A \subseteq 1..Len(Tags) /\ \A n \in 1..Len(Tags) : n \in A <=> Applies(Tags[n], kinds, part)
  BY DEF Applying
<1>3. \A n \in 1..Len(Tags) : F[Tags[n]] = IF n \in A THEN Result[Tags[n].kind] ELSE ""
  <2> SUFFICES ASSUME NEW n \in 1..Len(Tags)
               PROVE  F[Tags[n]] = IF n \in A THEN Result[Tags[n].kind] ELSE ""
    OBVIOUS
  <2>1. Tags[n] \in DocTags
    BY <1>1, ElementOfSeq
  <2> QED
    BY <1>2, <2>1 DEF Tells
<1>4. LastOf(kinds, part) = IF A = {} THEN 0 ELSE Max(A)
  BY DEF LastOf
<1>5. ASSUME NEW n \in A PROVE Result[Tags[n].kind] # ""
  <2>1. Tags[n].kind \in ChangingSteps
    BY <1>2 DEF Applies
  <2>2. Result["program"] = "new" /\ Result["erase"] = "erased" /\ Result["patch"] = "patched"
    BY DEF Result
  <2> QED
    BY <2>1, <2>2 DEF ChangingSteps
<1> HIDE DEF A, F
<1>6. CASE A = {}
  <2>1. \A n \in 1..Len(Tags) : F[Tags[n]] = ""
    BY <1>3, <1>6
  <2>2. Lead(Tags, F, Len(Tags), "")
    BY <2>1 DEF Lead
  <2>3. Lead(Tags, F, Len(Tags), v)
    BY DEF Leaves, F
  <2>4. v = ""
    BY <1>1, <2>2, <2>3, LeadIsOne
  <2> QED
    BY <1>4, <1>6, <2>4
<1>7. CASE A # {}
  <2> DEFINE n == Max(A)
  <2>1. n \in A /\ \A x \in A : x <= n
    BY <1>1, <1>2, <1>7, Extremes
  <2> HIDE DEF n
  <2>2. n \in 1..Len(Tags)
    BY <1>2, <2>1
  <2>3. ASSUME NEW m \in (n + 1)..Len(Tags) PROVE F[Tags[m]] = ""
    <3>1. m \in 1..Len(Tags) /\ ~(m <= n)
      BY <2>2
    <3>2. m \notin A
      BY <2>1, <3>1
    <3> QED
      BY <1>3, <3>1, <3>2
  <2>4. F[Tags[n]] = Result[Tags[n].kind] /\ Result[Tags[n].kind] # ""
    BY <1>3, <1>5, <2>1, <2>2
  <2>5. Lead(Tags, F, Len(Tags), Result[Tags[n].kind])
    BY <2>2, <2>3, <2>4 DEF Lead
  <2>6. Lead(Tags, F, Len(Tags), v)
    BY DEF Leaves, F
  <2>7. v = Result[Tags[n].kind]
    BY <1>1, <2>5, <2>6, LeadIsOne
  <2>8. LastOf(kinds, part) = n /\ n # 0
    BY <1>4, <1>7, <2>2 DEF n
  <2> QED
    BY <2>7, <2>8
<1> QED
  BY <1>6, <1>7
-----------------------------------------------------------------------------
(* The invariant of a command to which nothing has happened.               *)
Clean == ret = 0 /\ unsaid = {}

\* The documents that are loaded have put on the lists what they say.
EffectsDue ==
    \A kinds \in SUBSET ChangingSteps : \A part \in Parts :
        \E u : Lead(LoadOrder, Brings(kinds, part), Loaded, u) /\ Leaves(queue, Puts(kinds, part), u)
ListedRead(tag) ==
    \E k \in 1..Len(queue) :
        queue[k].kind = "read" /\ queue[k].live /\ PlaceOf(queue[k]) = PlaceOf(tag)
ReadsDue ==
    \A d \in 1..Loaded : LoadOrder[d].type # "ufs" =>
        \A n \in 1..Len(LoadOrder[d].tags) :
            LoadOrder[d].tags[n].kind = "read" => ListedRead(LoadOrder[d].tags[n])

\* The tables are complete, or complete up to where they are being read.
WholeInv ==
    /\ lun > 0 => steps # << >> /\ Do.do \in TableSteps
    /\ ~Nand =>
        /\ loaded => Covers(cache, Len(Disk))
        /\ IF lun > 0 /\ ~Printing THEN Covers(cache, lun)
           ELSE cache = << >> \/ Covers(cache, Len(Disk))

\* What a step does to a partition, itself or by the steps it leads to.
Concerns(s, part) ==
    (s.do = "each" /\ part \in Parts) \/ (s.do = "find" /\ part = Place(s.label))
Writes(part) ==
    [s \in AllSteps |->
        IF s.do \in ChangingSteps THEN IF s.part = part THEN Result[s.do] ELSE ""
        ELSE IF ~Concerns(s, part) THEN ""
        ELSE IF "program" \in Then(s) THEN "new"
        ELSE IF "erase" \in Then(s) THEN "erased"
        ELSE ""]
Fetches(s, part) ==
    \/ s.do = "read" /\ s.part = part
    \/ s.do = "lun" /\ s.part = part /\ part \in Parts
    \/ Concerns(s, part) /\ "read" \in Then(s)

\* The labels of a flash get their places, and then the steps are planned.
Planning == {"plan", "resolve"}
PlanPending == \E n \in 1..Len(steps) : steps[n].do \in Planning
ToResolve(k) == \E n \in 1..Len(steps) : steps[n].do = "resolve" /\ steps[n].part = << k >>
PlanDue ==
    /\ Untouched
    /\ \A n \in 1..Len(steps) : steps[n].do = (IF n = Len(steps) THEN "plan" ELSE "resolve")
    /\ \A k \in 1..Len(queue) :
          queue[k].gpt # "" => queue[k].part = Place(queue[k].gpt) \/ ToResolve(k)

\* What is asked for is done or is a step that is still to come.
StoreDue ==
    \A part \in Parts : Asked(part) # "old" =>
        \E w : Leaves(steps, Writes(part), w) /\ After(store[part], w) = Asked(part)
BackupsDue ==
    \A n \in 1..Len(Tags) : Tags[n].kind = "read" =>
        \/ PlaceOf(Tags[n]) \in DOMAIN backups
        \/ \E k \in 1..Len(steps) : steps[k].do = "backup" /\ steps[k].part = PlaceOf(Tags[n])
SavedDue ==
    \A part \in Wanted : part \in DOMAIN saved \/ \E n \in 1..Len(steps) : Fetches(steps[n], part)
XmlDue ==
    Cmd = "readall" => DOMAIN names.xml = Parts \/ \E n \in 1..Len(steps) : steps[n].do = "xml"
UfsDue == Provisions /\ steps = << >> => ufs.applied = ufsdoc
WorkDue ==
    /\ IF PlanPending THEN PlanDue ELSE Provisions \/ (StoreDue /\ BackupsDue)
    /\ UfsDue /\ SavedDue /\ XmlDue

PlainInv ==
    /\ ~Flash => ufsdoc = << >> /\ queue = << >>
    /\ Provisions => Untouched
    /\ DOMAIN names = {"ext", "xml"}
DueInv ==
    /\ EffectsDue /\ ReadsDue /\ WholeInv
    /\ pc \in {"work", "close", "exit"} => WorkDue
    /\ pc \in {"close", "exit"} => steps = << >>
ExitInv == PlainInv /\ (Clean => DueInv)
-----------------------------------------------------------------------------
(* What is due does not depend on more than it says.                       *)

\* What a step or a tag does is fixed with the command line.
LEMMA FixedEffects ==
    ASSUME setup' = setup
    PROVE  /\ \A kinds, part : Tells(kinds, part)' = Tells(kinds, part)
           /\ \A kinds, part : Puts(kinds, part)' = Puts(kinds, part)
           /\ \A kinds, part : Brings(kinds, part)' = Brings(kinds, part)
           /\ \A part : Writes(part)' = Writes(part)
           /\ \A s, part : Fetches(s, part)' = Fetches(s, part)
           /\ \A tag : PlaceOf(tag)' = PlaceOf(tag)
           /\ Wanted' = Wanted
<1>1. \A label : Place(label)' = Place(label)
  BY FixedLabel
<1>2. \A tag : PlaceOf(tag)' = PlaceOf(tag)
  BY <1>1 DEF PlaceOf
<1>3. \A kinds, part : Tells(kinds, part)' = Tells(kinds, part)
  BY <1>2 DEF Tells, Applies
<1>4. \A kinds, part : Puts(kinds, part)' = Puts(kinds, part)
  BY <1>2 DEF Puts
<1>5. \A kinds, part : Brings(kinds, part)' = Brings(kinds, part)
  BY <1>3 DEF Brings
<1>6. \A s, part : Concerns(s, part)' = Concerns(s, part)
  BY <1>1, FixedDisk DEF Concerns
<1>7. \A part : Writes(part)' = Writes(part)
  BY <1>6 DEF Writes
<1>8. \A s, part : Fetches(s, part)' = Fetches(s, part)
  BY <1>6, FixedDisk DEF Fetches
<1>9. Wanted' = Wanted
  BY <1>1, FixedDisk DEF Wanted
<1> QED
  BY <1>2, <1>3, <1>4, <1>5, <1>7, <1>8, <1>9

\* While nothing is loaded the lists are as they should be.
LEMMA ListsDue ==
    ASSUME EffectsDue, ReadsDue, setup' = setup, docs' = docs, queue' = queue
    PROVE  EffectsDue' /\ ReadsDue'
<1>1. /\ Loaded' = Loaded /\ LoadOrder' = LoadOrder /\ Parts' = Parts
      /\ \A kinds, part : Puts(kinds, part)' = Puts(kinds, part)
      /\ \A kinds, part : Brings(kinds, part)' = Brings(kinds, part)
      /\ \A tag : PlaceOf(tag)' = PlaceOf(tag)
  BY FixedEffects, FixedLists, FixedDisk DEF Loaded
<1>2. EffectsDue'
  <2> SUFFICES ASSUME NEW kinds \in SUBSET ChangingSteps, NEW part \in Parts
               PROVE  \E u : (Lead(LoadOrder, Brings(kinds, part), Loaded, u)
                              /\ Leaves(queue, Puts(kinds, part), u))'
    BY <1>1 DEF EffectsDue
  <2>1. PICK u : Lead(LoadOrder, Brings(kinds, part), Loaded, u) /\ Leaves(queue, Puts(kinds, part), u)
    BY DEF EffectsDue
  <2>2. Lead(LoadOrder, Brings(kinds, part), Loaded, u)'
    BY <1>1, <2>1 DEF Lead
  <2>3. Leaves(queue, Puts(kinds, part), u)'
    BY <1>1, <2>1 DEF Leaves, Lead
  <2> QED
    BY <2>2, <2>3
<1>3. \A tag : ListedRead(tag) => ListedRead(tag)'
  BY <1>1 DEF ListedRead
<1>4. ReadsDue'
  BY <1>1, <1>3 DEF ReadsDue
<1> QED
  BY <1>2, <1>4

\* When the steps, the tables and what is on the modem stay, so does what is due.
LEMMA NothingNew ==
    ASSUME WorkDue, setup' = setup, UNCHANGED listVars, steps' = steps, store' = store,
           DOMAIN saved \subseteq DOMAIN saved', backups' = backups, names' = names,
           ufs' = ufs
    PROVE  WorkDue'
<1>1. /\ queue' = queue /\ ufsdoc' = ufsdoc /\ Tags' = Tags
      /\ Parts' = Parts /\ Cmd' = Cmd /\ Wanted' = Wanted
      /\ \A part : Writes(part)' = Writes(part)
      /\ \A s, part : Fetches(s, part)' = Fetches(s, part)
      /\ \A tag : PlaceOf(tag)' = PlaceOf(tag)
      /\ \A label : Place(label)' = Place(label)
      /\ \A part : Asked(part)' = Asked(part)
      /\ Provisions' = Provisions
  BY FixedEffects, FixedLists, FixedDisk, FixedLabel, FixedAsked DEF listVars, Provisions
<1>2. PlanPending' <=> PlanPending
  BY DEF PlanPending
<1>3. PlanDue => PlanDue'
  BY <1>1, UntouchedKept DEF PlanDue, ToResolve
<1>4. StoreDue => StoreDue'
  BY <1>1 DEF StoreDue, Leaves, Lead
<1>5. BackupsDue => BackupsDue'
  BY <1>1 DEF BackupsDue
<1>6. UfsDue /\ SavedDue /\ XmlDue => UfsDue' /\ SavedDue' /\ XmlDue'
  BY <1>1 DEF UfsDue, SavedDue, XmlDue
<1> QED
  BY <1>1, <1>2, <1>3, <1>4, <1>5, <1>6 DEF WorkDue
-----------------------------------------------------------------------------
(* The documents are loaded.                                               *)

\* A read that a document asks for is on the list.
LEMMA ReadListed ==
    ASSUME NEW doc, DocFits(doc), doc.type # "ufs", ~DocRefused(doc), ~LeavesOut(doc),
           NEW n \in 1..Len(doc.tags), doc.tags[n].kind = "read"
    PROVE  \E k \in 1..Len(DocEntries(doc)) :
              /\ DocEntries(doc)[k].kind = "read" /\ DocEntries(doc)[k].live
              /\ PlaceOf(DocEntries(doc)[k]) = PlaceOf(doc.tags[n])
<1> DEFINE ss == [m \in 1..Len(doc.tags) |->
                    IF Refused(doc.tags[m]) THEN << >> ELSE Entries(doc.tags[m])]
           tag == doc.tags[n]
<1>1. doc.tags \in Seq(DocTags) /\ Len(doc.tags) \in Nat
  <2>1. doc.tags \in Seq(DocTags)
    BY DEF DocFits, Documents
  <2> QED
    BY <2>1
<1>2. Len(ss) = Len(doc.tags) /\ (ss = << >> \/ Len(ss) # 0)
  <2>1. ss \in Seq({ss[m] : m \in 1..Len(doc.tags)})
    BY <1>1, SeqDef
  <2>2. Len(ss) = Len(doc.tags)
    BY <1>1, <2>1, LenProperties
  <2>3. Len(ss) = 0 => ss = << >>
    BY <2>1, EmptySeq
  <2> QED
    BY <2>2, <2>3
<1>3. \A m \in 1..Len(ss) : ss[m] = Entries(doc.tags[m])
  BY <1>2, AllTaken
<1>4. DocEntries(doc) = FlattenSeq(ss)
  BY Zenon DEF DocEntries, ss
<1> HIDE DEF ss
<1>5. ASSUME NEW m \in 1..Len(ss) PROVE ss[m] \in Seq(DocTags)
  <2>1. ss[m] = Entries(doc.tags[m]) /\ m \in 1..Len(doc.tags)
    BY <1>2, <1>3
  <2>2. doc.tags[m] \in DocTags /\ TagFits(doc.type, doc.tags[m]) /\ ~Refused(doc.tags[m])
    BY <2>1, AllTaken
  <2>3. Entries(doc.tags[m]) \in Seq(DocTags)
    BY <2>2, EntriesMade
  <2> QED
    BY <2>1, <2>3
<1>6. Gathers(FlattenSeq(ss), ss, DocTags, Len(ss))
  BY <1>1, <1>2, <1>5, Flattened
<1>7. /\ Entry(tag, TRUE).kind = "read" /\ Entry(tag, TRUE).live
      /\ Entry(tag, TRUE).gpt = tag.gpt /\ Entry(tag, TRUE).part = tag.part
  <2>1. tag \in DocTags
    BY AllTaken
  <2>2. tag.kind = "read"
    OBVIOUS
  <2> HIDE DEF tag
  <2> QED
    BY <2>1, <2>2 DEF Entry, DocTags
<1>8. n \in 1..Len(ss) /\ Len(ss[n]) = 1 /\ ss[n][1] = Entry(tag, TRUE)
  <2>1. Entries(tag) = << Entry(tag, TRUE) >>
    BY DEF Entries
  <2>2. n \in 1..Len(ss) /\ ss[n] = Entries(tag)
    BY <1>2, <1>3
  <2> QED
    BY <2>1, <2>2
<1>9. \E k \in 1..Len(FlattenSeq(ss)) : FlattenSeq(ss)[k] = ss[n][1]
  <2>1. 1 \in 1..Len(ss[n])
    BY <1>8
  <2> QED
    BY <1>6, <1>8, <2>1 DEF Gathers
<1>10. PlaceOf(Entry(tag, TRUE)) = PlaceOf(tag)
  BY <1>7 DEF PlaceOf
<1> QED
  BY <1>4, <1>7, <1>8, <1>9, <1>10

\* A document that is loaded whole puts on the lists what it says.
LEMMA DocumentDue ==
    ASSUME setup \in Setups, ListsInv, TakenInv, pc = "load", LoadDocument, docs' # docs,
           EffectsDue, ReadsDue, ~LeavesOut(Head(docs))
    PROVE  EffectsDue' /\ ReadsDue'
<1> DEFINE doc == Head(docs)
<1>1. /\ setup' = setup /\ docs # << >> /\ ~DocRefused(doc) /\ Loaded' = Loaded + 1
      /\ Loaded \in Nat /\ Loaded + 1 \in 1..Len(LoadOrder) /\ doc = LoadOrder[Loaded + 1]
      /\ DocFits(doc) /\ doc \in Documents
  BY DocumentLoads, HeadLoaded DEF DocFits
<1>2. queue' = IF doc.type = "ufs" THEN queue ELSE queue \o DocEntries(doc)
  BY <1>1 DEF LoadDocument, listVars
<1>3. queue \in Seq(DocTags) /\ (doc.type # "ufs" => DocEntries(doc) \in Seq(DocTags))
  BY <1>1, DocEntriesMade DEF ListsInv
<1>4. /\ LoadOrder' = LoadOrder /\ Parts' = Parts
      /\ \A kinds, part : Puts(kinds, part)' = Puts(kinds, part)
      /\ \A kinds, part : Brings(kinds, part)' = Brings(kinds, part)
      /\ \A tag : PlaceOf(tag)' = PlaceOf(tag)
  BY <1>1, FixedEffects, FixedLists, FixedDisk
<1>5. EffectsDue'
  <2> SUFFICES ASSUME NEW kinds \in SUBSET ChangingSteps, NEW part \in Parts
               PROVE  \E u : (Lead(LoadOrder, Brings(kinds, part), Loaded, u)
                              /\ Leaves(queue, Puts(kinds, part), u))'
    BY <1>4 DEF EffectsDue
  <2> DEFINE F == Puts(kinds, part)
             E == Brings(kinds, part)
             b == E[doc]
  <2>1. PICK u : Lead(LoadOrder, E, Loaded, u) /\ Leaves(queue, F, u)
    BY DEF EffectsDue
  <2>2. Lead(LoadOrder, E, Loaded + 1, After(u, b))
    <3> HIDE DEF E
    <3>1. Lead(LoadOrder, E, Loaded + 1, After(u, E[LoadOrder[Loaded + 1]]))
      BY <1>1, <2>1, LeadNext
    <3> QED
      BY <1>1, <3>1
  <2>3. Leaves(queue', F, After(u, b))
    <3>1. CASE doc.type = "ufs"
      <4>1. b = ""
        BY <1>1, <3>1, BringsIs
      <4> QED
        BY <1>2, <2>1, <3>1, <4>1 DEF After
    <3>2. CASE doc.type # "ufs"
      <4>1. Leaves(DocEntries(doc), F, b)
        BY <1>1, <3>2, DocLeaves
      <4>2. Leaves(queue \o DocEntries(doc), F, After(u, b))
        <5> HIDE DEF b, F, doc
        <5> QED
          BY <1>3, <2>1, <3>2, <4>1, LeavesBoth
      <4> QED
        BY <1>2, <3>2, <4>2
    <3> QED
      BY <3>1, <3>2
  <2>7. \E x : Lead(LoadOrder, E, Loaded + 1, x) /\ Leaves(queue', F, x)
    BY <2>2, <2>3
  <2>4. PICK x : Lead(LoadOrder, E, Loaded + 1, x) /\ Leaves(queue', F, x)
    BY <2>7
  <2>5. Lead(LoadOrder, E, Loaded, x)'
    BY <1>1, <1>4, <2>4 DEF Lead
  <2>6. Leaves(queue, F, x)'
    BY <1>4, <2>4 DEF Leaves, Lead
  <2> QED
    BY <2>5, <2>6
<1>6. \A tag : ListedRead(tag) => ListedRead(tag)'
  <2> SUFFICES ASSUME NEW tag, NEW k \in 1..Len(queue), queue[k].kind = "read", queue[k].live,
                      PlaceOf(queue[k]) = PlaceOf(tag)
               PROVE  ListedRead(tag)'
    BY DEF ListedRead
  <2>1. k \in 1..Len(queue') /\ queue'[k] = queue[k]
    BY <1>2, <1>3, QueueGrows
  <2> QED
    BY <1>4, <2>1 DEF ListedRead
<1>7. ASSUME doc.type # "ufs", NEW tag, NEW n \in 1..Len(doc.tags), tag = doc.tags[n],
             doc.tags[n].kind = "read"
      PROVE  ListedRead(tag)'
  <2> DEFINE more == DocEntries(doc)
  <2>1. PICK k \in 1..Len(more) :
           more[k].kind = "read" /\ more[k].live /\ PlaceOf(more[k]) = PlaceOf(tag)
    BY <1>1, <1>7, ReadListed
  <2>2. Len(queue) + k \in 1..Len(queue') /\ queue'[Len(queue) + k] = more[k]
    <3> HIDE DEF more
    <3>1. more \in Seq(DocTags) /\ queue' = queue \o more
      BY <1>2, <1>3, <1>7 DEF more
    <3> QED
      BY <1>3, <3>1, QueueGrows
  <2>3. \E j \in 1..Len(queue') :
           queue'[j].kind = "read" /\ queue'[j].live /\ PlaceOf(queue'[j]) = PlaceOf(tag)
    <3> HIDE DEF more
    <3> QED
      BY <2>1, <2>2
  <2> QED
    BY <1>4, <2>3 DEF ListedRead
<1>8. ReadsDue'
  <2> SUFFICES ASSUME NEW d \in 1..(Loaded + 1), LoadOrder[d].type # "ufs",
                      NEW n \in 1..Len(LoadOrder[d].tags), NEW tag, tag = LoadOrder[d].tags[n],
                      tag.kind = "read"
               PROVE  ListedRead(tag)'
    <3>1. \A d \in 1..(Loaded + 1) : LoadOrder[d].type # "ufs" =>
             \A n \in 1..Len(LoadOrder[d].tags) : \A tag :
                tag = LoadOrder[d].tags[n] /\ tag.kind = "read" => ListedRead(tag)'
      OBVIOUS
    <3> QED
      BY <1>1, <1>4, <3>1 DEF ReadsDue
  <2>1. CASE d = Loaded + 1
    BY <1>1, <1>7, <2>1
  <2>2. CASE d # Loaded + 1
    <3>1. d \in 1..Loaded
      BY <1>1, <2>2
    <3> QED
      BY <1>6, <3>1 DEF ReadsDue
  <2> QED
    BY <2>1, <2>2
<1> QED
  BY <1>5, <1>8
-----------------------------------------------------------------------------
(* The steps that leave the work alone.                                    *)

\* Only a flash has documents; what asks for no change keeps everything.
LEMMA NotAsked ==
    ASSUME setup \in Setups, ~Flash
    PROVE  /\ Len(Tags) = 0 /\ ~setup.erase_all
           /\ Cmd \notin {"write", "eraseall", "erase"} => \A part : Asked(part) = "old"
<1>1. setup.docs = << >> /\ ~setup.erase_all
  BY DiskTyped DEF SetupFits, Flash, Cmd
<1>2. \A type : OfType(type) \in Seq(Documents) /\ Len(OfType(type)) = 0
  <2> SUFFICES ASSUME NEW type
               PROVE  OfType(type) \in Seq(Documents) /\ Len(OfType(type)) = 0
    OBVIOUS
  <2> DEFINE s == setup.docs
             K == {n \in 1..Len(setup.docs) : setup.docs[n].type = type}
  <2>1. OfType(type) = Chosen(s, K)
    BY DEF OfType
  <2>2. s \in Seq(Documents)
    BY <1>1
  <2>5. Len(s) = 0
    BY <1>1
  <2> HIDE DEF s, K
  <2>3. /\ Chosen(s, K) \in Seq(Documents)
        /\ \A m \in 1..Len(Chosen(s, K)) : \E n \in 1..Len(s) : n \in K /\ Chosen(s, K)[m] = s[n]
    BY <2>2, ChosenAre
  <2>4. Len(Chosen(s, K)) \in Nat /\ ~(1 \in 1..Len(Chosen(s, K)))
    BY <2>3, <2>5
  <2> QED
    BY <2>1, <2>3, <2>4
<1>3. Len(LoadOrder) = 0
  <2>1. CASE setup.firmware
    <3>1. LoadOrder = OfType("read") \o OfType("program") \o OfType("patch")
      BY <2>1 DEF LoadOrder
    <3> QED
      BY <1>2, <3>1
  <2>2. CASE ~setup.firmware
    BY <1>1, <2>2 DEF LoadOrder
  <2> QED
    BY <2>1, <2>2
<1>4. Len(Tags) = 0
  <2>1. Tags \in Seq(DocTags) /\ ~(1 \in 1..Len(Tags))
    BY <1>3, TagsAre
  <2> QED
    BY <2>1
<1>5. ASSUME Cmd \notin {"write", "eraseall", "erase"}, NEW part PROVE Asked(part) = "old"
  <2>1. \A kinds : LastOf(kinds, part) = 0
    BY <1>4 DEF LastOf, Applying
  <2> QED
    BY <1>1, <1>5, <2>1 DEF Asked
<1> QED
  BY <1>1, <1>4, <1>5

\* The lists, the tables and the work are as they were.
LEMMA DueKept ==
    ASSUME EffectsDue, ReadsDue, WholeInv, UNCHANGED << setup, listVars, work >>
    PROVE  EffectsDue' /\ ReadsDue' /\ WholeInv' /\ (WorkDue => WorkDue')
<1>1. /\ setup' = setup /\ docs' = docs /\ queue' = queue /\ UNCHANGED listVars
      /\ steps' = steps /\ cache' = cache /\ lun' = lun /\ loaded' = loaded /\ store' = store
      /\ saved' = saved /\ backups' = backups /\ names' = names /\ ufs' = ufs
  BY DEF listVars, work, partVars
<1>2. EffectsDue' /\ ReadsDue'
  BY <1>1, ListsDue
<1>3. WholeInv'
  BY <1>1, FixedDisk, FixedRows DEF WholeInv, Do, Printing
<1>4. WorkDue => WorkDue'
  BY <1>1, NothingNew
<1> QED
  BY <1>2, <1>3, <1>4

\* So is what does not depend on the failures.
LEMMA PlainKept ==
    ASSUME PlainInv, setup' = setup, UNCHANGED listVars,
           store' = store \/ ~Provisions, DOMAIN names' = DOMAIN names
    PROVE  PlainInv'
<1>1. queue' = queue /\ ufsdoc' = ufsdoc /\ (Provisions' <=> Provisions)
  BY DEF listVars, Provisions
<1> QED
  BY <1>1, FixedDisk, UntouchedKept DEF PlainInv

\* A command without a session has no work.
LEMMA IdleDue ==
    ASSUME setup \in Setups, PlainInv, Cmd \in {"ramdump", "diag2edl"}, steps = << >>
    PROVE  WorkDue
<1>1. ~Flash /\ ~Provisions
  BY DEF PlainInv, Flash, Provisions
<1>2. Len(Tags) = 0 /\ \A part : Asked(part) = "old"
  BY <1>1, NotAsked
<1>3. StoreDue /\ BackupsDue
  BY <1>2 DEF StoreDue, BackupsDue
<1>4. ~PlanPending
  BY DEF PlanPending
<1>5. Wanted = {}
  BY DEF Wanted
<1>6. UfsDue /\ SavedDue /\ XmlDue
  BY <1>1, <1>5 DEF UfsDue, SavedDue, XmlDue
<1> QED
  BY <1>3, <1>4, <1>6 DEF WorkDue

\* When the program starts nothing is due.
LEMMA InitDue == Init => ExitInv
<1> SUFFICES ASSUME Init PROVE ExitInv
  OBVIOUS
<1>1. /\ setup \in Setups /\ pc = "start" /\ docs = LoadOrder /\ queue = << >> /\ ufsdoc = << >>
      /\ lun = 0 /\ cache = << >> /\ loaded = FALSE /\ names = [ext |-> << >>, xml |-> << >>]
  BY DEF Init, ListsInit, PartInit
<1>2. Loaded = 0
  <2>1. Len(LoadOrder) \in Nat
    BY <1>1, OrderFits
  <2> QED
    BY <1>1, <2>1 DEF Loaded
<1>3. EffectsDue
  <2> SUFFICES ASSUME NEW kinds, NEW part
               PROVE  Lead(LoadOrder, Brings(kinds, part), Loaded, "") /\ Leaves(queue, Puts(kinds, part), "")
    BY DEF EffectsDue
  <2> QED
    BY <1>1, <1>2 DEF Lead, Leaves
<1>4. ReadsDue
  BY <1>2 DEF ReadsDue
<1>5. WholeInv
  BY <1>1 DEF WholeInv
<1>6. PlainInv
  BY <1>1 DEF PlainInv, Provisions
<1> QED
  BY <1>1, <1>3, <1>4, <1>5, <1>6 DEF ExitInv, DueInv

\* Start, and the way to the programmer: what is lost on it is told.
LEMMA ReachDue ==
    ASSUME ChangeInv, ExitInv, Start \/ Reach \/ User
    PROVE  ExitInv'
<1>1. /\ UNCHANGED << setup, listVars, work >> /\ setup' = setup /\ UNCHANGED listVars
      /\ store' = store /\ names' = names
  BY DEF Start, Reach, User, Plug, ScanOther, ScanClaims, ScanCannotClaim, DiagSwitch, DiagToEdl,
         PcieWrite, PcieUploads, PcieFails, ComPrepare, PcieOpens, OpenFails, SaharaRuns,
         SaharaFails, qdlVars, linkConst, listVars, work, partVars
<1>2. PlainInv'
  BY <1>1, PlainKept DEF ExitInv
<1>3. Clean' => Clean
  BY DEF Clean, Start, Reach, User, Plug, ScanOther, ScanClaims, ScanCannotClaim, DiagSwitch, DiagToEdl,
         PcieWrite, PcieUploads, PcieFails, PrepareFailed, ComPrepare, PcieOpens, OpenFails, SaharaRuns,
         AfterSahara, SaharaFails, Goto, Fails, Echoed, qdlVars
<1>4. pc \in {"start", "scan", "prepare", "open", "sahara"}
  BY DEF Start, Reach, User, Plug, ScanOther, ScanClaims, ScanCannotClaim, DiagSwitch, DiagToEdl,
         PcieWrite, PcieUploads, PcieFails, ComPrepare, PcieOpens, OpenFails, SaharaRuns, SaharaFails
<1>5. setup \in Setups /\ steps = << >> /\ steps' = << >>
  BY <1>1, <1>4 DEF ChangeInv, PathInv, Early, Loading, Fresh, work, partVars
<1>6. Clean' /\ pc' \in {"work", "close", "exit"} => Cmd \in {"ramdump", "diag2edl"}
  <2>1. Cmd = "diag2edl" <=> setup.cmd = "diag2edl"
    BY DEF Cmd
  <2> QED
    BY <2>1 DEF Clean, Start, Reach, User, Plug, ScanOther, ScanClaims, ScanCannotClaim, DiagSwitch,
         DiagToEdl, PcieWrite, PcieUploads, PcieFails, PrepareFailed, ComPrepare, PcieOpens, OpenFails,
         SaharaRuns, AfterSahara, SaharaFails, Goto, Fails, Echoed, qdlVars, FirstPc
<1>7. ASSUME Clean' PROVE DueInv'
  <2>1. EffectsDue' /\ ReadsDue' /\ WholeInv' /\ (WorkDue => WorkDue')
    BY <1>1, <1>3, <1>7, DueKept DEF ExitInv, DueInv
  <2>2. pc' \in {"work", "close", "exit"} => WorkDue'
    BY <1>5, <1>6, <1>7, <2>1, IdleDue DEF ExitInv
  <2> QED
    BY <1>5, <2>1, <2>2 DEF DueInv
<1> QED
  BY <1>2, <1>7 DEF ExitInv

\* LoadDocument, CheckFusing, VerifyMd5 and Hang
LEMMA LoadDue ==
    ASSUME ChangeInv, ExitInv, Load
    PROVE  ExitInv'
<1>1. /\ setup \in Setups /\ ListsInv /\ TakenInv /\ setup' = setup /\ pc \in {"load", "fusing"}
      /\ Fresh /\ Flash
  <2>1. pc \in {"load", "fusing"} /\ setup' = setup
    BY DEF Load, LoadDocument, CheckFusing, VerifyMd5, Hang
  <2> QED
    BY <2>1 DEF ChangeInv, PathInv, Early, Loading
<1>2. /\ UNCHANGED work /\ store' = store /\ steps' = steps /\ cache' = cache /\ lun' = lun
      /\ loaded' = loaded /\ names' = names
  BY DEF Load, work, partVars
<1>3. Flash' /\ Untouched'
  BY <1>1, <1>2, FixedDisk, UntouchedKept DEF Fresh
<1>4. PlainInv'
  BY <1>2, <1>3 DEF PlainInv, ExitInv
<1>5. Clean' => Clean
  BY DEF Clean, Load, LoadDocument, CheckFusing, VerifyMd5, Hang, Goto, Fails
<1>6. Clean' => pc' \notin {"work", "close", "exit"}
  BY <1>1 DEF Clean, Load, LoadDocument, CheckFusing, VerifyMd5, Hang, Goto, Fails, FirstPc
<1>7. ASSUME Clean' PROVE EffectsDue' /\ ReadsDue'
  <2>1. EffectsDue /\ ReadsDue
    BY <1>5, <1>7 DEF ExitInv, DueInv
  <2>2. CASE UNCHANGED listVars
    BY <1>1, <2>1, <2>2, ListsDue DEF listVars
  <2>3. CASE ~UNCHANGED listVars
    <3>1. LoadDocument /\ pc = "load" /\ docs # << >> /\ ~DocRefused(Head(docs)) /\ docs' = Tail(docs)
          /\ (LeavesOut(Head(docs)) => unsaid' # {})
      BY <2>3 DEF Load, LoadDocument, CheckFusing, VerifyMd5, Hang
    <3>2. docs' # docs
      <4>1. docs \in Seq({doc \in Documents : DocFits(doc)})
        BY <1>1 DEF ListsInv
      <4>2. Len(Tail(docs)) # Len(docs)
        BY <3>1, <4>1
      <4> QED
        BY <3>1, <4>2
    <3>3. ~LeavesOut(Head(docs))
      BY <1>7, <3>1 DEF Clean
    <3> QED
      BY <1>1, <2>1, <3>1, <3>2, <3>3, DocumentDue
  <2> QED
    BY <2>2, <2>3
<1>8. Clean' => WholeInv'
  <2>1. lun' = 0 /\ cache' = << >> /\ loaded' = FALSE
    BY <1>1, <1>2 DEF Fresh
  <2> QED
    BY <2>1 DEF WholeInv
<1> QED
  BY <1>4, <1>6, <1>7, <1>8 DEF ExitInv, DueInv

\* Worked, Close, and a command that is over
LEMMA EndsDue ==
    ASSUME ChangeInv, ExitInv, Worked \/ Close \/ (Over /\ UNCHANGED vars)
    PROVE  ExitInv'
<1>1. /\ UNCHANGED << setup, listVars, work >> /\ setup' = setup /\ UNCHANGED listVars
      /\ store' = store /\ names' = names /\ steps' = steps /\ (Clean' => Clean)
      /\ pc' \in {"work", "close", "exit"} => pc \in {"work", "close", "exit"}
      /\ pc = "work" => steps = << >>
  BY DEF Worked, Close, Goto, Over, vars, qdlVars, listVars, partVars, work, Clean
<1>2. PlainInv'
  BY <1>1, PlainKept DEF ExitInv
<1>3. ASSUME Clean' PROVE DueInv'
  <2>1. DueInv
    BY <1>1, <1>3 DEF ExitInv
  <2>2. EffectsDue' /\ ReadsDue' /\ WholeInv' /\ (WorkDue => WorkDue')
    BY <1>1, <2>1, DueKept DEF DueInv
  <2> QED
    BY <1>1, <2>1, <2>2 DEF DueInv
<1> QED
  BY <1>2, <1>3 DEF ExitInv
-----------------------------------------------------------------------------
(* A step is done, or gives way to others.                                 *)

\* A failure is seen, in the result or among what is not told.
LEMMA MissIsSeen ==
    ASSUME NEW positive, Misses(positive)
    PROVE  ~Clean'
BY DEF Misses, Clean

\* A step has its table when it ends, unless it needs none.
LEMMA WholeOn ==
    ASSUME WholeInv, lun \in Nat, setup' = setup, cache' = cache, lun' = 0, loaded' = FALSE,
           ~Nand /\ Do.do \in TableSteps => loaded \/ Printing
    PROVE  WholeInv'
<1>1. ~Nand => cache = << >> \/ Covers(cache, Len(Disk))
  BY DEF WholeInv
<1> QED
  BY <1>1, FixedDisk, FixedRows DEF WholeInv

\* More steps do to each partition, to the files and to the lists what the one
\* would have done whose place they take.
StoreOn(more) ==
    \A part \in Parts : \E x :
        /\ Leaves(more, Writes(part), x)
        /\ After(store'[part], x) = After(store[part], Writes(part)[Do])
SavedOn(more) ==
    /\ DOMAIN saved \subseteq DOMAIN saved'
    /\ \A part \in Wanted : Fetches(Do, part) =>
          part \in DOMAIN saved' \/ \E n \in 1..Len(more) : Fetches(more[n], part)
BackupsOn ==
    /\ DOMAIN backups \subseteq DOMAIN backups'
    /\ Do.do = "backup" => Do.part \in DOMAIN backups'
XmlOn ==
    Cmd = "readall" /\ (Do.do = "xml" \/ DOMAIN names.xml = Parts) => DOMAIN names'.xml = Parts
Apiece(more) ==
    /\ setup' = setup /\ UNCHANGED listVars /\ steps # << >>
    /\ Do.do \notin UfsSteps \cup Planning
    /\ more \in Seq(AllSteps) /\ \A n \in 1..Len(more) : more[n].do \notin Planning
    /\ steps' = more \o Tail(steps)
    /\ StoreOn(more) /\ SavedOn(more) /\ BackupsOn /\ XmlOn

\* A step that is still to come is the one that is on, or comes later.
LEMMA StepsNow ==
    ASSUME NEW more \in Seq(AllSteps), steps \in Seq(AllSteps), steps # << >>,
           steps' = more \o Tail(steps)
    PROVE  /\ \A n \in 1..Len(steps) : steps[n] = Do \/ \E k \in 1..Len(steps') : steps'[k] = steps[n]
           /\ \A n \in 1..Len(more) : \E k \in 1..Len(steps') : steps'[k] = more[n]
           /\ \A k \in 1..Len(steps') :
                 (\E n \in 1..Len(more) : steps'[k] = more[n]) \/ \E n \in 1..Len(steps) : steps'[k] = steps[n]
<1> DEFINE t == Tail(steps)
<1>1. /\ t \in Seq(AllSteps) /\ Len(t) = Len(steps) - 1 /\ Len(steps) \in Nat \ {0}
      /\ \A i \in 1..Len(t) : t[i] = steps[i + 1]
      /\ Do = steps[1]
  BY DEF Do
<1> HIDE DEF t
<1>2. /\ steps' = more \o t /\ Len(more \o t) = Len(more) + Len(t)
      /\ Len(more) \in Nat /\ Len(t) \in Nat
      /\ \A n \in 1..(Len(more) + Len(t)) :
            (more \o t)[n] = IF n <= Len(more) THEN more[n] ELSE t[n - Len(more)]
  <2>1. steps' = more \o t
    BY DEF t
  <2> QED
    BY <1>1, <2>1, Joined
<1>3. ASSUME NEW n \in 1..Len(steps), steps[n] # Do
      PROVE  \E k \in 1..Len(steps') : steps'[k] = steps[n]
  <2>1. n - 1 \in 1..Len(t) /\ t[n - 1] = steps[n]
    BY <1>1, <1>3
  <2>2. PICK k \in 1..Len(t) : t[k] = steps[n]
    BY <2>1
  <2>3. /\ Len(more) + k \in 1..(Len(more) + Len(t)) /\ ~(Len(more) + k <= Len(more))
        /\ Len(more) + k - Len(more) = k
    BY <1>2
  <2>4. (more \o t)[Len(more) + k] = t[Len(more) + k - Len(more)]
    BY <1>2, <2>3
  <2>5. Len(more) + k \in 1..Len(steps') /\ steps'[Len(more) + k] = steps[n]
    BY <1>2, <2>2, <2>3, <2>4
  <2> QED
    BY <2>5
<1>4. ASSUME NEW n \in 1..Len(more) PROVE \E k \in 1..Len(steps') : steps'[k] = more[n]
  <2>1. n \in 1..Len(steps') /\ steps'[n] = more[n]
    BY <1>2
  <2> QED
    BY <2>1
<1>5. ASSUME NEW k \in 1..Len(steps')
      PROVE  (\E n \in 1..Len(more) : steps'[k] = more[n]) \/ \E n \in 1..Len(steps) : steps'[k] = steps[n]
  <2>1. CASE k <= Len(more)
    BY <1>2, <2>1
  <2>2. CASE ~(k <= Len(more))
    <3>3. k \in 1..(Len(more) + Len(t)) /\ steps'[k] = (more \o t)[k]
      BY <1>2
    <3>1. k - Len(more) \in 1..Len(t) /\ steps'[k] = t[k - Len(more)]
      BY <1>2, <2>2, <3>3
    <3>2. k - Len(more) + 1 \in 1..Len(steps) /\ t[k - Len(more)] = steps[k - Len(more) + 1]
      BY <1>1, <3>1
    <3> QED
      BY <3>1, <3>2
  <2> QED
    BY <2>1, <2>2
<1> QED
  BY <1>3, <1>4, <1>5

\* What is done by the first step need not be done by the others.
LEMMA StoreGoesOn ==
    ASSUME StoreDue, steps \in Seq(AllSteps), NEW more, Apiece(more)
    PROVE  StoreDue'
<1>1. /\ setup' = setup /\ more \in Seq(AllSteps) /\ steps # << >> /\ steps' = more \o Tail(steps)
  BY DEF Apiece
<1>2. Parts' = Parts /\ \A part : Asked(part)' = Asked(part) /\ Writes(part)' = Writes(part)
  BY <1>1, FixedDisk, FixedAsked, FixedEffects
<1>5. Tail(steps) \in Seq(AllSteps)
  <2>1. \A s \in Seq(AllSteps) : s # << >> => Tail(s) \in Seq(AllSteps)
    OBVIOUS
  <2> QED
    BY <1>1, <2>1
<1>3. ASSUME NEW part \in Parts, Asked(part) # "old"
      PROVE  \E w : Leaves(steps', Writes(part), w) /\ After(store'[part], w) = Asked(part)
  <2> DEFINE F == Writes(part)
  <2>1. PICK w : Leaves(steps, F, w) /\ After(store[part], w) = Asked(part)
    BY <1>3 DEF StoreDue
  <2>2. PICK x : /\ Leaves(more, F, x)
                 /\ After(store'[part], x) = After(store[part], F[Do])
    BY DEF Apiece, StoreOn
  <2> HIDE DEF F
  <2>6. \E v \in {w, ""} : Leaves(Tail(steps), F, v) /\ w = After(F[Head(steps)], v)
    <3>1. Leaves(steps, F, w) /\ steps # << >>
      BY <1>1, <2>1
    <3> QED
      BY <3>1, LeavesRest
  <2>3. PICK v \in {w, ""} : Leaves(Tail(steps), F, v) /\ w = After(F[Do], v)
    BY <2>6 DEF Do
  <2>4. Leaves(steps', F, After(x, v))
    <3> QED
      BY <1>1, <1>5, <2>2, <2>3, LeavesBoth
  <2>5. After(store'[part], After(x, v)) = Asked(part)
    <3> QED
      BY <2>1, <2>2, <2>3 DEF After
  <2> QED
    BY <2>4, <2>5 DEF F
<1>4. StoreDue' <=> \A part \in Parts : Asked(part) # "old" =>
                       \E w : Leaves(steps', Writes(part), w) /\ After(store'[part], w) = Asked(part)
  BY <1>2 DEF StoreDue, Leaves, Lead
<1> QED
  BY <1>3, <1>4

\* The labels of a flash are resolved before anything else is done.
LEMMA NotPending ==
    ASSUME WorkDue, steps \in Seq(AllSteps), steps # << >>, Do.do \notin Planning
    PROVE  ~PlanPending
<1> SUFFICES ASSUME PlanPending PROVE FALSE
  OBVIOUS
<1>1. 1 \in 1..Len(steps) /\ Do = steps[1]
  BY DEF Do
<1>2. PlanDue
  BY DEF WorkDue
<1>3. steps[1].do = "plan" \/ steps[1].do = "resolve"
  BY <1>1, <1>2 DEF PlanDue
<1> QED
  BY <1>1, <1>3 DEF Planning

\* What is asked for is done after the step or still to come, if it was before.
LEMMA WorkOn ==
    ASSUME setup \in Setups, ListsInv, UfsInv, steps \in Seq(Fit), PlainInv, WorkDue,
           NEW more, Apiece(more)
    PROVE  ~Provisions /\ WorkDue'
<1>1. /\ setup' = setup /\ more \in Seq(AllSteps) /\ steps # << >> /\ steps' = more \o Tail(steps)
      /\ UNCHANGED listVars /\ Do.do \notin UfsSteps \cup Planning
      /\ \A n \in 1..Len(more) : more[n].do \notin Planning
      /\ SavedOn(more) /\ BackupsOn /\ XmlOn
  BY DEF Apiece
<1>2. steps \in Seq(AllSteps)
  BY ElementsIn DEF Fit
<1>3. ~Provisions /\ ~Provisions'
  <2>1. ~(Flash /\ Provisions)
    BY <1>1, UfsUntouched
  <2>2. ~Flash => ~Provisions
    BY DEF PlainInv, Provisions
  <2> QED
    BY <1>1, <2>1, <2>2 DEF Provisions, listVars
<1>4. StoreDue /\ BackupsDue /\ SavedDue /\ XmlDue /\ ~PlanPending
  BY <1>1, <1>2, <1>3, NotPending DEF WorkDue
<1>5. /\ \A n \in 1..Len(steps) : steps[n] = Do \/ \E k \in 1..Len(steps') : steps'[k] = steps[n]
      /\ \A n \in 1..Len(more) : \E k \in 1..Len(steps') : steps'[k] = more[n]
      /\ \A k \in 1..Len(steps') :
            (\E n \in 1..Len(more) : steps'[k] = more[n]) \/ \E n \in 1..Len(steps) : steps'[k] = steps[n]
  BY <1>1, <1>2, StepsNow
<1>6. ~PlanPending'
  BY <1>1, <1>4, <1>5 DEF PlanPending
<1>7. StoreDue'
  BY <1>2, <1>4, StoreGoesOn
<1>8. /\ Tags' = Tags /\ Wanted' = Wanted /\ Cmd' = Cmd /\ Parts' = Parts
      /\ \A s, part : Fetches(s, part)' = Fetches(s, part)
      /\ \A tag : PlaceOf(tag)' = PlaceOf(tag)
  BY <1>1, FixedEffects, FixedLists, FixedDisk
<1>9. BackupsDue'
  <2> SUFFICES ASSUME NEW n \in 1..Len(Tags), Tags[n].kind = "read"
               PROVE  \/ PlaceOf(Tags[n]) \in DOMAIN backups'
                      \/ \E k \in 1..Len(steps') : steps'[k].do = "backup" /\ steps'[k].part = PlaceOf(Tags[n])
    BY <1>8 DEF BackupsDue
  <2>1. CASE PlaceOf(Tags[n]) \in DOMAIN backups
    BY <1>1, <2>1 DEF BackupsOn
  <2>2. CASE PlaceOf(Tags[n]) \notin DOMAIN backups
    <3>1. PICK k \in 1..Len(steps) : steps[k].do = "backup" /\ steps[k].part = PlaceOf(Tags[n])
      BY <1>4, <2>2 DEF BackupsDue
    <3>2. CASE steps[k] = Do
      BY <1>1, <3>1, <3>2 DEF BackupsOn
    <3>3. CASE steps[k] # Do
      BY <1>5, <3>1, <3>3
    <3> QED
      BY <3>2, <3>3
  <2> QED
    BY <2>1, <2>2
<1>10. SavedDue'
  <2> SUFFICES ASSUME NEW part \in Wanted
               PROVE  part \in DOMAIN saved' \/ \E n \in 1..Len(steps') : Fetches(steps'[n], part)
    BY <1>8 DEF SavedDue
  <2>1. CASE part \in DOMAIN saved
    BY <1>1, <2>1 DEF SavedOn
  <2>2. CASE part \notin DOMAIN saved
    <3>1. PICK n \in 1..Len(steps) : Fetches(steps[n], part)
      BY <1>4, <2>2 DEF SavedDue
    <3>2. CASE steps[n] = Do
      BY <1>1, <1>5, <3>1, <3>2 DEF SavedOn
    <3>3. CASE steps[n] # Do
      BY <1>5, <3>1, <3>3
    <3> QED
      BY <3>2, <3>3
  <2> QED
    BY <2>1, <2>2
<1>11. XmlDue'
  <2> SUFFICES ASSUME Cmd = "readall"
               PROVE  DOMAIN names'.xml = Parts \/ \E n \in 1..Len(steps') : steps'[n].do = "xml"
    BY <1>8 DEF XmlDue
  <2>1. CASE DOMAIN names.xml = Parts
    BY <1>1, <2>1 DEF XmlOn
  <2>2. CASE DOMAIN names.xml # Parts
    <3>1. PICK n \in 1..Len(steps) : steps[n].do = "xml"
      BY <1>4, <2>2 DEF XmlDue
    <3>2. CASE steps[n] = Do
      BY <1>1, <3>1, <3>2 DEF XmlOn
    <3>3. CASE steps[n] # Do
      <4>1. PICK k \in 1..Len(steps') : steps'[k] = steps[n]
        BY <1>5, <3>3
      <4> QED
        BY <3>1, <4>1
    <3> QED
      BY <3>2, <3>3
  <2> QED
    BY <2>1, <2>2
<1>12. UfsDue'
  BY <1>3 DEF UfsDue
<1> QED
  BY <1>3, <1>6, <1>7, <1>9, <1>10, <1>11, <1>12 DEF WorkDue
-----------------------------------------------------------------------------
(* The steps on the partitions when nothing fails.                         *)

\* What is due when the steps stay as they are.
LEMMA StaysDue ==
    ASSUME DueInv, pc = "work", pc' = "work", setup' = setup, UNCHANGED listVars,
           steps' = steps, store' = store, saved' = saved, backups' = backups, names' = names,
           ufs' = ufs, WholeInv'
    PROVE  DueInv'
<1>1. docs' = docs /\ queue' = queue
  BY DEF listVars
<1>2. EffectsDue' /\ ReadsDue'
  BY <1>1, ListsDue DEF DueInv
<1>3. WorkDue'
  BY NothingNew DEF DueInv
<1> QED
  BY <1>2, <1>3 DEF DueInv

\* What is due when a step has given way to others, or to none.
LEMMA DoneDue ==
    ASSUME ChangeInv, PlainInv, DueInv, pc = "work", pc' = "work", NEW more, Apiece(more),
           cache' = cache, lun' = 0, loaded' = FALSE,
           ~Nand /\ Do.do \in TableSteps => loaded \/ Printing
    PROVE  DueInv'
<1>1. setup' = setup /\ UNCHANGED listVars /\ docs' = docs /\ queue' = queue
  BY DEF Apiece, listVars
<1>2. EffectsDue' /\ ReadsDue'
  BY <1>1, ListsDue DEF DueInv
<1>3. lun \in Nat
  BY DiskTyped DEF ChangeInv, TableInv
<1>4. WholeInv'
  BY <1>1, <1>3, WholeOn DEF DueInv
<1>5. WorkDue'
  BY WorkOn DEF DueInv, ChangeInv
<1> QED
  BY <1>2, <1>4, <1>5 DEF DueInv

\* A step that is neither a change nor a search for partitions writes nothing.
Loud == ChangingSteps \cup {"each", "find"}

\* A step that writes nothing gives way to steps that write nothing.
LEMMA QuietOn ==
    ASSUME steps \in Seq(Fit), steps # << >>, store' = store, NEW more \in Seq(AllSteps),
           Do.do \notin Loud, \A n \in 1..Len(more) : more[n].do \notin Loud
    PROVE  StoreOn(more)
<1>1. \A part : \A s \in AllSteps : s.do \notin Loud => Writes(part)[s] = ""
  BY DEF Writes, Concerns, Loud
<1>2. Do \in AllSteps
  BY StepOn
<1>3. \A n \in 1..Len(more) : more[n] \in AllSteps
  BY ElementOfSeq
<1>4. ASSUME NEW part \in Parts
      PROVE  /\ Leaves(more, Writes(part), "")
             /\ After(store'[part], "") = After(store[part], Writes(part)[Do])
  <2>1. Writes(part)[Do] = "" /\ \A n \in 1..Len(more) : Writes(part)[more[n]] = ""
    BY <1>1, <1>2, <1>3
  <2>2. Leaves(more, Writes(part), "")
    BY <2>1 DEF Leaves, Lead
  <2> QED
    BY <2>1, <2>2
<1> QED
  BY <1>4 DEF StoreOn

Idle == {"print", "slot", "check", "info", "luns", "probe", "power", "bootable"}

\* A step that is done and that only asks.
LEMMA IdleOn ==
    ASSUME steps \in Seq(Fit), steps # << >>, setup' = setup, UNCHANGED listVars, Advance(<< >>),
           store' = store, saved' = saved, backups' = backups, names'.xml = names.xml,
           Do.do \in Idle \/ (Do.do = "lun" /\ Do.part \notin Parts)
    PROVE  Apiece(<< >>) /\ lun' = 0 /\ loaded' = FALSE
<1>1. << >> \in Seq(AllSteps)
  OBVIOUS
<1>2. Do.do \notin UfsSteps \cup Planning \cup {"backup", "xml", "read"} /\ Do.do \notin Loud
  BY DEF Idle, UfsSteps, Planning, Loud, ChangingSteps
<1>3. StoreOn(<< >>)
  <2> DEFINE none == << >>
  <2>1. none \in Seq(AllSteps) /\ \A n \in 1..Len(none) : none[n].do \notin Loud
    OBVIOUS
  <2> HIDE DEF none
  <2>2. StoreOn(none)
    BY <1>2, <2>1, QuietOn
  <2> QED
    BY <2>2 DEF none
<1>4. \A part : ~Fetches(Do, part)
  BY <1>2 DEF Fetches, Concerns, Loud, Idle
<1>5. SavedOn(<< >>) /\ BackupsOn /\ XmlOn
  BY <1>2, <1>4 DEF SavedOn, BackupsOn, XmlOn
<1> QED
  BY <1>1, <1>2, <1>3, <1>5 DEF Apiece, Advance, Planning

\* The list of partitions is complete up to the LUN that is read next.
LEMMA CoversSoFar ==
    ASSUME ChangeInv, WholeInv, Scans, ~Printing, ~Nand
    PROVE  Covers(cache, lun)
<1>1. lun \in Nat /\ setup \in Setups
  BY DiskTyped DEF ChangeInv, TableInv
<1>2. CASE lun > 0
  BY <1>2 DEF WholeInv
<1>3. CASE ~(lun > 0)
  <2>1. lun = 0 /\ cache = << >>
    BY <1>1, <1>3 DEF Scans
  <2> QED
    BY <1>1, <2>1, CoversNone
<1> QED
  BY <1>2, <1>3

\* The next LUN has no table, or its table is read or printed.
LEMMA ScanWhole ==
    ASSUME ChangeInv, WholeInv, setup' = setup, steps' = steps, loaded' = loaded,
           HeaderBlank \/ EntriesRead \/ (EntriesPrinted /\ lun' = lun + 1 /\ cache' = cache)
    PROVE  WholeInv'
<1>1. /\ Scans /\ lun' = lun + 1 /\ lun < Len(Disk) /\ ~loaded /\ steps # << >> /\ Do.do \in TableSteps
      /\ EntriesRead \/ cache' = cache
  BY DEF HeaderBlank, EntriesRead, EntriesPrinted, Scans, GptStep, Tabled, TableSteps
<1>2. setup \in Setups /\ lun \in Nat /\ Len(Disk) \in Nat /\ cache \in Seq(RowSet)
      /\ lun \in 0..(Len(Disk) - 1)
  <2>1. setup \in Setups /\ lun \in 0..Len(Disk) /\ Len(Disk) \in Nat /\ cache \in Seq(RowSet)
    BY DiskTyped DEF ChangeInv, TableInv
  <2> QED
    BY <1>1, <2>1
<1>3. Disk' = Disk /\ (Nand' <=> Nand) /\ Do' = Do /\ (Printing' <=> Printing)
  BY FixedDisk DEF Do, Printing
<1>4. ASSUME ~Nand, ~Printing PROVE Covers(cache', lun + 1)
  <2>1. Covers(cache, lun)
    BY <1>1, <1>4, CoversSoFar
  <2>2. CASE HeaderBlank
    <3>1. Disk[lun + 1].kind = "blank" /\ cache' = cache
      BY <1>4, <2>2 DEF HeaderBlank, KindOf
    <3> QED
      BY <1>2, <1>4, <2>1, <3>1, CoversBlank
  <2>3. CASE EntriesRead
    <3>1. cache' = cache \o Rows(lun + 1)
      BY <2>3 DEF EntriesRead
    <3> QED
      BY <1>2, <2>1, <3>1, CoversNext
  <2>4. ~EntriesPrinted
    BY <1>4 DEF EntriesPrinted
  <2> QED
    BY <2>2, <2>3, <2>4
<1>5. ASSUME ~Nand, Printing PROVE cache' = << >> \/ Covers(cache', Len(Disk))
  <2>1. cache' = cache
    BY <1>1, <1>5 DEF EntriesRead
  <2>2. cache = << >> \/ Covers(cache, Len(Disk))
    BY <1>5 DEF WholeInv
  <2> QED
    BY <2>1, <2>2
<1>6. \A rows, k : Covers(rows, k)' <=> Covers(rows, k)
  BY FixedRows
<1>7. lun' > 0 /\ ~loaded'
  BY <1>1, <1>2
<1>8. ~Nand => IF ~Printing THEN Covers(cache', lun') ELSE cache' = << >> \/ Covers(cache', Len(Disk))
  BY <1>1, <1>4, <1>5
<1> QED
  BY <1>1, <1>3, <1>6, <1>7, <1>8 DEF WholeInv

\* gpt_load_tables(), gpt_print_table() and nand_load_ptable(), when all is read
LEMMA TablesDue ==
    ASSUME ChangeInv, PlainInv, DueInv, UNCHANGED listVars, ufs' = ufs, Tables, Clean'
    PROVE  DueInv'
<1>1. /\ setup' = setup /\ pc = "work" /\ steps # << >> /\ Do.do \in TableSteps /\ Do.do \notin UfsSteps
      /\ ~loaded
      /\ store' = store /\ saved' = saved /\ backups' = backups /\ names' = names
  BY DEF Tables, UseCache, HeaderUnread, HeaderBlank, HeaderInvalid, EntriesRead, EntriesUnread,
         EntriesPrinted, NandTable, NandPrint, NandNoMibib, NandUnread, Scans, GptStep, NandCall, Tabled,
         TableSteps, UfsSteps, dataVars, qdlVars
<1>2. setup \in Setups /\ steps \in Seq(Fit) /\ WholeInv /\ lun \in Nat /\ Len(Disk) \in Nat
  BY DiskTyped DEF ChangeInv, DueInv, TableInv
<1>3. Disk' = Disk /\ (Nand' <=> Nand) /\ \A rows, k : Covers(rows, k)' <=> Covers(rows, k)
  BY <1>1, FixedDisk, FixedRows
<1>4. \A positive : ~Misses(positive)
  BY MissIsSeen
<1>5. CASE UseCache
  <2>1. pc' = "work" /\ steps' = steps /\ cache' = cache /\ lun' = lun /\ lun = 0 /\ cache # << >>
    BY <1>1, <1>5 DEF UseCache, qdlVars
  <2>2. ~Nand => Covers(cache, Len(Disk))
    BY <2>1 DEF WholeInv, DueInv
  <2>3. WholeInv'
    BY <1>3, <2>1, <2>2 DEF WholeInv
  <2> QED
    BY <1>1, <2>1, <2>3, StaysDue
<1>6. CASE HeaderUnread /\ ~Printing
  <2>1. /\ pc' = "work" /\ steps' = steps /\ cache' = cache /\ lun' = 0 /\ lun = Len(Disk) /\ Scans
    <3>1. ~(lun < Len(Disk))
      BY <1>6 DEF HeaderUnread, Clean
    <3>2. lun \in 0..Len(Disk)
      BY DEF ChangeInv, TableInv
    <3>3. lun = Len(Disk)
      BY <1>2, <3>1, <3>2
    <3> QED
      BY <1>1, <1>6, <3>3 DEF HeaderUnread
  <2>2. ~Nand => Covers(cache, Len(Disk))
    BY <1>2, <1>6, <2>1, CoversSoFar
  <2>3. WholeInv'
    BY <1>3, <2>1, <2>2 DEF WholeInv
  <2> QED
    BY <1>1, <2>1, <2>3, StaysDue
<1>7. CASE HeaderUnread /\ Printing
  <2>1. pc' = "work" /\ Advance(<< >>) /\ cache' = cache /\ Do.do \in Idle
    BY <1>1, <1>7 DEF HeaderUnread, Printing, Idle
  <2>2. Apiece(<< >>) /\ lun' = 0 /\ loaded' = FALSE
    BY <1>1, <1>2, <2>1, IdleOn
  <2> QED
    BY <1>1, <1>7, <2>1, <2>2, DoneDue
<1>8. CASE HeaderBlank \/ EntriesRead
  <2>1. pc' = "work" /\ steps' = steps /\ loaded' = loaded
    BY <1>1, <1>8 DEF HeaderBlank, EntriesRead, qdlVars
  <2>2. WholeInv'
    BY <1>1, <1>2, <1>8, <2>1, ScanWhole
  <2> QED
    BY <1>1, <2>1, <2>2, StaysDue
<1>9. CASE EntriesPrinted
  <2>1. pc' = "work" /\ steps' = steps /\ loaded' = loaded /\ lun' = lun + 1 /\ cache' = cache
    BY <1>1, <1>4, <1>9 DEF EntriesPrinted
  <2>2. WholeInv'
    BY <1>1, <1>2, <1>9, <2>1, ScanWhole
  <2> QED
    BY <1>1, <2>1, <2>2, StaysDue
<1>10. CASE NandTable
  <2>1. pc' = "work" /\ steps' = steps /\ cache' = cache /\ lun' = lun /\ Nand
    BY <1>1, <1>10 DEF NandTable, NandCall, qdlVars
  <2>2. WholeInv'
    BY <1>1, <1>3, <2>1 DEF WholeInv, Do
  <2> QED
    BY <1>1, <2>1, <2>2, StaysDue
<1>11. CASE NandPrint
  <2>1. pc' = "work" /\ Advance(<< >>) /\ cache' = cache /\ Do.do \in Idle /\ Printing
    BY <1>1, <1>11 DEF NandPrint, NandCall, Succeeds, Goto, Printing, Idle
  <2>2. Apiece(<< >>) /\ lun' = 0 /\ loaded' = FALSE
    BY <1>1, <1>2, <2>1, IdleOn
  <2> QED
    BY <1>1, <2>1, <2>2, DoneDue
<1>12. ~HeaderInvalid /\ ~EntriesUnread /\ ~NandNoMibib /\ ~NandUnread
  BY <1>4 DEF HeaderInvalid, EntriesUnread, NandNoMibib, NandUnread
<1> QED
  BY <1>5, <1>6, <1>7, <1>8, <1>9, <1>10, <1>11, <1>12 DEF Tables
-----------------------------------------------------------------------------
(* What a label leads to, and each partition of the table.                 *)

\* What is done to the partition when all that follows is done.
Outcome(s) ==
    IF "program" \in Then(s) THEN "new" ELSE IF "erase" \in Then(s) THEN "erased" ELSE ""
Deed == [do \in Words |-> IF do \in ChangingSteps THEN Result[do] ELSE ""]

\* An erase leaves the partition erased, and a program after it new.
LEMMA ErrandLeaves ==
    ASSUME NEW s, s.then \in Errands
    PROVE  /\ Leaves(s.then, Deed, Outcome(s))
           /\ \A n \in 1..Len(s.then) : s.then[n] \in {"probe", "read", "erase", "program"}
           /\ Len(s.then) \in Nat
           /\ "read" \in Then(s) => \E n \in 1..Len(s.then) : s.then[n] = "read"
<1>1. /\ Deed["read"] = "" /\ Deed["probe"] = "" /\ Deed["erase"] = "erased" /\ Deed["program"] = "new"
  <2>1. /\ Result["program"] = "new" /\ Result["erase"] = "erased"
    BY DEF Result
  <2>2. "read" \in Words /\ "probe" \in Words /\ "erase" \in Words /\ "program" \in Words
    BY DEF Words
  <2> QED
    BY <2>1, <2>2 DEF Deed, ChangingSteps
<1> DEFINE t == s.then
<1>2. Then(s) = {t[j] : j \in 1..Len(t)} /\ t \in Errands
  BY DEF Then
<1> HIDE DEF t
<1>7. ASSUME NEW a, Len(t) = 1, t[1] = a PROVE Leaves(t, Deed, Deed[a])
  <2>1. 1..Len(t) = {1} /\ (1 + 1)..Len(t) = {}
    BY <1>7
  <2> QED
    BY <1>7, <2>1 DEF Leaves, Lead
<1>8. ASSUME NEW a, NEW b, Len(t) = 2, t[1] = a, t[2] = b
      PROVE  Leaves(t, Deed, After(Deed[a], Deed[b]))
  <2>1. 1..Len(t) = {1, 2} /\ (1 + 1)..Len(t) = {2} /\ (2 + 1)..Len(t) = {}
    BY <1>8
  <2> QED
    BY <1>8, <2>1 DEF Leaves, Lead, After
<1>3. CASE t = << "read" >>
  <2>1. Len(t) = 1 /\ t[1] = "read"
    BY <1>3
  <2>2. Then(s) = {"read"}
    BY <1>2, <2>1
  <2>3. Outcome(s) = ""
    BY <2>2 DEF Outcome
  <2>4. Leaves(t, Deed, "")
    BY <1>1, <1>7, <2>1
  <2>5. \A n \in 1..Len(t) : t[n] \in {"probe", "read", "erase", "program"}
    BY <2>1
  <2>6. "read" \in Then(s) => \E n \in 1..Len(t) : t[n] = "read"
    BY <1>2
  <2>7. Leaves(t, Deed, Outcome(s))
    BY <2>3, <2>4
  <2>8. Len(t) \in Nat
    BY <2>1
  <2> QED
    BY <2>5, <2>6, <2>7, <2>8 DEF t
<1>4. CASE t = << "probe", "read" >>
  <2>1. Len(t) = 2 /\ t[1] = "probe" /\ t[2] = "read"
    BY <1>4
  <2>2. Then(s) = {"probe", "read"}
    BY <1>2, <2>1
  <2>3. Outcome(s) = ""
    BY <2>2 DEF Outcome
  <2>4. Leaves(t, Deed, "")
    BY <1>1, <1>8, <2>1 DEF After
  <2>5. \A n \in 1..Len(t) : t[n] \in {"probe", "read", "erase", "program"}
    BY <2>1
  <2>6. "read" \in Then(s) => \E n \in 1..Len(t) : t[n] = "read"
    BY <1>2
  <2>7. Leaves(t, Deed, Outcome(s))
    BY <2>3, <2>4
  <2>8. Len(t) \in Nat
    BY <2>1
  <2> QED
    BY <2>5, <2>6, <2>7, <2>8 DEF t
<1>5. CASE t = << "erase" >>
  <2>1. Len(t) = 1 /\ t[1] = "erase"
    BY <1>5
  <2>2. Then(s) = {"erase"}
    BY <1>2, <2>1
  <2>3. Outcome(s) = "erased"
    BY <2>2 DEF Outcome
  <2>4. Leaves(t, Deed, "erased")
    BY <1>1, <1>7, <2>1
  <2>5. \A n \in 1..Len(t) : t[n] \in {"probe", "read", "erase", "program"}
    BY <2>1
  <2>6. "read" \in Then(s) => \E n \in 1..Len(t) : t[n] = "read"
    BY <1>2
  <2>7. Leaves(t, Deed, Outcome(s))
    BY <2>3, <2>4
  <2>8. Len(t) \in Nat
    BY <2>1
  <2> QED
    BY <2>5, <2>6, <2>7, <2>8 DEF t
<1>6. CASE t = << "erase", "program" >>
  <2>1. Len(t) = 2 /\ t[1] = "erase" /\ t[2] = "program"
    BY <1>6
  <2>2. Then(s) = {"erase", "program"}
    BY <1>2, <2>1
  <2>3. Outcome(s) = "new"
    BY <2>2 DEF Outcome
  <2>4. Leaves(t, Deed, "new")
    BY <1>1, <1>8, <2>1 DEF After
  <2>5. \A n \in 1..Len(t) : t[n] \in {"probe", "read", "erase", "program"}
    BY <2>1
  <2>6. "read" \in Then(s) => \E n \in 1..Len(t) : t[n] = "read"
    BY <1>2
  <2>7. Leaves(t, Deed, Outcome(s))
    BY <2>3, <2>4
  <2>8. Len(t) \in Nat
    BY <2>1
  <2> QED
    BY <2>5, <2>6, <2>7, <2>8 DEF t
<1> QED
  BY <1>2, <1>3, <1>4, <1>5, <1>6 DEF Errands

\* Two lists whose elements do the same leave the same.
LEMMA LeavesLike ==
    ASSUME NEW s, NEW F, NEW t, NEW G, NEW v, Len(t) = Len(s), Len(s) \in Nat,
           \A n \in 1..Len(s) : F[s[n]] = G[t[n]], Leaves(t, G, v)
    PROVE  Leaves(s, F, v)
<1>1. CASE v = ""
  BY <1>1 DEF Leaves, Lead
<1>2. CASE v # ""
  <2>1. PICK n \in 1..Len(s) : G[t[n]] = v /\ \A m \in (n + 1)..Len(s) : G[t[m]] = ""
    BY <1>2 DEF Leaves, Lead
  <2>2. \A m \in (n + 1)..Len(s) : m \in 1..Len(s)
    OBVIOUS
  <2>3. F[s[n]] = v /\ \A m \in (n + 1)..Len(s) : F[s[m]] = ""
    BY <2>1, <2>2
  <2> QED
    BY <1>2, <2>3 DEF Leaves, Lead
<1> QED
  BY <1>1, <1>2

\* What follows for a partition is done to it and to no other.
LEMMA StepsForLeave ==
    ASSUME setup \in Setups, steps \in Seq(Fit), steps # << >>, Do.then \in Errands,
           NEW part \in Parts
    PROVE  /\ StepsFor(part) \in Seq(AllSteps)
           /\ \A n \in 1..Len(StepsFor(part)) : StepsFor(part)[n].do \notin Planning
           /\ \A q \in Parts : Leaves(StepsFor(part), Writes(q), IF q = part THEN Outcome(Do) ELSE "")
           /\ "read" \in Then(Do) =>
                 \E n \in 1..Len(StepsFor(part)) : Fetches(StepsFor(part)[n], part)
<1> DEFINE t == Do.then
           s == StepsFor(part)
<1>1. /\ Leaves(t, Deed, Outcome(Do)) /\ Len(t) \in Nat
      /\ \A n \in 1..Len(t) : t[n] \in {"probe", "read", "erase", "program"}
      /\ "read" \in Then(Do) => \E n \in 1..Len(t) : t[n] = "read"
  BY ErrandLeaves
<1>2. part \in Seq(Nat) /\ Do.fails \in Words
  BY PartsAre, StepOn DEF AllSteps
<1>3. s = [n \in 1..Len(t) |-> Step(t[n], part, Do.fails)]
  BY DEF StepsFor
<1>4. \A n \in 1..Len(t) : s[n] = Step(t[n], part, Do.fails)
  BY <1>3
<1>5. ASSUME NEW n \in 1..Len(t)
      PROVE  s[n] \in AllSteps /\ s[n].do = t[n] /\ s[n].part = part
  <2>1. t[n] \in Words /\ "" \in Words
    BY <1>1 DEF Words
  <2>2. \A do \in Words, p \in Seq(Nat), fails \in Words :
           /\ Step(do, p, fails) \in AllSteps
           /\ Step(do, p, fails).do = do /\ Step(do, p, fails).part = p
    <3>1. << >> \in Seq(Words)
      OBVIOUS
    <3> QED
      BY <2>1, <3>1 DEF Step, AllSteps
  <2>3. s[n] = Step(t[n], part, Do.fails) /\ part \in Seq(Nat) /\ Do.fails \in Words
    BY <1>2, <1>4
  <2> HIDE DEF t, s
  <2> DEFINE do == t[n]
             fails == Do.fails
  <2>4. do \in Words /\ fails \in Words /\ s[n] = Step(do, part, fails) /\ part \in Seq(Nat)
    BY <2>1, <2>3
  <2> HIDE DEF do, fails
  <2>5. s[n] \in AllSteps /\ s[n].do = do /\ s[n].part = part
    BY <2>2, <2>4
  <2> QED
    BY <2>5 DEF do
<1>6. s \in Seq(AllSteps) /\ Len(s) = Len(t)
  <2>1. s \in [1..Len(t) -> AllSteps]
    BY <1>3, <1>5
  <2> HIDE DEF s, t
  <2> QED
    BY <1>1, <2>1, SeqDef, LenProperties
<1> HIDE DEF s
<1>7. ASSUME NEW q \in Parts
      PROVE  Leaves(s, Writes(q), IF q = part THEN Outcome(Do) ELSE "")
  <2> DEFINE F == Writes(q)
  <2>1. ASSUME NEW n \in 1..Len(t)
        PROVE  F[s[n]] = IF q = part THEN Deed[t[n]] ELSE ""
    <3>1. /\ s[n] \in AllSteps /\ s[n].do = t[n] /\ s[n].part = part
          /\ t[n] \in {"probe", "read", "erase", "program"} /\ t[n] \in Words
      BY <1>1, <1>5 DEF Words
    <3>2. ~Concerns(s[n], q)
      BY <3>1 DEF Concerns
    <3> HIDE DEF t
    <3> QED
      BY <3>1, <3>2 DEF Writes, Deed
  <2> HIDE DEF F, t
  <2>2. CASE q = part
    BY <1>1, <1>6, <2>1, <2>2, LeavesLike DEF F
  <2>3. CASE q # part
    <3>1. \A n \in 1..Len(s) : F[s[n]] = ""
      BY <1>6, <2>1, <2>3
    <3> QED
      BY <2>3, <3>1 DEF Leaves, Lead, F
  <2> QED
    BY <2>2, <2>3
<1>8. \A n \in 1..Len(s) : s[n].do \notin Planning
  BY <1>1, <1>5, <1>6 DEF Planning
<1>9. "read" \in Then(Do) => \E n \in 1..Len(s) : Fetches(s[n], part)
  BY <1>1, <1>5, <1>6 DEF Fetches
<1> QED
  BY <1>6, <1>7, <1>8, <1>9 DEF s

\* A table that is complete has all partitions.
LEMMA TableWhole ==
    ASSUME ChangeInv, WholeInv, loaded, ~GptOnly
    PROVE  /\ Table \in Seq(RowSet) /\ Len(Table) \in Nat
           /\ {Table[n].part : n \in 1..Len(Table)} = Parts
           /\ Nand => Table = Rows(1)
           /\ ~Nand => Table = cache /\ Covers(cache, Len(Disk))
<1>1. setup \in Setups /\ TableInv
  BY DEF ChangeInv
<1>2. Table \in Seq(RowSet)
  BY <1>1, TableTyped
<1>3. CASE ~Nand
  <2>1. Table = cache /\ Covers(cache, Len(Disk))
    BY <1>3 DEF Table, WholeInv
  <2>2. UpTo(Len(Disk)) = Parts
    BY <1>1, PartsAre DEF UpTo
  <2> QED
    BY <1>2, <1>3, <2>1, <2>2 DEF Covers
<1>4. CASE Nand
  <2>6. Len(Disk) = 1
    BY <1>1, <1>4, DiskTyped DEF SetupFits, Nand, Disk
  <2>1. Len(Disk) = 1 /\ 1 \in 1..Len(Disk)
    BY <2>6
  <2>2. Table = Rows(1)
    BY <1>4 DEF Table
  <2>3. /\ Len(Rows(1)) = Len(Disk[1].parts)
        /\ \A p \in 1..Len(Rows(1)) : Rows(1)[p].part = << 1, p >>
    BY <1>1, <2>1, RowsAre
  <2>4. ASSUME NEW part \in Parts PROVE \E n \in 1..Len(Rows(1)) : Rows(1)[n].part = part
    <3>1. part[1] = 1 /\ part[2] \in 1..Len(Disk[1].parts) /\ part = << part[1], part[2] >>
      BY <1>1, <2>1, PartsAre
    <3> QED
      BY <2>3, <3>1
  <2>5. ASSUME NEW n \in 1..Len(Rows(1)) PROVE Rows(1)[n].part \in Parts
    BY <1>1, <2>1, <2>3, PartsAre
  <2> QED
    BY <1>2, <1>4, <2>2, <2>4, <2>5
<1> QED
  BY <1>3, <1>4

\* A label that is found is at its place.
LEMMA FoundThere ==
    ASSUME ChangeInv, WholeInv, loaded, steps # << >>, Do.do = "find", Found(Do.label)
    PROVE  FoundPart(Do.label) = Place(Do.label) /\ FoundPart(Do.label) \in Parts
<1> DEFINE label == Do.label
<1>1. setup \in Setups /\ ~Flash /\ ~GptOnly
  BY StepOn DEF ChangeInv, Allowed, GptOnly
<1>2. /\ Table \in Seq(RowSet) /\ Len(Table) \in Nat /\ (Nand => Table = Rows(1))
      /\ ~Nand => Table = cache /\ Covers(cache, Len(Disk))
  BY <1>1, TableWhole
<1>3. Cardinality(Matches(label)) = 1 \/ (Nand /\ Matches(label) # {})
  BY DEF Found
<1> HIDE DEF label
<1>4. Matches(label) # {}
  <2>1. Matches(label) \subseteq 1..Len(Table)
    BY DEF Matches, Bearing
  <2> QED
    BY <1>2, <1>3, <2>1, OneOf
<1>5. FoundPart(label) \in Parts
  BY <1>1, <1>2, <1>4, FoundNamed DEF Called
<1>6. FoundPart(label) = Place(label)
  <2>1. CASE Nand
    BY <1>1, <1>2, <1>4, <2>1, FoundOnNand
  <2>2. CASE ~Nand
    <3>1. Len(Disk) \in 0..Len(Disk)
      BY <1>1, DiskTyped
    <3>2. cache \in Seq(RowSet) /\ Table = cache /\ Covers(cache, Len(Disk))
      BY <1>2, <2>2
    <3> QED
      BY <1>1, <1>3, <2>2, <3>1, <3>2, FoundIsPlace
  <2> QED
    BY <2>1, <2>2
<1> QED
  BY <1>5, <1>6 DEF label

\* What a step with a label or for all partitions is to write is its outcome.
LEMMA ErrandWrites ==
    ASSUME NEW s \in AllSteps, s.do \in {"find", "each"}, NEW q
    PROVE  Writes(q)[s] = IF Concerns(s, q) THEN Outcome(s) ELSE ""
BY DEF Writes, Outcome, ChangingSteps

\* What follows when a label is found takes the place of the step.
LEMMA FindOn ==
    ASSUME ChangeInv, setup' = setup, UNCHANGED << listVars, dataVars >>, steps # << >>,
           Do.do = "find", Do.then \in Errands, NEW part \in Parts, part = Place(Do.label),
           steps' = StepsFor(part) \o Tail(steps)
    PROVE  Apiece(StepsFor(part))
<1> DEFINE more == StepsFor(part)
<1>1. /\ more \in Seq(AllSteps) /\ \A n \in 1..Len(more) : more[n].do \notin Planning
      /\ \A q \in Parts : Leaves(more, Writes(q), IF q = part THEN Outcome(Do) ELSE "")
      /\ "read" \in Then(Do) => \E n \in 1..Len(more) : Fetches(more[n], part)
  BY StepsForLeave DEF ChangeInv
<1>2. Do \in AllSteps
  BY StepOn DEF ChangeInv
<1>3. \A q : Concerns(Do, q) <=> q = part
  BY DEF Concerns
<1>4. \A q : Writes(q)[Do] = IF q = part THEN Outcome(Do) ELSE ""
  BY <1>2, <1>3, ErrandWrites
<1> HIDE DEF more
<1>5. store' = store /\ saved' = saved /\ backups' = backups /\ names' = names
  BY DEF dataVars
<1>6. StoreOn(more)
  <2> SUFFICES ASSUME NEW q \in Parts
               PROVE  \E x : /\ Leaves(more, Writes(q), x)
                             /\ After(store'[q], x) = After(store[q], Writes(q)[Do])
    BY DEF StoreOn
  <2>1. Leaves(more, Writes(q), Writes(q)[Do])
    BY <1>1, <1>4
  <2> QED
    BY <1>5, <2>1
<1>7. SavedOn(more)
  <2>1. ASSUME NEW q, Fetches(Do, q) PROVE \E n \in 1..Len(more) : Fetches(more[n], q)
    <3>1. q = part /\ "read" \in Then(Do)
      BY <1>3, <2>1 DEF Fetches
    <3> QED
      BY <1>1, <3>1
  <2> QED
    BY <1>5, <2>1 DEF SavedOn
<1>8. BackupsOn /\ XmlOn
  BY <1>5 DEF BackupsOn, XmlOn
<1> QED
  BY <1>1, <1>6, <1>7, <1>8 DEF Apiece, UfsSteps, Planning, more

\* So does what follows for each partition of a complete table.
LEMMA EachOn ==
    ASSUME ChangeInv, WholeInv, loaded, setup' = setup, UNCHANGED << listVars, dataVars >>,
           steps # << >>, Do.do = "each", Do.then \in Errands, NEW more,
           more = FlattenSeq([n \in 1..Len(Table) |-> StepsFor(Table[n].part)]),
           steps' = more \o Tail(steps)
    PROVE  Apiece(more)
<1> DEFINE ss == [n \in 1..Len(Table) |-> StepsFor(Table[n].part)]
           t == [n \in 1..Len(Table) |-> Table[n].part]
<1>1. setup \in Setups /\ steps \in Seq(Fit) /\ ~GptOnly
  BY DEF ChangeInv, GptOnly
<1>2. Len(Table) \in Nat /\ {Table[n].part : n \in 1..Len(Table)} = Parts
  BY <1>1, TableWhole
<1>3. \A part \in Parts :
         /\ StepsFor(part) \in Seq(AllSteps)
         /\ \A n \in 1..Len(StepsFor(part)) : StepsFor(part)[n].do \notin Planning
         /\ \A q \in Parts : Leaves(StepsFor(part), Writes(q), IF q = part THEN Outcome(Do) ELSE "")
         /\ "read" \in Then(Do) =>
               \E n \in 1..Len(StepsFor(part)) : Fetches(StepsFor(part)[n], part)
  BY <1>1, StepsForLeave
<1>4. /\ \A n \in 1..Len(Table) : ss[n] = StepsFor(t[n]) /\ t[n] \in Parts
      /\ \A part \in Parts : \E n \in 1..Len(Table) : t[n] = part
  BY <1>2
<1>5. Len(ss) = Len(Table) /\ Len(t) = Len(Table) /\ (ss = << >> \/ Len(ss) # 0)
  <2>1. ss \in [1..Len(Table) -> Seq(AllSteps)] /\ t \in [1..Len(Table) -> Parts]
    BY <1>3, <1>4
  <2> HIDE DEF ss, t
  <2>2. ss \in Seq(Seq(AllSteps)) /\ t \in Seq(Parts)
    <3>1. \A T : Len(Table) \in Nat => [1..Len(Table) -> T] \subseteq Seq(T)
      BY SeqDef
    <3> QED
      BY <1>2, <2>1, <3>1
  <2>3. Len(ss) = Len(Table) /\ Len(t) = Len(Table)
    BY <1>2, <2>1, <2>2, LenProperties
  <2>4. Len(ss) = 0 => ss = << >>
    BY <2>2, EmptySeq
  <2> QED
    BY <2>3, <2>4
<1>6. more = FlattenSeq(ss)
  OBVIOUS
<1> HIDE DEF ss, t
<1>7. ASSUME NEW n \in 1..Len(ss)
      PROVE  ss[n] \in Seq(AllSteps) /\ ss[n] = StepsFor(t[n]) /\ t[n] \in Parts
  <2>1. ss[n] = StepsFor(t[n]) /\ t[n] \in Parts
    BY <1>4, <1>5
  <2> QED
    BY <1>3, <2>1
<1>8. Gathers(more, ss, AllSteps, Len(ss))
  BY <1>2, <1>5, <1>6, <1>7, Flattened
<1>9. ASSUME NEW q \in Parts
      PROVE  Leaves(more, Writes(q), Outcome(Do))
  <2> DEFINE E == [part \in Parts |-> IF q = part THEN Outcome(Do) ELSE ""]
             F == Writes(q)
  <2>1. \A part \in Parts : E[part] = IF q = part THEN Outcome(Do) ELSE ""
    OBVIOUS
  <2> HIDE DEF E
  <2>2. Leaves(t, E, Outcome(Do))
    <3>1. \A n \in 1..Len(t) : E[t[n]] \in {"", Outcome(Do)}
      BY <1>4, <1>5, <2>1
    <3>2. \E n \in 1..Len(t) : E[t[n]] = Outcome(Do)
      BY <1>4, <1>5, <2>1
    <3> QED
      BY <1>2, <1>5, <3>1, <3>2, LeavesSame
  <2>3. ASSUME NEW n \in 1..Len(ss) PROVE Leaves(ss[n], F, E[t[n]])
    <3>1. Leaves(StepsFor(t[n]), Writes(q), IF q = t[n] THEN Outcome(Do) ELSE "")
      BY <1>3, <1>7
    <3> QED
      BY <1>7, <2>1, <3>1
  <2> HIDE DEF F
  <2>4. Leaves(FlattenSeq(ss), F, Outcome(Do))
    BY <1>2, <1>5, <1>7, <2>2, <2>3, LeavesAll
  <2> QED
    BY <1>6, <2>4 DEF F
<1>10. Do \in AllSteps /\ \A q \in Parts : Concerns(Do, q)
  BY <1>1, StepOn DEF Concerns
<1>11. \A q \in Parts : Writes(q)[Do] = Outcome(Do)
  BY <1>10, ErrandWrites
<1>12. store' = store /\ saved' = saved /\ backups' = backups /\ names' = names
  BY DEF dataVars
<1>13. StoreOn(more)
  BY <1>9, <1>11, <1>12 DEF StoreOn
<1>14. ASSUME NEW q \in Wanted, Fetches(Do, q)
       PROVE  \E m \in 1..Len(more) : Fetches(more[m], q)
  <2>1. "read" \in Then(Do)
    BY <1>14 DEF Fetches
  <2>2. q \in Parts
    BY <1>14 DEF Fetches, Concerns
  <2>3. PICK n \in 1..Len(ss) : t[n] = q
    BY <1>4, <1>5, <2>2
  <2>4. PICK k \in 1..Len(ss[n]) : Fetches(ss[n][k], q)
    BY <1>3, <1>4, <1>5, <2>1, <2>2, <2>3
  <2>5. PICK m \in 1..Len(more) : more[m] = ss[n][k]
    BY <1>8 DEF Gathers
  <2> QED
    BY <2>4, <2>5
<1>15. SavedOn(more)
  BY <1>12, <1>14 DEF SavedOn
<1>16. ASSUME NEW m \in 1..Len(more) PROVE more[m].do \notin Planning
  <2>1. PICK n \in 1..Len(ss) : \E k \in 1..Len(ss[n]) : more[m] = ss[n][k]
    BY <1>8 DEF Gathers
  <2>2. ss[n] = StepsFor(t[n]) /\ t[n] \in Parts
    BY <1>7
  <2>3. \A k \in 1..Len(ss[n]) : ss[n][k].do \notin Planning
    BY <1>3, <2>2
  <2> QED
    BY <2>1, <2>3
<1>17. BackupsOn /\ XmlOn
  BY <1>12 DEF BackupsOn, XmlOn
<1>18. more \in Seq(AllSteps)
  BY <1>8 DEF Gathers
<1> QED
  BY <1>13, <1>15, <1>16, <1>17, <1>18 DEF Apiece, UfsSteps, Planning

\* gpt_find_by_name() and the errand on what it finds; gpt_read_all_partitions()
\* and gpt_erase_all_partitions(); gpt_make_xml()
LEMMA ErrandsDue ==
    ASSUME ChangeInv, PlainInv, DueInv, UNCHANGED listVars, ufs' = ufs, Clean',
           \/ \E onNand \in BOOLEAN, then \in Errands : WithLabel(onNand, then) \/ ForEach(onNand, then)
           \/ \E onNand : XmlFor(onNand)
    PROVE  DueInv'
<1>1. /\ setup' = setup /\ pc = "work" /\ steps # << >> /\ loaded /\ cache' = cache
      /\ setup \in Setups /\ steps \in Seq(Fit) /\ WholeInv
  BY DEF WithLabel, ForEach, XmlFor, Busy, ChangeInv, DueInv
<1>2. \A positive : ~Misses(positive)
  BY MissIsSeen
<1>3. CASE \E onNand \in BOOLEAN, then \in Errands : WithLabel(onNand, then)
  <2>1. PICK onNand \in BOOLEAN, then \in Errands : WithLabel(onNand, then)
    BY <1>3
  <2>2. /\ Do.do = "find" /\ Do.then \in Errands /\ Found(Do.label) /\ pc' = "work"
        /\ Advance(StepsFor(FoundPart(Do.label))) /\ UNCHANGED dataVars
    BY <1>2, <2>1 DEF WithLabel, Busy, Goto
  <2> DEFINE part == Place(Do.label)
  <2>3. FoundPart(Do.label) = part /\ part \in Parts
    BY <1>1, <2>2, FoundThere
  <2>4. steps' = StepsFor(part) \o Tail(steps) /\ lun' = 0 /\ loaded' = FALSE
    BY <2>2, <2>3 DEF Advance
  <2>5. UNCHANGED << listVars, dataVars >>
    BY <2>2
  <2>6. Apiece(StepsFor(part))
    BY <1>1, <2>2, <2>3, <2>4, <2>5, FindOn
  <2> QED
    BY <1>1, <2>2, <2>4, <2>6, DoneDue
<1>4. CASE \E onNand \in BOOLEAN, then \in Errands : ForEach(onNand, then)
  <2> DEFINE more == FlattenSeq([n \in 1..Len(Table) |-> StepsFor(Table[n].part)])
  <2>1. PICK onNand \in BOOLEAN, then \in Errands : ForEach(onNand, then)
    BY <1>4
  <2>2. /\ Do.do = "each" /\ Do.then \in Errands /\ pc' = "work"
        /\ steps' = more \o Tail(steps) /\ lun' = 0 /\ loaded' = FALSE /\ UNCHANGED dataVars
    BY <2>1 DEF ForEach, Busy, Goto, Advance
  <2>3. UNCHANGED << listVars, dataVars >>
    BY <2>2
  <2>4. Apiece(more)
    BY <1>1, <2>2, <2>3, EachOn
  <2> HIDE DEF more
  <2> QED
    BY <1>1, <2>2, <2>4, DoneDue
<1>5. CASE \E onNand : XmlFor(onNand)
  <2>1. /\ Do.do = "xml" /\ Advance(<< >>) /\ pc' = "work"
        /\ DOMAIN names'.xml = {Table[n].part : n \in 1..Len(Table)}
        /\ store' = store /\ saved' = saved /\ backups' = backups
    <3>1. \/ names' = [names EXCEPT !.xml = [part \in {Table[n].part : n \in 1..Len(Table)} |-> "magic"]]
          \/ \E odd : names' = [names EXCEPT !.xml =
                [part \in {Table[n].part : n \in 1..Len(Table)} |-> IF part = odd THEN "bin" ELSE "magic"]]
      BY <1>2, <1>5 DEF XmlFor
    <3>2. DOMAIN names'.xml = {Table[n].part : n \in 1..Len(Table)}
      <4>1. "xml" \in DOMAIN names
        BY DEF PlainInv
      <4> QED
        BY <3>1, <4>1
    <3> QED
      BY <1>2, <1>5, <3>2 DEF XmlFor, Busy, Succeeds, Goto
  <2>2. DOMAIN names'.xml = Parts
    BY <1>1, <2>1, TableWhole DEF GptOnly
  <2> DEFINE none == << >>
  <2>3. none \in Seq(AllSteps) /\ Len(none) = 0 /\ \A n \in 1..Len(none) : none[n].do \notin Loud
    OBVIOUS
  <2>4. steps' = none \o Tail(steps) /\ lun' = 0 /\ loaded' = FALSE
    BY <2>1 DEF Advance
  <2> HIDE DEF none
  <2>5. Do.do \notin Loud /\ Do.do \notin UfsSteps \cup Planning
    BY <2>1 DEF Loud, ChangingSteps, UfsSteps, Planning
  <2>6. StoreOn(none)
    BY <1>1, <2>1, <2>3, <2>5, QuietOn
  <2>7. SavedOn(none)
    BY <2>1 DEF SavedOn, Fetches, Concerns
  <2>8. BackupsOn /\ XmlOn
    BY <2>1, <2>2 DEF BackupsOn, XmlOn
  <2>9. Apiece(none)
    BY <1>1, <2>3, <2>4, <2>5, <2>6, <2>7, <2>8 DEF Apiece
  <2> QED
    BY <1>1, <2>1, <2>4, <2>9, DoneDue
<1> QED
  BY <1>3, <1>4, <1>5

\* A step that is done and that reads or changes its partition.
LEMMA DeedOn ==
    ASSUME ChangeInv, setup' = setup, UNCHANGED listVars, steps # << >>, Advance(<< >>),
           names' = names,
           \/ /\ Do.do = "read" /\ DOMAIN saved' = {Do.part} \cup DOMAIN saved
              /\ store' = store /\ backups' = backups
           \/ /\ Do.do = "backup" /\ DOMAIN backups' = {Do.part} \cup DOMAIN backups
              /\ store' = store /\ saved' = saved
           \/ /\ Do.do \in ChangingSteps /\ store' = [store EXCEPT ![Do.part] = Result[Do.do]]
              /\ saved' = saved /\ backups' = backups
    PROVE  Apiece(<< >>) /\ lun' = 0 /\ loaded' = FALSE
<1> DEFINE none == << >>
<1>1. none \in Seq(AllSteps) /\ Len(none) = 0 /\ \A n \in 1..Len(none) : none[n].do \notin Loud
  OBVIOUS
<1>2. steps' = none \o Tail(steps) /\ lun' = 0 /\ loaded' = FALSE
  BY DEF Advance
<1> HIDE DEF none
<1>3. steps \in Seq(Fit) /\ Do \in AllSteps /\ DOMAIN store = Parts
  BY StepOn DEF ChangeInv, StoreInv
<1>4. Do.do \notin UfsSteps \cup Planning \cup {"xml", "find", "each"}
  BY DEF ChangingSteps, UfsSteps, Planning
<1>5. StoreOn(none)
  <2>1. CASE Do.do \in {"read", "backup"}
    <3>1. Do.do \notin Loud /\ store' = store
      BY <2>1 DEF Loud, ChangingSteps
    <3> QED
      BY <1>1, <1>3, <3>1, QuietOn
  <2>2. CASE Do.do \in ChangingSteps
    <3>1. store' = [store EXCEPT ![Do.part] = Result[Do.do]]
      BY <2>2 DEF ChangingSteps
    <3>2. Result[Do.do] # ""
      <4>1. Result["program"] = "new" /\ Result["erase"] = "erased" /\ Result["patch"] = "patched"
        BY DEF Result
      <4> QED
        BY <2>2, <4>1 DEF ChangingSteps
    <3>3. \A part : Writes(part)[Do] = IF Do.part = part THEN Result[Do.do] ELSE ""
      BY <1>3, <2>2 DEF Writes
    <3>4. \A part : Leaves(none, Writes(part), "")
      BY <1>1 DEF Leaves, Lead
    <3>5. \A part \in Parts : store'[part] = IF Do.part = part THEN Result[Do.do] ELSE store[part]
      BY <1>3, <3>1
    <3>6. \A part \in Parts : After(store'[part], "") = After(store[part], Writes(part)[Do])
      BY <3>2, <3>3, <3>5 DEF After
    <3> QED
      BY <3>4, <3>6 DEF StoreOn
  <2> QED
    BY <2>1, <2>2
<1>6. SavedOn(none)
  BY <1>4 DEF SavedOn, Fetches, Concerns, ChangingSteps
<1>7. BackupsOn /\ XmlOn
  BY <1>4 DEF BackupsOn, XmlOn, ChangingSteps
<1>8. Apiece(none)
  BY <1>1, <1>2, <1>3, <1>4, <1>5, <1>6, <1>7 DEF Apiece
<1> QED
  BY <1>2, <1>8 DEF none

\* The steps that only ask.
LEMMA IdleSteps ==
    ASSUME ActiveSlot \/ Check \/ StorageInfo \/ CountLuns \/ Probe \/ Power, Clean'
    PROVE  /\ setup' = setup /\ pc = "work" /\ pc' = "work" /\ steps # << >> /\ Do.do \in Idle
           /\ Advance(<< >>) /\ cache' = cache /\ (Do.do \in TableSteps => loaded)
           /\ store' = store /\ saved' = saved /\ backups' = backups
           /\ names' = names \/ \E e : names' = [names EXCEPT !.ext = e]
<1>1. \A positive : ~Misses(positive)
  BY MissIsSeen
<1>2. CASE ActiveSlot
  BY <1>1, <1>2 DEF ActiveSlot, Busy, Succeeds, Goto, Idle, dataVars
<1>3. CASE Check
  <2>1. ret = 0
    BY <1>3 DEF Check, Clean, Goto
  <2> QED
    BY <1>3, <2>1 DEF Check, Busy, Succeeds, Goto, Idle, dataVars, TableSteps
<1>4. CASE StorageInfo
  BY <1>1, <1>4 DEF StorageInfo, Busy, Succeeds, Goto, Idle, dataVars, TableSteps
<1>5. CASE CountLuns
  BY <1>1, <1>5 DEF CountLuns, Busy, Succeeds, Goto, Idle, dataVars, TableSteps
<1>6. CASE Probe
  BY <1>6 DEF Probe, Busy, Succeeds, Goto, Idle, TableSteps
<1>7. CASE Power
  <2>1. unsaid' # unsaid \cup {"power"}
    BY DEF Clean
  <2> QED
    BY <1>1, <1>7, <2>1 DEF Power, Busy, Succeeds, Goto, Idle, dataVars, TableSteps
<1> QED
  BY <1>2, <1>3, <1>4, <1>5, <1>6, <1>7

\* The device commands, when they are done
LEMMA DeedsDue ==
    ASSUME ChangeInv, PlainInv, DueInv, UNCHANGED listVars, ufs' = ufs, Clean',
           \/ ActiveSlot \/ Check \/ StorageInfo \/ CountLuns \/ Probe \/ Power
           \/ OpenFile \/ ReadSectors \/ ReadBreaks \/ Backup \/ Erase \/ Patch \/ Program
    PROVE  DueInv'
<1>1. \A positive : ~Misses(positive)
  BY MissIsSeen
<1>2. setup \in Setups /\ steps \in Seq(Fit) /\ WholeInv /\ DOMAIN names = {"ext", "xml"}
  BY DEF ChangeInv, DueInv, PlainInv
<1>3. CASE ActiveSlot \/ Check \/ StorageInfo \/ CountLuns \/ Probe \/ Power
  <2>1. /\ setup' = setup /\ pc = "work" /\ pc' = "work" /\ steps # << >> /\ Do.do \in Idle
        /\ Advance(<< >>) /\ cache' = cache /\ (Do.do \in TableSteps => loaded)
        /\ store' = store /\ saved' = saved /\ backups' = backups
        /\ names' = names \/ \E e : names' = [names EXCEPT !.ext = e]
    BY <1>3, IdleSteps
  <2>2. names'.xml = names.xml
    BY <1>2, <2>1
  <2>3. Apiece(<< >>) /\ lun' = 0 /\ loaded' = FALSE
    BY <1>2, <2>1, <2>2, IdleOn
  <2> QED
    BY <2>1, <2>3, DoneDue
<1>4. CASE /\ OpenFile \/ ReadBreaks
           /\ UNCHANGED << setup, pc, steps, cache, lun, loaded, store, saved, backups, names >>
  <2>1. pc = "work"
    BY <1>4 DEF OpenFile, ReadBreaks, Busy
  <2>2. WholeInv'
    BY <1>2, <1>4, FixedDisk, FixedRows DEF WholeInv, Do, Printing
  <2> QED
    BY <1>4, <2>1, <2>2, StaysDue
<1>5. OpenFile \/ ReadBreaks =>
         UNCHANGED << setup, pc, steps, cache, lun, loaded, store, saved, backups, names >>
  BY <1>1 DEF OpenFile, ReadBreaks
<1>6. CASE ReadSectors \/ Backup \/ Erase \/ Patch \/ Program
  <2>1. /\ setup' = setup /\ pc = "work" /\ pc' = "work" /\ steps # << >>
        /\ Advance(<< >>) /\ cache' = cache /\ names' = names /\ Do.do \notin TableSteps
    BY <1>1, <1>6 DEF ReadSectors, Backup, Erase, Patch, Program, Changes, Busy, Succeeds, Goto, TableSteps
  <2>2. CASE ReadSectors
    <3>1. Do.do = "read" /\ store' = store /\ backups' = backups
          /\ DOMAIN saved' = {Do.part} \cup DOMAIN saved
      BY <2>2 DEF ReadSectors, Busy, Put
    <3>2. Apiece(<< >>) /\ lun' = 0 /\ loaded' = FALSE
      BY <2>1, <3>1, DeedOn
    <3> QED
      BY <2>1, <3>2, DoneDue
  <2>3. CASE Backup
    <3>1. Do.do = "backup" /\ store' = store /\ saved' = saved
          /\ DOMAIN backups' = {Do.part} \cup DOMAIN backups
      BY <1>1, <2>3 DEF Backup, Busy, Put
    <3>2. Apiece(<< >>) /\ lun' = 0 /\ loaded' = FALSE
      BY <2>1, <3>1, DeedOn
    <3> QED
      BY <2>1, <3>2, DoneDue
  <2>4. CASE Erase \/ Patch \/ Program
    <3>1. Result["program"] = "new" /\ Result["erase"] = "erased" /\ Result["patch"] = "patched"
      BY DEF Result
    <3>2. Do.do \in ChangingSteps /\ store' = [store EXCEPT ![Do.part] = Result[Do.do]]
          /\ saved' = saved /\ backups' = backups
      BY <1>1, <2>4, <3>1 DEF Erase, Patch, Program, Changes, Busy, ChangingSteps
    <3>3. Apiece(<< >>) /\ lun' = 0 /\ loaded' = FALSE
      BY <2>1, <3>2, DeedOn
    <3> QED
      BY <2>1, <3>3, DoneDue
  <2> QED
    BY <1>6, <2>2, <2>3, <2>4
<1> QED
  BY <1>3, <1>4, <1>5, <1>6

\* Each step on the partitions keeps what is due, or its failure is seen.
LEMMA WorkKeepsDue ==
    ASSUME ChangeInv, ExitInv, Work
    PROVE  ExitInv'
<1>1. PartitionStep /\ UNCHANGED listVars /\ ufs' = ufs
  BY DEF Work, listVars
<1>2. Same /\ setup \in Setups /\ steps \in Seq(Fit)
  BY <1>1, StepsKinds DEF ChangeInv
<1>3. ~Provisions
  <2>1. ~(Flash /\ Provisions)
    BY <1>2, UfsUntouched DEF ChangeInv, Same
  <2> QED
    BY <2>1 DEF ExitInv, PlainInv, Provisions
<1>4. names' = names \/ \E e : names' = [names EXCEPT !.ext = e] \/ names' = [names EXCEPT !.xml = e]
  BY <1>1 DEF PartitionStep, Tables, UseCache, HeaderUnread, HeaderBlank, HeaderInvalid, EntriesRead,
         EntriesUnread, EntriesPrinted, NandTable, NandPrint, NandNoMibib, NandUnread,
         GptReadPartition, GptReadToDir, GptErasePartition, GptWritePartition, GptReadAll, GptEraseAll,
         GptMakeXml, NandReadPartition, NandReadToDir, NandErasePartition, NandWritePartition,
         NandReadAll, NandEraseAll, NandMakeXml, WithLabel, ForEach, XmlFor, NoDirectory, ActiveSlot,
         SetSlot, Check, StorageInfo, CountLuns, Probe, OpenFile, ReadSectors, ReadBreaks, HostDiskFull,
         Backup, Erase, Patch, Program, Changes, ImageMissing, Power, dataVars
<1>5. DOMAIN names' = DOMAIN names
  BY <1>4
<1>6. PlainInv'
  BY <1>1, <1>2, <1>3, <1>5, PlainKept DEF ExitInv, Same
<1>7. ASSUME Clean' PROVE DueInv'
  <2>1. \A positive : ~Misses(positive)
    BY <1>7, MissIsSeen
  <2>2. unsaid' = {} /\ ret' = 0
    BY <1>7 DEF Clean
  <2>3. ~(NoDirectory \/ SetSlot \/ HostDiskFull \/ ImageMissing)
    <3>1. ~NoDirectory /\ ~SetSlot /\ ~ImageMissing
      BY <2>1 DEF NoDirectory, SetSlot, ImageMissing
    <3>2. HostDiskFull => ret' = 1
      BY DEF HostDiskFull
    <3> QED
      BY <2>2, <3>1, <3>2
  <2>4. Clean
    <3>1. ret = 0
      BY <1>2, <2>2 DEF Same
    <3>2. unsaid \subseteq unsaid'
      BY <1>1, <2>1, <2>3 DEF PartitionStep, Tables, UseCache, HeaderUnread, HeaderBlank, HeaderInvalid,
         EntriesRead, EntriesUnread, EntriesPrinted, NandTable, NandPrint, NandNoMibib, NandUnread,
         GptReadPartition, GptReadToDir, GptErasePartition, GptWritePartition, GptReadAll, GptEraseAll,
         GptMakeXml, NandReadPartition, NandReadToDir, NandErasePartition, NandWritePartition,
         NandReadAll, NandEraseAll, NandMakeXml, WithLabel, ForEach, XmlFor, ActiveSlot,
         Check, StorageInfo, CountLuns, Probe, OpenFile, ReadSectors, ReadBreaks,
         Backup, Erase, Patch, Program, Changes, Power, Succeeds, Goto, qdlVars
    <3> QED
      BY <2>2, <3>1, <3>2 DEF Clean
  <2>5. PlainInv /\ DueInv
    BY <2>4 DEF ExitInv
  <2>6. CASE Tables
    BY <1>1, <1>7, <2>5, <2>6, TablesDue
  <2>7. CASE \/ GptReadPartition \/ GptReadToDir \/ GptErasePartition \/ GptWritePartition
             \/ GptReadAll \/ GptEraseAll \/ GptMakeXml
             \/ NandReadPartition \/ NandReadToDir \/ NandErasePartition \/ NandWritePartition
             \/ NandReadAll \/ NandEraseAll \/ NandMakeXml
    <3>1. \/ \E onNand \in BOOLEAN, then \in Errands : WithLabel(onNand, then) \/ ForEach(onNand, then)
          \/ \E onNand : XmlFor(onNand)
      <4>1. /\ << "read" >> \in Errands /\ << "probe", "read" >> \in Errands
            /\ << "erase" >> \in Errands /\ << "erase", "program" >> \in Errands
        BY DEF Errands
      <4>2. /\ GptReadPartition => WithLabel(FALSE, << "read" >>)
            /\ GptReadToDir => WithLabel(FALSE, << "probe", "read" >>)
            /\ GptErasePartition => WithLabel(FALSE, << "erase" >>)
            /\ GptWritePartition => WithLabel(FALSE, << "erase", "program" >>)
            /\ GptReadAll => ForEach(FALSE, << "probe", "read" >>)
            /\ GptEraseAll => ForEach(FALSE, << "erase" >>)
            /\ GptMakeXml => XmlFor(FALSE)
        BY DEF GptReadPartition, GptReadToDir, GptErasePartition, GptWritePartition, GptReadAll,
               GptEraseAll, GptMakeXml
      <4>3. /\ NandReadPartition => WithLabel(TRUE, << "read" >>)
            /\ NandReadToDir => WithLabel(TRUE, << "probe", "read" >>)
            /\ NandErasePartition => WithLabel(TRUE, << "erase" >>)
            /\ NandWritePartition => WithLabel(TRUE, << "erase", "program" >>)
            /\ NandReadAll => ForEach(TRUE, << "probe", "read" >>)
            /\ NandEraseAll => ForEach(TRUE, << "erase" >>)
            /\ NandMakeXml => XmlFor(TRUE)
        BY DEF NandReadPartition, NandReadToDir, NandErasePartition, NandWritePartition, NandReadAll,
               NandEraseAll, NandMakeXml
      <4> DEFINE Led ==
                     \E onNand \in BOOLEAN, then \in Errands : WithLabel(onNand, then) \/ ForEach(onNand, then)
      <4>4. \A then : \A onNand \in BOOLEAN :
               then \in Errands /\ (WithLabel(onNand, then) \/ ForEach(onNand, then)) => Led
        OBVIOUS
      <4> HIDE DEF Led
      <4>5. /\ GptReadPartition \/ GptReadToDir \/ GptErasePartition \/ GptWritePartition => Led
            /\ GptReadAll \/ GptEraseAll => Led
        BY <4>1, <4>2, <4>4
      <4>6. /\ NandReadPartition \/ NandReadToDir \/ NandErasePartition \/ NandWritePartition => Led
            /\ NandReadAll \/ NandEraseAll => Led
        BY <4>1, <4>3, <4>4
      <4>7. GptMakeXml \/ NandMakeXml => \E onNand : XmlFor(onNand)
        BY <4>2, <4>3
      <4> QED
        BY <2>7, <4>5, <4>6, <4>7 DEF Led
    <3> QED
      BY <1>1, <1>7, <2>5, <3>1, ErrandsDue
  <2>8. CASE \/ ActiveSlot \/ Check \/ StorageInfo \/ CountLuns \/ Probe \/ Power
             \/ OpenFile \/ ReadSectors \/ ReadBreaks \/ Backup \/ Erase \/ Patch \/ Program
    BY <1>1, <1>7, <2>5, <2>8, DeedsDue
  <2> QED
    BY <1>1, <2>3, <2>6, <2>7, <2>8 DEF PartitionStep
<1> QED
  BY <1>6, <1>7 DEF ExitInv
-----------------------------------------------------------------------------
(* The other steps of a session.                                           *)

\* gpt_read_full_storage() and firehose_set_bootable()
LEMMA SideDue ==
    ASSUME ChangeInv, ExitInv, SetBootable \/ LunInfo
    PROVE  ExitInv'
<1>1. /\ setup' = setup /\ UNCHANGED listVars /\ UNCHANGED << cache, dataVars >>
      /\ pc = "work" /\ steps # << >> /\ Do.do \in {"bootable", "lun"}
      /\ setup \in Setups /\ steps \in Seq(Fit)
  BY DEF SetBootable, LunInfo, Busy, ChangeInv
<1>2. PlainInv'
  BY <1>1, PlainKept DEF ExitInv, dataVars
<1>3. ASSUME Clean' PROVE DueInv'
  <2>1. \A positive : ~Misses(positive)
    BY <1>3, MissIsSeen
  <2>2. \/ Advance(<< >>) /\ (Do.do = "bootable" \/ (Do.do = "lun" /\ Do.part \notin Parts))
        \/ Do.do = "lun" /\ Do.part \in Parts /\ Advance(<< Step("read", Do.part, "skip") >>)
    BY <2>1 DEF SetBootable, LunInfo, Busy, Succeeds
  <2>3. pc' = "work" /\ ret' = ret /\ unsaid' = unsaid
    BY <2>1 DEF SetBootable, LunInfo, Succeeds, Goto
  <2>4. PlainInv /\ DueInv
    BY <1>3, <2>3 DEF ExitInv, Clean
  <2>5. Do.do \notin TableSteps /\ Do.do \notin UfsSteps \cup Planning \cup {"backup", "xml", "read"} /\ Do.do \notin Loud
    BY <1>1 DEF TableSteps, UfsSteps, Planning, Loud, ChangingSteps
  <2>6. \E more : Apiece(more) /\ lun' = 0 /\ loaded' = FALSE
    <3>1. CASE Advance(<< >>) /\ (Do.do = "bootable" \/ (Do.do = "lun" /\ Do.part \notin Parts))
      <4>1. Do.do \in Idle \/ (Do.do = "lun" /\ Do.part \notin Parts)
        BY <3>1 DEF Idle
      <4> QED
        BY <1>1, <3>1, <4>1, IdleOn DEF dataVars
    <3>2. CASE Do.do = "lun" /\ Do.part \in Parts /\ Advance(<< Step("read", Do.part, "skip") >>)
      <4> DEFINE s == Step("read", Do.part, "skip")
                 more == << s >>
      <4>1. s \in AllSteps /\ s.do = "read" /\ s.part = Do.part
        <5>1. Do.part \in Seq(Nat)
          BY <1>1, <3>2, PartsAre
        <5> QED
          BY <5>1 DEF Step, AllSteps, Words
      <4>2. steps' = more \o Tail(steps) /\ lun' = 0 /\ loaded' = FALSE
        BY <3>2 DEF Advance
      <4> HIDE DEF s
      <4>3. more \in Seq(AllSteps) /\ Len(more) = 1 /\ more[1] = s
        BY <4>1
      <4> HIDE DEF more
      <4>4. \A n \in 1..Len(more) : more[n].do \notin Loud /\ more[n].do \notin Planning
        BY <4>1, <4>3 DEF Loud, ChangingSteps, Planning
      <4>5. StoreOn(more)
        BY <1>1, <2>5, <4>3, <4>4, QuietOn DEF dataVars
      <4>6. SavedOn(more)
        <5>1. ASSUME NEW part, Fetches(Do, part) PROVE Fetches(more[1], part)
          <6>1. Do.part = part
            BY <3>2, <5>1 DEF Fetches, Concerns
          <6> QED
            BY <4>1, <4>3, <6>1 DEF Fetches
        <5>2. 1 \in 1..Len(more)
          BY <4>3
        <5> QED
          BY <1>1, <5>1, <5>2 DEF SavedOn, dataVars
      <4>7. BackupsOn /\ XmlOn
        BY <1>1, <2>5 DEF BackupsOn, XmlOn, dataVars
      <4> QED
        BY <1>1, <2>5, <4>2, <4>3, <4>4, <4>5, <4>6, <4>7 DEF Apiece
    <3> QED
      BY <2>2, <3>1, <3>2
  <2>7. PICK more : Apiece(more) /\ lun' = 0 /\ loaded' = FALSE
    BY <2>6
  <2> QED
    BY <1>1, <2>3, <2>4, <2>5, <2>7, DoneDue
<1> QED
  BY <1>2, <1>3 DEF ExitInv

\* firehose_apply_ufs_common(), _body() and _epilogue(): with the last tag all
\* are applied.
LEMMA SendDue ==
    ASSUME ChangeInv, ExitInv, SendUfs
    PROVE  ExitInv'
<1>1. /\ setup' = setup /\ UNCHANGED listVars /\ UNCHANGED << cache, dataVars >>
      /\ pc = "work" /\ steps # << >> /\ Do.do \in UfsSteps /\ queue' = queue /\ ufsdoc' = ufsdoc
      /\ setup \in Setups /\ steps \in Seq(Fit) /\ ListsInv /\ UfsInv
  BY DEF SendUfs, Busy, ChangeInv, UfsSteps, listVars
<1>2. PlainInv'
  BY <1>1, PlainKept DEF ExitInv, dataVars
<1>3. ASSUME Clean' PROVE DueInv'
  <2>1. \A positive : ~Misses(positive)
    BY <1>3, MissIsSeen
  <2>2. Succeeds /\ UfsEnd(Append(ufs.staged, Do.label))
    BY <2>1 DEF SendUfs, UfsEnd
  <2>3. pc' = "work" /\ ret' = ret /\ unsaid' = unsaid /\ steps' = Tail(steps) /\ lun' = 0 /\ loaded' = FALSE
    BY <1>1, <2>2, GoesOn DEF Succeeds, Advance, Goto
  <2>4. PlainInv /\ DueInv
    BY <1>3, <2>3 DEF ExitInv, Clean
  <2>5. Flash /\ Provisions
    BY <1>1, StepOn DEF Allowed
  <2>6. EffectsDue' /\ ReadsDue'
    BY <1>1, <2>4, ListsDue DEF DueInv, listVars
  <2>7. WholeInv'
    <3>1. lun \in 0..Len(Disk) /\ Len(Disk) \in Nat
      BY <1>1, DiskTyped DEF ChangeInv, TableInv
    <3>2. lun \in Nat
      BY <3>1
    <3>3. Do.do \notin TableSteps
      BY <1>1 DEF UfsSteps, TableSteps
    <3> QED
      BY <1>1, <2>3, <2>4, <3>2, <3>3, WholeOn DEF DueInv
  <2>8. ~PlanPending'
    <3>1. steps \in Seq(AllSteps)
      BY <1>1, ElementsIn DEF Fit
    <3>2. Do.do \notin Planning
      BY <1>1 DEF UfsSteps, Planning
    <3>3. ~PlanPending
      BY <1>1, <2>4, <3>1, <3>2, NotPending DEF DueInv
    <3>4. /\ Len(Tail(steps)) = Len(steps) - 1 /\ Len(steps) \in Nat
          /\ \A n \in 1..Len(Tail(steps)) : Tail(steps)[n] = steps[n + 1]
      BY <1>1, <3>1
    <3>5. ASSUME NEW n \in 1..Len(steps') PROVE steps'[n].do \notin Planning
      <4>1. n + 1 \in 1..Len(steps) /\ steps'[n] = steps[n + 1]
        BY <2>3, <3>4
      <4> QED
        BY <3>3, <4>1 DEF PlanPending
    <3> QED
      BY <3>5 DEF PlanPending
  <2>9. UfsDue'
    <3> SUFFICES ASSUME steps' = << >> PROVE ufs'.applied = ufsdoc
      BY <1>1 DEF UfsDue
    <3>1. PICK k \in 1..(2 * Len(ufsdoc)) : Ahead(k)
      BY <1>1, <2>5 DEF UfsInv
    <3>2. /\ Do = Provision[k] /\ Len(steps') = 2 * Len(ufsdoc) - k
      BY <1>1, <2>3, <2>5, <3>1, NextUfs
    <3>3. /\ Len(ufsdoc) \in Nat \ {0} /\ Do.label = ufsdoc[Turn(k)]
          /\ Do.do = (IF k <= Len(ufsdoc) THEN "check ufs" ELSE "commit ufs")
      BY <1>1, <2>5, <3>2, ProvisionIs
    <3>4. PICK N \in Nat \ {0} : N = Len(ufsdoc)
      BY <3>3
    <3>5. k = 2 * N /\ N \in 1..N
      <4>1. Len(steps') = 0
        OBVIOUS
      <4>2. 2 * N - k = 0 /\ k \in 1..(2 * N)
        BY <3>2, <3>4, <4>1
      <4> QED
        BY <4>2
    <3>6. Turn(k) = Len(ufsdoc) /\ ~(k <= Len(ufsdoc))
      BY <3>4, <3>5 DEF Turn
    <3>7. ufsdoc \in Seq({"common", "body", "epilogue"}) /\ ufsdoc[Len(ufsdoc)] = "epilogue"
      <4>1. Len(ufsdoc) \in 1..Len(ufsdoc)
        BY <3>4, <3>5
      <4> QED
        BY <1>1, <2>5, <4>1 DEF ListsInv, UfsShape, Provisions
    <3>8. Append(ufs.staged, Do.label) = ufsdoc
      <4>1. Len(ufsdoc) \in 1..Len(ufsdoc)
        BY <3>4, <3>5
      <4>2. /\ Append(SubSeq(ufsdoc, 1, Len(ufsdoc) - 1), ufsdoc[Len(ufsdoc)]) = SubSeq(ufsdoc, 1, Len(ufsdoc))
            /\ SubSeq(ufsdoc, 1, Len(ufsdoc)) = ufsdoc
        BY <3>7, <4>1, Beginnings
      <4>3. ufs.staged = SubSeq(ufsdoc, 1, Len(ufsdoc) - 1)
        BY <3>1, <3>6 DEF Ahead
      <4> QED
        BY <3>3, <3>6, <4>2, <4>3
    <3>9. ufs' = [ufs EXCEPT !.staged = << >>, !.applied = ufsdoc]
      <4>1. Do.label = "epilogue" /\ Do.do = "commit ufs"
        BY <3>3, <3>6, <3>7
      <4> QED
        BY <2>2, <3>8, <4>1 DEF UfsEnd
    <3> QED
      BY <1>1, <3>9 DEF UfsInv
  <2>10. SavedDue' /\ XmlDue' /\ Provisions'
    <3>1. Wanted = {} /\ Cmd # "readall"
      BY <2>5 DEF Wanted, Flash
    <3>2. Wanted' = {} /\ Cmd' # "readall"
      BY <1>1, <3>1, FixedEffects, FixedDisk
    <3> QED
      BY <1>1, <2>5, <3>2 DEF SavedDue, XmlDue, Provisions
  <2> QED
    BY <2>3, <2>6, <2>7, <2>8, <2>9, <2>10 DEF DueInv, WorkDue
<1> QED
  BY <1>2, <1>3 DEF ExitInv

\* Lists that are alike do what the documents say, or neither does.
LEMMA AlikeDue ==
    ASSUME EffectsDue, ReadsDue, setup' = setup, docs' = docs,
           queue \in Seq(DocTags), queue' \in Seq(DocTags), Len(queue') = Len(queue),
           \A n \in 1..Len(queue) :
              /\ queue'[n].kind = queue[n].kind /\ queue'[n].live = queue[n].live
              /\ PlaceOf(queue'[n]) = PlaceOf(queue[n])
    PROVE  EffectsDue' /\ ReadsDue'
<1>1. /\ Loaded' = Loaded /\ LoadOrder' = LoadOrder /\ Parts' = Parts
      /\ \A kinds, part : Puts(kinds, part)' = Puts(kinds, part)
      /\ \A kinds, part : Brings(kinds, part)' = Brings(kinds, part)
      /\ \A tag : PlaceOf(tag)' = PlaceOf(tag)
  BY FixedEffects, FixedLists, FixedDisk DEF Loaded
<1>2. EffectsDue'
  <2> SUFFICES ASSUME NEW kinds \in SUBSET ChangingSteps, NEW part \in Parts
               PROVE  \E u : (Lead(LoadOrder, Brings(kinds, part), Loaded, u)
                              /\ Leaves(queue, Puts(kinds, part), u))'
    BY <1>1 DEF EffectsDue
  <2>1. PICK u : Lead(LoadOrder, Brings(kinds, part), Loaded, u) /\ Leaves(queue, Puts(kinds, part), u)
    BY DEF EffectsDue
  <2>2. Lead(LoadOrder, Brings(kinds, part), Loaded, u)'
    BY <1>1, <2>1 DEF Lead
  <2>3. PICK F : F = Puts(kinds, part)
    OBVIOUS
  <2>4. \A n \in 1..Len(queue') : F[queue'[n]] = F[queue[n]]
    <3> SUFFICES ASSUME NEW n \in 1..Len(queue') PROVE F[queue'[n]] = F[queue[n]]
      OBVIOUS
    <3>1. queue[n] \in DocTags /\ queue'[n] \in DocTags
      BY ElementOfSeq
    <3> QED
      BY <2>3, <3>1 DEF Puts
  <2>5. Leaves(queue', F, u)
    <3>1. Len(queue) = Len(queue') /\ Len(queue') \in Nat
      OBVIOUS
    <3>2. Leaves(queue, F, u)
      BY <2>1, <2>3
    <3> QED
      BY <2>4, <3>1, <3>2, LeavesLike
  <2>6. Leaves(queue, Puts(kinds, part), u)'
    BY <1>1, <2>3, <2>5 DEF Leaves, Lead
  <2> QED
    BY <2>2, <2>6
<1>3. \A tag : ListedRead(tag) => ListedRead(tag)'
  BY <1>1 DEF ListedRead
<1>4. ReadsDue'
  BY <1>1, <1>3 DEF ReadsDue
<1> QED
  BY <1>2, <1>4

\* firehose_resolve_gpt_partition(): the label of a document gets its place in
\* tables that are complete.
LEMMA ResolvesRight ==
    ASSUME ChangeInv, WholeInv, steps # << >>, Do.do = "resolve", loaded, Found(Do.label)
    PROVE  FoundPart(Do.label) = Place(Do.label)
<1>1. setup \in Setups /\ TableInv /\ cache \in Seq(RowSet)
  BY DEF ChangeInv, TableInv
<1>2. PICK label : label = Do.label
  OBVIOUS
<1>3. GptOnly /\ Table = cache /\ Table \in Seq(RowSet) /\ Len(Table) \in Nat
  BY <1>1, TableTyped DEF GptOnly, Table
<1>4. Cardinality(Matches(label)) = 1
  BY <1>2, <1>3 DEF Found
<1>5. Matches(label) \subseteq 1..Len(Table)
  BY DEF Matches, Bearing
<1>6. Matches(label) # {}
  BY <1>3, <1>4, <1>5, OneOf
<1>7. ~Nand
  <2> SUFFICES ASSUME Nand PROVE FALSE
    OBVIOUS
  <2>1. Len(Table) = 0
    BY <1>1, <1>3 DEF TableInv
  <2> QED
    BY <1>5, <1>6, <2>1
<1>8. Covers(cache, Len(Disk)) /\ Len(Disk) \in 0..Len(Disk)
  BY <1>1, <1>7, DiskTyped DEF WholeInv
<1> QED
  BY <1>1, <1>2, <1>3, <1>4, <1>8, FoundIsPlace

\* A label of a read or write command gets its place, and the others are still
\* to come.
LEMMA ResolveDue ==
    ASSUME ChangeInv, ExitInv, Resolve
    PROVE  ExitInv'
<1>1. /\ setup' = setup /\ docs' = docs /\ ufsdoc' = ufsdoc /\ UNCHANGED << cache, dataVars >>
      /\ ufs' = ufs /\ pc = "work" /\ steps # << >> /\ Do.do = "resolve" /\ loaded
      /\ setup \in Setups /\ steps \in Seq(Fit) /\ ListsInv /\ TableInv
  BY DEF Resolve, Busy, ChangeInv
<1>2. Flash
  BY <1>1, StepOn DEF Allowed
<1>3. PlainInv'
  <2>1. Flash' /\ (Provisions' <=> Provisions)
    BY <1>1, <1>2, FixedDisk DEF Provisions
  <2>2. Untouched' <=> Untouched
    BY <1>1, UntouchedKept DEF dataVars
  <2> QED
    BY <1>1, <2>1, <2>2 DEF ExitInv, PlainInv, dataVars
<1>4. ASSUME Clean' PROVE DueInv'
  <2>1. \A positive : ~Misses(positive)
    BY <1>4, MissIsSeen
  <2>2. /\ Found(Do.label) /\ Succeeds
        /\ queue' = [queue EXCEPT ![Do.part[1]].part = FoundPart(Do.label)]
    BY <2>1 DEF Resolve
  <2>3. pc' = "work" /\ ret' = ret /\ unsaid' = unsaid /\ steps' = Tail(steps) /\ lun' = 0 /\ loaded' = FALSE
    BY <1>1, <2>2, GoesOn DEF Succeeds, Advance, Goto
  <2>4. PlainInv /\ DueInv
    BY <1>4, <2>3 DEF ExitInv, Clean
  <2>5. FoundPart(Do.label) = Place(Do.label)
    BY <1>1, <2>2, <2>4, ResolvesRight DEF DueInv
  <2>6. PICK i, part, label : i = Do.part[1] /\ part = FoundPart(Do.label) /\ label = Do.label
    OBVIOUS
  <2>7. /\ i \in 1..Len(queue) /\ queue[i].gpt = label /\ label # ""
        /\ part \in Seq(Nat) /\ part = Place(label)
    BY <1>1, <2>2, <2>5, <2>6, QueuePlaced
  <2>8. PICK e : e = [queue[i] EXCEPT !.part = part]
    OBVIOUS
  <2>9. queue \in Seq(DocTags) /\ queue[i] \in DocTags
    BY <1>1, <2>7, ElementOfSeq DEF ListsInv
  <2>24. PICK q : q = queue[i]
    OBVIOUS
  <2>25. q \in DocTags /\ q.gpt # "" /\ e = [q EXCEPT !.part = part] /\ part \in Seq(Nat)
    BY <2>7, <2>8, <2>9, <2>24
  <2>26. /\ e \in DocTags /\ e.kind = q.kind /\ e.live = q.live /\ e.gpt = q.gpt
         /\ e.part = part
    BY <2>25 DEF DocTags
  <2>27. PlaceOf(e) = PlaceOf(q)
    <3>1. e.gpt = q.gpt /\ q.gpt # ""
      BY <2>25, <2>26
    <3>2. PlaceOf(e) = Place(e.gpt) /\ PlaceOf(q) = Place(q.gpt)
      BY <3>1, Zenon DEF PlaceOf
    <3> QED
      BY <3>1, <3>2, Zenon
  <2>10. /\ e \in DocTags /\ e.kind = queue[i].kind /\ e.live = queue[i].live /\ e.gpt = queue[i].gpt
         /\ e.part = part /\ PlaceOf(e) = PlaceOf(queue[i])
    BY <2>24, <2>26, <2>27
  <2>11. /\ queue' \in Seq(DocTags) /\ Len(queue') = Len(queue) /\ Len(queue) \in Nat
         /\ queue'[i] = e /\ \A n \in 1..Len(queue) : n # i => queue'[n] = queue[n]
    <3>1. PICK z : z = queue'
      OBVIOUS
    <3>2. PICK s : s = queue
      OBVIOUS
    <3>3. z = [s EXCEPT ![i] = e]
      BY <2>2, <2>6, <2>8, <3>1, <3>2
    <3>4. s \in Seq(DocTags) /\ i \in 1..Len(s) /\ e \in DocTags
      BY <2>7, <2>9, <2>10, <3>2
    <3>5. /\ z \in Seq(DocTags) /\ Len(z) = Len(s) /\ Len(s) \in Nat
          /\ z[i] = e /\ \A n \in 1..Len(s) : n # i => z[n] = s[n]
      BY <3>3, <3>4, OneChanged
    <3> QED
      BY <3>1, <3>2, <3>5
  <2>12. \A n \in 1..Len(queue) :
            /\ queue'[n].kind = queue[n].kind /\ queue'[n].live = queue[n].live
            /\ PlaceOf(queue'[n]) = PlaceOf(queue[n])
    BY <2>10, <2>11
  <2>13. EffectsDue' /\ ReadsDue'
    BY <1>1, <2>4, <2>9, <2>11, <2>12, AlikeDue DEF DueInv
  <2>14. WholeInv'
    <3>1. lun \in 0..Len(Disk) /\ Len(Disk) \in Nat
      BY <1>1, DiskTyped DEF TableInv
    <3>2. lun \in Nat
      BY <3>1
    <3> QED
      BY <1>1, <2>3, <2>4, <3>2, WholeOn DEF DueInv
  <2>15. /\ steps \in Seq(AllSteps) /\ Len(steps) \in Nat \ {0} /\ Do = steps[1]
         /\ Len(Tail(steps)) = Len(steps) - 1
         /\ \A n \in 1..Len(Tail(steps)) : Tail(steps)[n] = steps[n + 1]
    <3>1. steps \in Seq(AllSteps)
      BY <1>1, ElementsIn DEF Fit
    <3> QED
      BY <1>1, <3>1 DEF Do
  <2>16. PlanDue
    <3>1. 1 \in 1..Len(steps) /\ steps[1].do \in Planning
      BY <1>1, <2>15 DEF Planning
    <3>2. PlanPending
      BY <3>1 DEF PlanPending
    <3> QED
      BY <1>1, <2>4, <3>2 DEF DueInv, WorkDue
  <2>17. PICK N \in Nat \ {0} : N = Len(steps)
    BY <2>15
  <2>18. N # 1 /\ Len(steps') = N - 1 /\ N - 1 \in 1..(N - 1)
    <3>1. ASSUME N = 1 PROVE steps[1].do = "plan"
      <4>1. 1 \in 1..Len(steps) /\ Len(steps) = 1
        BY <2>17, <3>1
      <4> QED
        BY <2>16, <4>1 DEF PlanDue
    <3>2. N # 1
      BY <1>1, <2>15, <3>1
    <3> QED
      BY <2>3, <2>15, <2>17, <3>2
  <2>19. ASSUME NEW n \in 1..Len(steps')
         PROVE  /\ n + 1 \in 1..Len(steps) /\ steps'[n] = steps[n + 1]
                /\ steps'[n].do = (IF n = Len(steps') THEN "plan" ELSE "resolve")
    <3>1. n + 1 \in 1..N /\ (n + 1 = N <=> n = N - 1)
      BY <2>18
    <3>2. steps'[n] = steps[n + 1]
      BY <2>3, <2>15
    <3>3. steps[n + 1].do = (IF n + 1 = N THEN "plan" ELSE "resolve")
      BY <2>16, <2>17, <3>1 DEF PlanDue
    <3> QED
      BY <2>17, <2>18, <3>1, <3>2, <3>3
  <2>20. ASSUME NEW k \in 1..Len(queue'), queue'[k].gpt # ""
         PROVE  queue'[k].part = Place(queue'[k].gpt) \/ ToResolve(k)'
    <3>1. CASE k = i
      BY <2>7, <2>10, <2>11, <3>1
    <3>2. CASE k # i
      <4>1. queue'[k] = queue[k] /\ k \in 1..Len(queue)
        BY <2>11, <3>2
      <4>2. CASE ToResolve(k)
        <5>1. PICK n \in 1..Len(steps) : steps[n].do = "resolve" /\ steps[n].part = << k >>
          BY <4>2 DEF ToResolve
        <5>2. n # 1
          <6>1. n = 1 => << k >>[1] = i
            BY <2>6, <2>15, <5>1
          <6> QED
            BY <3>2, <6>1
        <5>3. n - 1 \in 1..Len(steps') /\ n - 1 + 1 = n
          BY <2>17, <2>18, <5>2
        <5>4. steps'[n - 1] = steps[n]
          BY <2>19, <5>3
        <5> QED
          BY <5>1, <5>3, <5>4 DEF ToResolve
      <4>3. CASE queue[k].part = Place(queue[k].gpt)
        BY <4>1, <4>3
      <4> QED
        BY <2>16, <2>20, <4>1, <4>2, <4>3 DEF PlanDue
    <3> QED
      BY <3>1, <3>2
  <2>21. PlanPending' /\ PlanDue'
    <3>1. \A label_ : Place(label_)' = Place(label_)
      BY <1>1, FixedLabel
    <3>2. Untouched'
      BY <1>1, <2>16, UntouchedKept DEF PlanDue, dataVars
    <3>3. PlanDue'
      BY <2>19, <2>20, <3>1, <3>2 DEF PlanDue
    <3>4. PlanPending'
      <4>1. N - 1 \in 1..Len(steps') /\ N - 1 = Len(steps')
        BY <2>18
      <4>2. steps'[N - 1].do = "plan"
        BY <2>19, <4>1
      <4> QED
        BY <4>1, <4>2 DEF PlanPending, Planning
    <3> QED
      BY <3>3, <3>4
  <2>22. UfsDue'
    <3>1. Len(steps') # 0
      BY <2>18
    <3>2. steps' # << >>
      BY <3>1
    <3> QED
      BY <3>2 DEF UfsDue
  <2>23. SavedDue' /\ XmlDue'
    <3>1. Wanted = {} /\ Cmd # "readall"
      BY <1>2 DEF Wanted, Flash
    <3>2. Wanted' = {} /\ Cmd' # "readall"
      BY <1>1, <3>1, FixedEffects, FixedDisk
    <3> QED
      BY <3>2 DEF SavedDue, XmlDue
  <2> QED
    BY <2>3, <2>13, <2>14, <2>21, <2>22, <2>23 DEF DueInv, WorkDue
<1> QED
  BY <1>3, <1>4 DEF ExitInv
-----------------------------------------------------------------------------
(* What a flash is to do when its lists are complete.                      *)
AllOp == [kind |-> "all", live |-> TRUE, part |-> << >>]
Acts(part) ==
    [op \in DocTags \cup {AllOp} |->
        IF op.kind = "all" THEN "erased"
        ELSE IF op.kind \in ChangingSteps /\ op.part = part THEN Result[op.kind]
        ELSE ""]
Told(kinds, part) ==
    IF LastOf(kinds, part) = 0 THEN "" ELSE Result[Tags[LastOf(kinds, part)].kind]
Located == \A k \in 1..Len(queue) : queue[k].part = PlaceOf(queue[k])

\* An operation is made a step, or two, that do what it says.
LEMMA OpLeaves ==
    ASSUME setup \in Setups, NEW op \in DocTags \cup {AllOp}
    PROVE  /\ OpSteps(op) \in Seq(AllSteps)
           /\ \A n \in 1..Len(OpSteps(op)) : OpSteps(op)[n].do \notin Planning
           /\ \A part \in Parts : Leaves(OpSteps(op), Writes(part), Acts(part)[op])
           /\ op.kind = "read" =>
                 \E n \in 1..Len(OpSteps(op)) : OpSteps(op)[n].do = "backup" /\ OpSteps(op)[n].part = op.part
<1>1. CASE op = AllOp
  <2> DEFINE a == Each(<< "erase" >>, "count")
             b == CheckStep
             s == << a, b >>
  <2>1. OpSteps(op) = s
    BY <1>1 DEF OpSteps, AllOp
  <2>2. a \in AllSteps /\ a.do = "each" /\ Then(a) = {"erase"}
    <3>1. << "erase" >> \in Seq(Words) /\ << >> \in Seq(Nat)
      BY DEF Words
    <3>2. a = [do |-> "each", label |-> "", part |-> << >>, then |-> << "erase" >>, fails |-> "count"]
      BY DEF Each, StepFor
    <3> HIDE DEF a
    <3>3. a \in AllSteps
      BY <3>1, <3>2 DEF AllSteps, Words
    <3>5. a.then \in Seq(Words) /\ Len(a.then) = 1 /\ a.then[1] = "erase"
      BY <3>1, <3>2
    <3>4. Then(a) = {"erase"}
      BY <3>5 DEF Then
    <3> QED
      BY <3>2, <3>3, <3>4
  <2>3. b \in AllSteps /\ b.do = "check"
    <3>1. << >> \in Seq(Words) /\ << >> \in Seq(Nat)
      OBVIOUS
    <3> QED
      BY <3>1 DEF CheckStep, Step, AllSteps, Words
  <2> HIDE DEF a, b
  <2>4. s \in Seq(AllSteps) /\ Len(s) = 2 /\ s[1] = a /\ s[2] = b
    BY <2>2, <2>3
  <2> HIDE DEF s
  <2>5. \A n \in 1..Len(s) : s[n].do \notin Planning
    BY <2>2, <2>3, <2>4 DEF Planning
  <2>6. ASSUME NEW part \in Parts PROVE Leaves(s, Writes(part), "erased")
    <3>1. Writes(part)[a] = "erased"
      BY <2>2 DEF Writes, Concerns, ChangingSteps
    <3>2. Writes(part)[b] = ""
      BY <2>3 DEF Writes, Concerns, ChangingSteps
    <3> DEFINE F == Writes(part)
    <3> HIDE DEF F
    <3>5. F[a] = "erased" /\ F[b] = ""
      BY <3>1, <3>2 DEF F
    <3>6. \A n \in 1..Len(s) : s[n] = a \/ s[n] = b
      BY <2>4
    <3>7. \A n \in 1..Len(s) : F[s[n]] \in {"", "erased"}
      BY <3>5, <3>6
    <3>9. 1 \in 1..Len(s) /\ Len(s) \in Nat
      BY <2>4
    <3>8. 1 \in 1..Len(s) /\ F[s[1]] = "erased" /\ Len(s) \in Nat
      BY <2>4, <3>5, <3>9
    <3>4. Leaves(s, F, "erased")
      BY <3>7, <3>8, LeavesSame
    <3> QED
      BY <3>4 DEF F
  <2>7. \A part \in Parts : Acts(part)[op] = "erased"
    BY <1>1 DEF Acts, AllOp
  <2>8. op.kind # "read"
    BY <1>1 DEF AllOp
  <2> QED
    BY <2>1, <2>4, <2>5, <2>6, <2>7, <2>8
<1>2. CASE op \in DocTags
  <2> DEFINE do == IF op.kind = "read" THEN "backup" ELSE op.kind
             s == Step(do, op.part, "stop")
             t == << s >>
  <2>1. op.kind \in {"program", "erase", "patch", "read"} /\ op.part \in Seq(Nat)
    BY <1>2 DEF DocTags
  <2>2. OpSteps(op) = t
    BY <2>1 DEF OpSteps
  <2>3. s \in AllSteps /\ s.do = do /\ s.part = op.part /\ do \in ChangingSteps \cup {"backup"}
    <3>1. << >> \in Seq(Words)
      OBVIOUS
    <3> QED
      BY <2>1, <3>1 DEF Step, AllSteps, Words, ChangingSteps
  <2>4. do = op.kind \/ (do = "backup" /\ op.kind = "read")
    OBVIOUS
  <2>9. op.kind = "read" => do = "backup"
    OBVIOUS
  <2> HIDE DEF do, s
  <2>5. t \in Seq(AllSteps) /\ Len(t) = 1 /\ t[1] = s
    BY <2>3
  <2>6. ASSUME NEW part \in Parts PROVE Leaves(t, Writes(part), Acts(part)[op])
    <3>1. Writes(part)[s] = Acts(part)[op]
      BY <1>2, <2>1, <2>3, <2>4 DEF Writes, Acts, Concerns, ChangingSteps
    <3> QED
      BY <3>1, LeavesOne
  <2>7. do \notin Planning
    BY <2>3 DEF Planning, ChangingSteps
  <2> HIDE DEF t
  <2>8. \A n \in 1..Len(t) : t[n] = s
    BY <2>5
  <2> QED
    BY <2>2, <2>3, <2>5, <2>6, <2>7, <2>8, <2>9
<1> QED
  BY <1>1, <1>2

\* When all is loaded the lists do what the documents say.
LEMMA QueueTells ==
    ASSUME setup \in Setups, ListsInv, EffectsDue, docs = << >>,
           NEW kinds \in SUBSET ChangingSteps, NEW part \in Parts
    PROVE  Leaves(queue, Puts(kinds, part), Told(kinds, part))
<1>1. PICK u : Lead(LoadOrder, Brings(kinds, part), Loaded, u) /\ Leaves(queue, Puts(kinds, part), u)
  BY DEF EffectsDue
<1>2. Loaded = Len(LoadOrder)
  <2>1. Len(LoadOrder) \in Nat /\ Len(docs) = 0
    BY OrderFits
  <2> QED
    BY <2>1 DEF Loaded
<1>3. Leaves(LoadOrder, Brings(kinds, part), u)
  BY <1>1, <1>2 DEF Leaves
<1>4. Leaves(Tags, Tells(kinds, part), u)
  BY <1>3, AllTells
<1>5. u = Told(kinds, part)
  BY <1>4, LastTells DEF Told
<1> QED
  BY <1>1, <1>5

\* What is told to be done is something.
LEMMA ToldIs ==
    ASSUME setup \in Setups, NEW kinds \in SUBSET ChangingSteps, NEW part
    PROVE  Told(kinds, part) = "" <=> LastOf(kinds, part) = 0
<1>1. /\ Result["program"] = "new" /\ Result["erase"] = "erased" /\ Result["patch"] = "patched"
  BY DEF Result
<1>2. LastOf(kinds, part) # 0 => Tags[LastOf(kinds, part)].kind \in kinds
  BY LastIs
<1>3. LastOf(kinds, part) # 0 => Result[Tags[LastOf(kinds, part)].kind] # ""
  BY <1>1, <1>2 DEF ChangingSteps
<1> QED
  BY <1>3 DEF Told

\* The operations of some kinds that are live do what the list tells of them.
LEMMA SomeLeave ==
    ASSUME setup \in Setups, ListsInv, Located, NEW kinds \in SUBSET ChangingSteps, NEW part \in Parts,
           NEW K, NEW v, Leaves(queue, Puts(kinds, part), v),
           \A n \in 1..Len(queue) :
              n \in K => queue[n].live /\ (queue[n].kind \in ChangingSteps => queue[n].kind \in kinds),
           \A n \in 1..Len(queue) : queue[n].live /\ queue[n].kind \in kinds => n \in K
    PROVE  Leaves(Chosen(queue, K), Acts(part), v)
<1>1. queue \in Seq(DocTags)
  BY DEF ListsInv
<1>2. ASSUME NEW n \in 1..Len(queue)
      PROVE  Puts(kinds, part)[queue[n]] = IF n \in K THEN Acts(part)[queue[n]] ELSE ""
  <2>1. PICK e : e = queue[n]
    OBVIOUS
  <2>2. e \in DocTags /\ e.kind # "all" /\ e.part = PlaceOf(e)
    <3>1. e \in DocTags
      BY <1>1, <2>1, ElementOfSeq
    <3> QED
      BY <2>1, <3>1 DEF DocTags, Located
  <2>3. Puts(kinds, part)[e] = IF e.live /\ e.kind \in kinds /\ PlaceOf(e) = part THEN Result[e.kind] ELSE ""
    BY <2>2 DEF Puts
  <2>4. Acts(part)[e] = IF e.kind \in ChangingSteps /\ e.part = part THEN Result[e.kind] ELSE ""
    BY <2>2 DEF Acts
  <2>5. e.kind \in kinds => e.kind \in ChangingSteps
    OBVIOUS
  <2> QED
    BY <2>1, <2>2, <2>3, <2>4, <2>5
<1> DEFINE F == Acts(part)
           E == Puts(kinds, part)
<1>3. Leaves(queue, E, v) /\ \A n \in 1..Len(queue) : E[queue[n]] = IF n \in K THEN F[queue[n]] ELSE ""
  BY <1>2
<1> HIDE DEF F, E
<1>4. Leaves(Chosen(queue, K), F, v)
  BY <1>1, <1>3, LeavesChosen
<1> QED
  BY <1>4 DEF F

\* FirehoseOps takes from the queue what Choices does.
LEMMA PlanTakes ==
    /\ \A kind : Ordered!OfKind(kind)
          = Chosen(queue, {n \in 1..Len(queue) : queue[n].kind = kind /\ queue[n].live})
    /\ ~setup.erase_all =>
          Ordered!Plan(setup.erase_all) = Chosen(queue, {n \in 1..Len(queue) : queue[n].live})
    /\ setup.erase_all =>
          Ordered!Plan(setup.erase_all)
             = ((Ordered!OfKind("read") \o << AllOp >>) \o Ordered!OfKind("program")) \o Ordered!OfKind("patch")
<1>1. \A kind : Ordered!OfKind(kind)
                  = Chosen(queue, {n \in 1..Len(queue) : queue[n].kind = kind /\ queue[n].live})
  BY DEF Ordered!OfKind, Ordered!Chosen, Chosen, Ordered!FlattenSeq, FlattenSeq
<1>2. Ordered!DocumentOrder = Chosen(queue, {n \in 1..Len(queue) : queue[n].live})
  BY DEF Ordered!DocumentOrder, Ordered!Chosen, Chosen, Ordered!FlattenSeq, FlattenSeq
<1>3. ~setup.erase_all =>
          Ordered!Plan(setup.erase_all) = Chosen(queue, {n \in 1..Len(queue) : queue[n].live})
  BY <1>2 DEF Ordered!Plan
<1>4. setup.erase_all =>
          Ordered!Plan(setup.erase_all)
             = ((Ordered!OfKind("read") \o << AllOp >>) \o Ordered!OfKind("program")) \o Ordered!OfKind("patch")
  BY DEF Ordered!Plan, Ordered!Phased, AllOp
<1> QED
  BY <1>1, <1>3, <1>4

\* The operations of one kind.
LEMMA KindLeaves ==
    ASSUME setup \in Setups, ListsInv, Located, EffectsDue, docs = << >>,
           NEW kind \in {"program", "patch"}, NEW part \in Parts
    PROVE  Leaves(Ordered!OfKind(kind), Acts(part), Told({kind}, part))
<1> DEFINE K == {n \in 1..Len(queue) : queue[n].kind = kind /\ queue[n].live}
<1>1. {kind} \in SUBSET ChangingSteps
  BY DEF ChangingSteps
<1>2. Leaves(queue, Puts({kind}, part), Told({kind}, part))
  BY <1>1, QueueTells
<1>3. /\ \A n \in 1..Len(queue) :
            n \in K => queue[n].live /\ (queue[n].kind \in ChangingSteps => queue[n].kind \in {kind})
      /\ \A n \in 1..Len(queue) : queue[n].live /\ queue[n].kind \in {kind} => n \in K
  OBVIOUS
<1>4. Ordered!OfKind(kind) = Chosen(queue, K)
  BY PlanTakes
<1> HIDE DEF K
<1> QED
  BY <1>1, <1>2, <1>3, <1>4, SomeLeave

\* The plan does to a partition what the command asks for.
LEMMA PlanLeaves ==
    ASSUME setup \in Setups, ListsInv, Flash, Located, EffectsDue, docs = << >>, NEW part \in Parts
    PROVE  \E v : /\ Leaves(Ordered!Plan(setup.erase_all), Acts(part), v)
                  /\ Asked(part) # "old" => v = Asked(part) /\ v # ""
<1>1. queue \in Seq(DocTags)
  BY DEF ListsInv
<1>2. /\ {"program"} \in SUBSET ChangingSteps /\ {"patch"} \in SUBSET ChangingSteps
      /\ ChangingSteps \in SUBSET ChangingSteps /\ ChangingSteps = {"program", "erase", "patch"}
  BY DEF ChangingSteps
<1>3. \A kinds \in SUBSET ChangingSteps : Told(kinds, part) = "" <=> LastOf(kinds, part) = 0
  BY ToldIs
<1>4. Cmd \notin {"write", "eraseall", "erase"}
  BY DEF Flash
<1>5. CASE ~setup.erase_all
  <2> DEFINE K == {n \in 1..Len(queue) : queue[n].live}
             v == Told(ChangingSteps, part)
  <2>1. Leaves(queue, Puts(ChangingSteps, part), v)
    BY <1>2, QueueTells
  <2>2. /\ \A n \in 1..Len(queue) :
              n \in K => queue[n].live /\ (queue[n].kind \in ChangingSteps => queue[n].kind \in ChangingSteps)
        /\ \A n \in 1..Len(queue) : queue[n].live /\ queue[n].kind \in ChangingSteps => n \in K
    OBVIOUS
  <2>3. Ordered!Plan(setup.erase_all) = Chosen(queue, K)
    BY <1>5, PlanTakes
  <2>4. Asked(part) = IF LastOf(ChangingSteps, part) = 0 THEN "old"
                      ELSE Result[Tags[LastOf(ChangingSteps, part)].kind]
    BY <1>2, <1>4, <1>5 DEF Asked
  <2>5. Asked(part) # "old" => v = Asked(part) /\ v # ""
    BY <1>2, <1>3, <2>4 DEF Told
  <2> HIDE DEF K, v
  <2>6. Leaves(Chosen(queue, K), Acts(part), v)
    BY <1>2, <2>1, <2>2, SomeLeave
  <2> QED
    BY <2>3, <2>5, <2>6
<1>6. CASE setup.erase_all
  <2> DEFINE F == Acts(part)
             S == DocTags \cup {AllOp}
             r == Ordered!OfKind("read")
             p == Ordered!OfKind("program")
             q == Ordered!OfKind("patch")
             a == << AllOp >>
             u1 == Told({"program"}, part)
             u2 == Told({"patch"}, part)
  <2>1. r \in Seq(S) /\ p \in Seq(S) /\ q \in Seq(S) /\ a \in Seq(S)
    <3>1. DocTags \subseteq S /\ AllOp \in S
      OBVIOUS
    <3>2. \A K : Chosen(queue, K) \in Seq(DocTags)
      BY <1>1, ChosenAre
    <3> HIDE DEF S
    <3>3. \A K : Chosen(queue, K) \in Seq(S)
      BY <3>1, <3>2, ElementsIn, ElementOfSeq
    <3>4. r \in Seq(S) /\ p \in Seq(S) /\ q \in Seq(S)
      BY <3>3, PlanTakes
    <3> QED
      BY <3>1, <3>4
  <2>2. Leaves(r, F, "")
    <3> DEFINE K == {n \in 1..Len(queue) : queue[n].kind = "read" /\ queue[n].live}
    <3>1. r = Chosen(queue, K)
      BY PlanTakes
    <3>2. \A n \in 1..Len(queue) : n \in K => queue[n].kind = "read" /\ queue[n] \in DocTags
      BY <1>1, ElementOfSeq
    <3> HIDE DEF K, r
    <3>3. \A m \in 1..Len(r) : r[m] \in DocTags /\ r[m].kind = "read"
      <4>1. \A m \in 1..Len(Chosen(queue, K)) :
               \E n \in 1..Len(queue) : n \in K /\ Chosen(queue, K)[m] = queue[n]
        BY <1>1, ChosenAre
      <4> QED
        BY <3>1, <3>2, <4>1
    <3>4. \A m \in 1..Len(r) : Acts(part)[r[m]] = ""
      BY <3>3 DEF Acts, ChangingSteps
    <3> QED
      BY <3>4 DEF Leaves, Lead
  <2>3. Leaves(a, F, "erased")
    <3>1. F[AllOp] = "erased"
      BY DEF Acts, AllOp
    <3> HIDE DEF F
    <3>2. Leaves(a, F, F[AllOp])
      BY LeavesOne
    <3> QED
      BY <3>1, <3>2
  <2>4. Leaves(p, F, u1) /\ Leaves(q, F, u2)
    BY KindLeaves
  <2>5. Ordered!Plan(setup.erase_all) = ((r \o a) \o p) \o q
    BY <1>6, PlanTakes
  <2>6. Asked(part) = IF LastOf({"patch"}, part) # 0 THEN Result[Tags[LastOf({"patch"}, part)].kind]
                      ELSE IF LastOf({"program"}, part) = 0 THEN "erased"
                      ELSE Result[Tags[LastOf({"program"}, part)].kind]
    BY <1>4, <1>6 DEF Asked
  <2>7. /\ u2 = "" => Asked(part) = IF u1 = "" THEN "erased" ELSE u1
        /\ u2 # "" => Asked(part) = u2
    BY <1>2, <1>3, <2>6 DEF Told
  <2> HIDE DEF F, S, r, p, q, a, u1, u2
  <2>8. r \o a \in Seq(S) /\ Leaves(r \o a, F, After("", "erased"))
    BY <2>1, <2>2, <2>3, LeavesBoth, Concatenated
  <2>9. (r \o a) \o p \in Seq(S) /\ Leaves((r \o a) \o p, F, After(After("", "erased"), u1))
    BY <2>1, <2>4, <2>8, LeavesBoth, Concatenated
  <2>10. Leaves(((r \o a) \o p) \o q, F, After(After(After("", "erased"), u1), u2))
    BY <2>1, <2>4, <2>9, LeavesBoth
  <2>11. After(After(After("", "erased"), u1), u2) = Asked(part) /\ Asked(part) # ""
    BY <2>7 DEF After
  <2> QED
    BY <2>5, <2>10, <2>11 DEF F
<1> QED
  BY <1>5, <1>6

\* Reads are never left out of the plan.
LEMMA PlanReads ==
    ASSUME ListsInv, NEW k \in 1..Len(queue), queue[k].live, queue[k].kind = "read"
    PROVE  \E m \in 1..Len(Ordered!Plan(setup.erase_all)) : Ordered!Plan(setup.erase_all)[m] = queue[k]
<1>1. queue \in Seq(DocTags)
  BY DEF ListsInv
<1>2. CASE ~setup.erase_all
  <2> DEFINE K == {n \in 1..Len(queue) : queue[n].live}
  <2>1. k \in K
    OBVIOUS
  <2> HIDE DEF K
  <2>2. \E m \in 1..Len(Chosen(queue, K)) : Chosen(queue, K)[m] = queue[k]
    BY <1>1, <2>1, ChosenAre
  <2> QED
    BY <1>2, <2>2, PlanTakes DEF K
<1>3. CASE setup.erase_all
  <2> DEFINE S == DocTags \cup {AllOp}
             r == Ordered!OfKind("read")
             p == Ordered!OfKind("program")
             q == Ordered!OfKind("patch")
             a == << AllOp >>
  <2>1. r \in Seq(S) /\ p \in Seq(S) /\ q \in Seq(S) /\ a \in Seq(S)
    <3>1. DocTags \subseteq S /\ AllOp \in S
      OBVIOUS
    <3>2. \A K : Chosen(queue, K) \in Seq(DocTags)
      BY <1>1, ChosenAre
    <3> HIDE DEF S
    <3>3. \A K : Chosen(queue, K) \in Seq(S)
      BY <3>1, <3>2, ElementsIn, ElementOfSeq
    <3>4. r \in Seq(S) /\ p \in Seq(S) /\ q \in Seq(S)
      BY <3>3, PlanTakes
    <3> QED
      BY <3>1, <3>4
  <2>2. \E m \in 1..Len(r) : r[m] = queue[k]
    <3> DEFINE K == {n \in 1..Len(queue) : queue[n].kind = "read" /\ queue[n].live}
    <3>1. r = Chosen(queue, K) /\ k \in K
      BY PlanTakes
    <3> HIDE DEF K, r
    <3> QED
      BY <1>1, <3>1, ChosenAre
  <2>3. Ordered!Plan(setup.erase_all) = ((r \o a) \o p) \o q
    BY <1>3, PlanTakes
  <2> HIDE DEF S, r, p, q, a
  <2>4. PICK m \in 1..Len(r) : r[m] = queue[k]
    BY <2>2
  <2>5. r \o a \in Seq(S) /\ m \in 1..Len(r \o a) /\ (r \o a)[m] = queue[k]
    <3>1. /\ r \o a \in Seq(S) /\ Len(r \o a) = Len(r) + Len(a) /\ Len(r) \in Nat /\ Len(a) \in Nat
          /\ \A n \in 1..(Len(r) + Len(a)) : (r \o a)[n] = IF n <= Len(r) THEN r[n] ELSE a[n - Len(r)]
      BY <2>1, Joined
    <3> QED
      BY <2>4, <3>1
  <2>6. (r \o a) \o p \in Seq(S) /\ m \in 1..Len((r \o a) \o p) /\ ((r \o a) \o p)[m] = queue[k]
    <3> DEFINE b == r \o a
    <3>1. b \in Seq(S) /\ m \in 1..Len(b) /\ b[m] = queue[k]
      BY <2>5
    <3> HIDE DEF b
    <3>2. /\ b \o p \in Seq(S) /\ Len(b \o p) = Len(b) + Len(p) /\ Len(b) \in Nat /\ Len(p) \in Nat
          /\ \A n \in 1..(Len(b) + Len(p)) : (b \o p)[n] = IF n <= Len(b) THEN b[n] ELSE p[n - Len(b)]
      BY <2>1, <3>1, Joined
    <3>3. b \o p \in Seq(S) /\ m \in 1..Len(b \o p) /\ (b \o p)[m] = queue[k]
      BY <3>1, <3>2
    <3> QED
      BY <3>3 DEF b
  <2>7. m \in 1..Len(((r \o a) \o p) \o q) /\ (((r \o a) \o p) \o q)[m] = queue[k]
    <3> DEFINE b == (r \o a) \o p
    <3>1. b \in Seq(S) /\ m \in 1..Len(b) /\ b[m] = queue[k]
      BY <2>6
    <3> HIDE DEF b
    <3>2. /\ b \o q \in Seq(S) /\ Len(b \o q) = Len(b) + Len(q) /\ Len(b) \in Nat /\ Len(q) \in Nat
          /\ \A n \in 1..(Len(b) + Len(q)) : (b \o q)[n] = IF n <= Len(b) THEN b[n] ELSE q[n - Len(b)]
      BY <2>1, <3>1, Joined
    <3>3. m \in 1..Len(b \o q) /\ (b \o q)[m] = queue[k]
      BY <3>1, <3>2
    <3> QED
      BY <3>3 DEF b
  <2> QED
    BY <2>3, <2>7
<1> QED
  BY <1>2, <1>3

\* The steps that a flash is planned to take do what it is asked for.
LEMMA PlannedDue ==
    ASSUME setup \in Setups, ListsInv, Flash, Located, EffectsDue, ReadsDue, docs = << >>
    PROVE  /\ Planned \in Seq(AllSteps) /\ \A n \in 1..Len(Planned) : Planned[n].do \notin Planning
           /\ \A part \in Parts : Asked(part) # "old" =>
                 Asked(part) # "" /\ Leaves(Planned, Writes(part), Asked(part))
           /\ \A n \in 1..Len(Tags) : Tags[n].kind = "read" =>
                 \E k \in 1..Len(Planned) : Planned[k].do = "backup" /\ Planned[k].part = PlaceOf(Tags[n])
<1> DEFINE ops == Ordered!Plan(setup.erase_all)
           ss == [n \in 1..Len(ops) |-> OpSteps(ops[n])]
           flat == FlattenSeq(ss)
           boot == BootSteps
           S == DocTags \cup {AllOp}
<1>1. ops \in Seq(S) /\ Len(ops) \in Nat /\ \A n \in 1..Len(ops) : ops[n] \in S
  <2>1. ops \in Seq(Plannable)
    BY PlanIs
  <2>2. Plannable \subseteq S
    BY DEF Plannable, AllOp
  <2> HIDE DEF S, ops
  <2>3. ops \in Seq(S)
    BY <2>1, <2>2, ElementsIn, ElementOfSeq
  <2> QED
    BY <2>3, ElementOfSeq
<1>2. Len(ss) = Len(ops) /\ (ss = << >> \/ Len(ss) # 0) /\ \A n \in 1..Len(ss) : ss[n] = OpSteps(ops[n])
  <2> HIDE DEF ops
  <2> QED
    BY <1>1
<1>3. ASSUME NEW n \in 1..Len(ss)
      PROVE  /\ ss[n] \in Seq(AllSteps)
             /\ \A k \in 1..Len(ss[n]) : ss[n][k].do \notin Planning
             /\ \A part \in Parts : Leaves(ss[n], Writes(part), Acts(part)[ops[n]])
             /\ ops[n].kind = "read" =>
                   \E k \in 1..Len(ss[n]) : ss[n][k].do = "backup" /\ ss[n][k].part = ops[n].part
  <2>1. ss[n] = OpSteps(ops[n]) /\ ops[n] \in S
    BY <1>1, <1>2
  <2> HIDE DEF ss, ops
  <2> QED
    BY <2>1, OpLeaves
<1>4. Planned = flat \o boot
  BY DEF Planned
<1>5. /\ boot \in Seq(AllSteps) /\ \A n \in 1..Len(boot) : boot[n].do = "bootable"
  <2>1. boot \in Seq(Fit) /\ \A n \in 1..Len(boot) : boot[n].do = "bootable"
    BY BootFits
  <2> HIDE DEF boot
  <2> QED
    BY <2>1, ElementsIn DEF Fit
<1>6. \A part \in Parts : \E v : Leaves(ops, Acts(part), v) /\ (Asked(part) # "old" => v = Asked(part) /\ v # "")
  BY PlanLeaves
<1>7. \A k \in 1..Len(queue) : queue[k].live /\ queue[k].kind = "read" => \E m \in 1..Len(ops) : ops[m] = queue[k]
  BY PlanReads
<1> HIDE DEF ops, ss, flat, boot, S
<1>8. Gathers(flat, ss, AllSteps, Len(ss))
  <2>1. Len(ss) \in Nat /\ (ss = << >> \/ Len(ss) # 0) /\ \A n \in 1..Len(ss) : ss[n] \in Seq(AllSteps)
    BY <1>1, <1>2, <1>3
  <2> QED
    BY <2>1, Flattened DEF flat
<1>9. /\ flat \in Seq(AllSteps)
      /\ \A i \in 1..Len(ss) : \A k \in 1..Len(ss[i]) : \E m \in 1..Len(flat) : flat[m] = ss[i][k]
      /\ \A m \in 1..Len(flat) : \E i \in 1..Len(ss) : \E k \in 1..Len(ss[i]) : flat[m] = ss[i][k]
  BY <1>8 DEF Gathers
<1>10. /\ flat \o boot \in Seq(AllSteps) /\ Len(flat \o boot) = Len(flat) + Len(boot)
       /\ Len(flat) \in Nat /\ Len(boot) \in Nat
       /\ \A n \in 1..(Len(flat) + Len(boot)) :
             (flat \o boot)[n] = IF n <= Len(flat) THEN flat[n] ELSE boot[n - Len(flat)]
  BY <1>5, <1>9, Joined
<1>11. ASSUME NEW n \in 1..Len(Planned) PROVE Planned[n].do \notin Planning
  <2>1. CASE n <= Len(flat)
    <3>1. n \in 1..Len(flat) /\ Planned[n] = flat[n]
      BY <1>4, <1>10, <2>1
    <3>2. PICK i \in 1..Len(ss) : \E k \in 1..Len(ss[i]) : flat[n] = ss[i][k]
      BY <1>9, <3>1
    <3> QED
      BY <1>3, <3>1, <3>2
  <2>2. CASE ~(n <= Len(flat))
    <3>1. n - Len(flat) \in 1..Len(boot) /\ Planned[n] = boot[n - Len(flat)]
      BY <1>4, <1>10, <2>2
    <3>2. Planned[n].do = "bootable"
      BY <1>5, <3>1
    <3> QED
      BY <3>2 DEF Planning
  <2> QED
    BY <2>1, <2>2
<1>12. ASSUME NEW part \in Parts, Asked(part) # "old"
       PROVE  Asked(part) # "" /\ Leaves(Planned, Writes(part), Asked(part))
  <2> DEFINE F == Writes(part)
             E == Acts(part)
  <2>1. PICK v : Leaves(ops, E, v) /\ v = Asked(part) /\ v # ""
    BY <1>6, <1>12
  <2>2. \A n \in 1..Len(ss) : Leaves(ss[n], F, E[ops[n]])
    BY <1>3
  <2>3. \A n \in 1..Len(boot) : F[boot[n]] = ""
    <3> SUFFICES ASSUME NEW n \in 1..Len(boot) PROVE F[boot[n]] = ""
      OBVIOUS
    <3>1. boot[n] \in AllSteps /\ boot[n].do = "bootable"
      BY <1>5, ElementOfSeq
    <3> QED
      BY <3>1 DEF Writes, Concerns, ChangingSteps
  <2> HIDE DEF F, E
  <2>4. Leaves(flat, F, v)
    <3>1. /\ Len(ss) \in Nat /\ (ss = << >> \/ Len(ss) # 0) /\ Len(ops) = Len(ss)
          /\ \A n \in 1..Len(ss) : ss[n] \in Seq(AllSteps)
      BY <1>1, <1>2, <1>3
    <3>2. Leaves(FlattenSeq(ss), F, v)
      BY <2>1, <2>2, <3>1, LeavesAll
    <3> QED
      BY <3>2 DEF flat
  <2>5. Leaves(boot, F, "")
    BY <2>3 DEF Leaves, Lead
  <2>6. Leaves(flat \o boot, F, After(v, ""))
    BY <1>5, <1>9, <2>4, <2>5, LeavesBoth
  <2>7. After(v, "") = v
    BY DEF After
  <2> QED
    BY <1>4, <2>1, <2>6, <2>7 DEF F
<1>13. ASSUME NEW n \in 1..Len(Tags), Tags[n].kind = "read"
       PROVE  \E k \in 1..Len(Planned) : Planned[k].do = "backup" /\ Planned[k].part = PlaceOf(Tags[n])
  <2>1. PICK d \in 1..Len(LoadOrder) : LoadOrder[d].type # "ufs" /\
             \E m \in 1..Len(LoadOrder[d].tags) : Tags[n] = LoadOrder[d].tags[m]
    BY TagsAre
  <2>2. Loaded = Len(LoadOrder)
    <3>1. Len(LoadOrder) \in Nat /\ Len(docs) = 0
      BY OrderFits
    <3> QED
      BY <3>1 DEF Loaded
  <2>3. ListedRead(Tags[n])
    BY <1>13, <2>1, <2>2 DEF ReadsDue
  <2>4. PICK k \in 1..Len(queue) :
             queue[k].kind = "read" /\ queue[k].live /\ PlaceOf(queue[k]) = PlaceOf(Tags[n])
    BY <2>3 DEF ListedRead
  <2>5. PICK i \in 1..Len(ops) : ops[i] = queue[k]
    BY <1>7, <2>4
  <2>6. ops[i].kind = "read" /\ ops[i].part = PlaceOf(Tags[n]) /\ i \in 1..Len(ss)
    BY <1>2, <2>4, <2>5 DEF Located
  <2>7. PICK j \in 1..Len(ss[i]) : ss[i][j].do = "backup" /\ ss[i][j].part = PlaceOf(Tags[n])
    BY <1>3, <2>6
  <2>8. PICK m \in 1..Len(flat) : flat[m] = ss[i][j]
    BY <1>9, <2>6
  <2>9. m \in 1..Len(Planned) /\ Planned[m] = flat[m]
    BY <1>4, <1>10
  <2> QED
    BY <2>7, <2>8, <2>9
<1> QED
  BY <1>4, <1>10, <1>11, <1>12, <1>13

\* When the labels have their places, each operation is where its tag says.
LEMMA PlanLocated ==
    ASSUME PlanDue, steps \in Seq(AllSteps), steps # << >>, Do.do = "plan"
    PROVE  Located /\ Len(steps) = 1 /\ Untouched
<1>1. 1 \in 1..Len(steps) /\ Do = steps[1] /\ Len(steps) \in Nat \ {0}
  BY DEF Do
<1>2. Len(steps) = 1
  BY <1>1 DEF PlanDue
<1>3. \A k \in 1..Len(queue) : ~ToResolve(k)
  BY <1>1, <1>2 DEF ToResolve
<1>4. \A k \in 1..Len(queue) : queue[k].gpt # "" => queue[k].part = Place(queue[k].gpt)
  BY <1>3 DEF PlanDue
<1>5. Located
  BY <1>4 DEF Located, PlaceOf
<1> QED
  BY <1>2, <1>5 DEF PlanDue

\* firehose_run(): the steps of a flash are planned.
LEMMA PlanOpsDue ==
    ASSUME ChangeInv, ExitInv, PlanOps
    PROVE  ExitInv'
<1>1. /\ setup' = setup /\ UNCHANGED listVars /\ docs' = docs /\ queue' = queue /\ ufsdoc' = ufsdoc
      /\ cache' = cache /\ UNCHANGED dataVars
      /\ ufs' = ufs /\ pc = "work" /\ steps # << >> /\ Do.do = "plan"
      /\ setup \in Setups /\ steps \in Seq(Fit) /\ ListsInv /\ TableInv /\ UfsInv
  BY DEF PlanOps, Busy, ChangeInv, listVars
<1>2. Flash /\ steps \in Seq(AllSteps)
  <2>1. Flash
    BY <1>1, StepOn DEF Allowed
  <2>2. steps \in Seq(AllSteps)
    BY <1>1, ElementsIn DEF Fit
  <2> QED
    BY <2>1, <2>2
<1>3. ~Provisions
  BY <1>1, <1>2, UfsUntouched DEF UfsSteps
<1>4. PlainInv'
  BY <1>1, PlainKept DEF ExitInv, dataVars
<1>5. ASSUME Clean' PROVE DueInv'
  <2>1. ret' = ret /\ unsaid' = unsaid
    BY DEF PlanOps, Goto
  <2>2. PlainInv /\ DueInv
    BY <1>5, <2>1 DEF ExitInv, Clean
  <2>3. EffectsDue' /\ ReadsDue'
    BY <1>1, <2>2, ListsDue DEF DueInv
  <2>4. CASE Loops
    <3>1. pc' = "stuck" /\ UNCHANGED << steps, lun, loaded >>
      BY <2>4 DEF PlanOps, Goto
    <3>2. WholeInv'
      BY <1>1, <2>2, <3>1, FixedDisk, FixedRows DEF DueInv, WholeInv, Printing, Do
    <3> QED
      BY <2>3, <3>1, <3>2 DEF DueInv
  <2>5. CASE ~Loops
    <3>1. pc' = "work" /\ steps' = Planned \o Tail(steps) /\ lun' = 0 /\ loaded' = FALSE
      BY <2>5 DEF PlanOps, Goto, Advance
    <3>2. PlanDue
      <4>1. 1 \in 1..Len(steps) /\ steps[1].do \in Planning
        BY <1>1, <1>2 DEF Planning, Do
      <4>2. PlanPending
        BY <4>1 DEF PlanPending
      <4> QED
        BY <1>1, <2>2, <4>2 DEF DueInv, WorkDue
    <3>3. Located /\ Len(steps) = 1
      BY <1>1, <1>2, <3>2, PlanLocated
    <3>4. docs = << >>
      BY <1>1, <1>2 DEF ChangeInv, VerifiedInv, Verified, Loading
    <3>5. /\ Planned \in Seq(AllSteps) /\ \A n \in 1..Len(Planned) : Planned[n].do \notin Planning
          /\ \A part \in Parts : Asked(part) # "old" =>
                Asked(part) # "" /\ Leaves(Planned, Writes(part), Asked(part))
          /\ \A n \in 1..Len(Tags) : Tags[n].kind = "read" =>
                \E k \in 1..Len(Planned) : Planned[k].do = "backup" /\ Planned[k].part = PlaceOf(Tags[n])
      BY <1>1, <1>2, <2>2, <3>3, <3>4, PlannedDue DEF DueInv
    <3>6. steps' = Planned
      <4>1. Tail(steps) \in Seq(AllSteps) /\ Len(Tail(steps)) = 0
        BY <1>2, <3>3
      <4>4. PICK t : t = Tail(steps)
        OBVIOUS
      <4>5. t \in Seq(AllSteps) /\ Len(t) = 0
        BY <4>1, <4>4
      <4>2. t = << >>
        BY <4>5
      <4>3. \A s \in Seq(AllSteps) : s \o << >> = s
        OBVIOUS
      <4> QED
        BY <3>1, <3>5, <4>2, <4>3, <4>4
    <3>7. /\ Tags' = Tags /\ Parts' = Parts /\ Wanted' = Wanted /\ Cmd' = Cmd
          /\ \A part : Asked(part)' = Asked(part) /\ Writes(part)' = Writes(part)
          /\ \A tag : PlaceOf(tag)' = PlaceOf(tag)
      BY <1>1, FixedEffects, FixedLists, FixedDisk, FixedAsked
    <3>8. ~PlanPending'
      BY <3>5, <3>6 DEF PlanPending
    <3>9. StoreDue'
      <4> SUFFICES ASSUME NEW part \in Parts, Asked(part) # "old"
                   PROVE  \E w : Leaves(Planned, Writes(part), w) /\ After(store'[part], w) = Asked(part)
        BY <3>6, <3>7 DEF StoreDue, Leaves, Lead
      <4>1. Asked(part) # "" /\ Leaves(Planned, Writes(part), Asked(part))
        BY <3>5
      <4> QED
        BY <4>1 DEF After
    <3>10. BackupsDue'
      BY <3>5, <3>6, <3>7 DEF BackupsDue
    <3>11. UfsDue'
      BY <1>1, <1>3 DEF UfsDue, Provisions
    <3>12. SavedDue' /\ XmlDue'
      <4>1. Wanted = {} /\ Cmd # "readall"
        BY <1>2 DEF Wanted, Flash
      <4> QED
        BY <3>7, <4>1 DEF SavedDue, XmlDue
    <3>13. WholeInv'
      <4>1. lun \in 0..Len(Disk) /\ Len(Disk) \in Nat
        BY <1>1, DiskTyped DEF TableInv
      <4>2. lun \in Nat
        BY <4>1
      <4>3. Do.do \notin TableSteps
        BY <1>1 DEF TableSteps
      <4> QED
        BY <1>1, <2>2, <3>1, <4>2, <4>3, WholeOn DEF DueInv
    <3> QED
      BY <2>3, <3>1, <3>8, <3>9, <3>10, <3>11, <3>12, <3>13 DEF DueInv, WorkDue
  <2> QED
    BY <2>4, <2>5
<1> QED
  BY <1>4, <1>5 DEF ExitInv
-----------------------------------------------------------------------------
(* The steps of each subcommand.                                           *)

\* What an errand has for its partition.
LEMMA ThenIs ==
    ASSUME NEW s
    PROVE  /\ s.then = << "read" >> => Then(s) = {"read"}
           /\ s.then = << "probe", "read" >> => Then(s) = {"probe", "read"}
           /\ s.then = << "erase" >> => Then(s) = {"erase"}
           /\ s.then = << "erase", "program" >> => Then(s) = {"erase", "program"}
<1>1. ASSUME NEW a, s.then = << a >> PROVE Then(s) = {a}
  <2>1. Len(s.then) = 1 /\ s.then[1] = a
    BY <1>1
  <2> QED
    BY <2>1 DEF Then
<1>2. ASSUME NEW a, NEW b, s.then = << a, b >> PROVE Then(s) = {a, b}
  <2>1. Len(s.then) = 2 /\ s.then[1] = a /\ s.then[2] = b
    BY <1>2
  <2>2. 1..2 = {1, 2}
    OBVIOUS
  <2> QED
    BY <2>1, <2>2 DEF Then
<1> QED
  BY <1>1, <1>2

\* The labels of some kinds are looked for.
LEMMA ResolveStepsAre ==
    ASSUME ListsInv, NEW kinds
    PROVE  /\ ResolveSteps(kinds) \in Seq({ResolveStep(n) : n \in 1..Len(queue)})
           /\ \A k \in Deferred(kinds) : \E m \in 1..Len(ResolveSteps(kinds)) :
                 ResolveSteps(kinds)[m] = ResolveStep(k)
<1> DEFINE S == {ResolveStep(n) : n \in 1..Len(queue)}
           s == [n \in 1..Len(queue) |-> ResolveStep(n)]
           K == Deferred(kinds)
<1>1. Len(queue) \in Nat
  BY DEF ListsInv
<1>2. s \in Seq(S) /\ Len(s) = Len(queue) /\ \A n \in 1..Len(queue) : s[n] = ResolveStep(n)
  BY <1>1
<1>3. K \subseteq 1..Len(queue)
  BY DEF Deferred
<1>4. ResolveSteps(kinds) = Chosen(s, K)
  BY DEF ResolveSteps
<1> HIDE DEF S, s, K
<1>5. /\ Chosen(s, K) \in Seq(S)
      /\ \A n \in 1..Len(s) : n \in K => \E m \in 1..Len(Chosen(s, K)) : Chosen(s, K)[m] = s[n]
  BY <1>2, ChosenAre
<1>6. \A k \in K : \E m \in 1..Len(Chosen(s, K)) : Chosen(s, K)[m] = ResolveStep(k)
  BY <1>2, <1>3, <1>5
<1> QED
  BY <1>4, <1>5, <1>6 DEF S, K

\* Only a read or a program of the command line has a label to look for.
LEMMA LabelsDeferred ==
    ASSUME setup \in Setups, ListsInv, NEW k \in 1..Len(queue), queue[k].gpt # ""
    PROVE  k \in Deferred({"read"}) \cup Deferred({"program"})
<1>1. PICK m \in 1..Len(Tags) : << queue[k], Tags[m] >> \in Origins
  BY DEF ListsInv
<1>2. Made(queue[k], Tags[m])
  BY <1>1 DEF Origins
<1>3. PICK d \in 1..Len(LoadOrder) : LoadOrder[d].type # "ufs" /\
           \E n \in 1..Len(LoadOrder[d].tags) : Tags[m] = LoadOrder[d].tags[n]
  BY TagsAre
<1>4. DocFits(LoadOrder[d])
  <2> DEFINE D == {doc \in Documents : DocFits(doc)}
  <2>1. LoadOrder \in Seq(D)
    BY OrderFits
  <2>2. d \in 1..Len(LoadOrder)
    OBVIOUS
  <2> HIDE DEF D
  <2>3. LoadOrder[d] \in D
    BY <2>1, <2>2, ElementOfSeq
  <2> QED
    BY <2>3 DEF D
<1>5. TagFits(LoadOrder[d].type, Tags[m])
  BY <1>3, <1>4 DEF DocFits
<1>6. Tags[m].gpt = queue[k].gpt /\ Tags[m].kind = queue[k].kind
  BY <1>2 DEF Made
<1>7. queue[k].kind \in {"program", "read"}
  BY <1>5, <1>6 DEF TagFits, KindsIn
<1> QED
  BY <1>7 DEF Deferred

\* A flash looks for the labels of its lists, and then plans.
LEMMA FlashScript ==
    ASSUME setup \in Setups, ListsInv, Flash, ~Provisions
    PROVE  /\ Len(Script) \in Nat \ {0}
           /\ \A n \in 1..Len(Script) : Script[n].do = (IF n = Len(Script) THEN "plan" ELSE "resolve")
           /\ \A k \in 1..Len(queue) : queue[k].gpt # "" =>
                 \E n \in 1..Len(Script) : Script[n].do = "resolve" /\ Script[n].part = << k >>
<1> DEFINE R == {ResolveStep(n) : n \in 1..Len(queue)}
           plan == Step("plan", << >>, "stop")
           S == R \cup {plan}
           a == ResolveSteps({"read"})
           b == ResolveSteps({"program"})
           c == a \o b
           p == << plan >>
<1>1. Script = c \o p
  BY DEF Script, Flash, FlashSteps
<1>2. plan.do = "plan" /\ \A n : ResolveStep(n).do = "resolve" /\ ResolveStep(n).part = << n >>
  BY DEF Step, ResolveStep
<1>3. /\ a \in Seq(R) /\ b \in Seq(R)
      /\ \A k \in Deferred({"read"}) : \E m \in 1..Len(a) : a[m] = ResolveStep(k)
      /\ \A k \in Deferred({"program"}) : \E m \in 1..Len(b) : b[m] = ResolveStep(k)
  BY ResolveStepsAre
<1>4. \A s \in R : s.do = "resolve"
  BY <1>2
<1>5. R \subseteq S /\ plan \in S
  OBVIOUS
<1> HIDE DEF R, plan, S, a, b
<1>6. /\ c \in Seq(R) /\ Len(c) = Len(a) + Len(b) /\ Len(a) \in Nat /\ Len(b) \in Nat
      /\ \A n \in 1..(Len(a) + Len(b)) : c[n] = IF n <= Len(a) THEN a[n] ELSE b[n - Len(a)]
  BY <1>3, Joined
<1> HIDE DEF c
<1>7. c \in Seq(S) /\ p \in Seq(S) /\ Len(p) = 1 /\ p[1] = plan
  <2>1. c \in Seq(S)
    BY <1>5, <1>6, ElementsIn, ElementOfSeq
  <2> QED
    BY <1>5, <2>1
<1> HIDE DEF p
<1>8. /\ c \o p \in Seq(S) /\ Len(c \o p) = Len(c) + Len(p) /\ Len(c) \in Nat /\ Len(p) \in Nat
      /\ \A n \in 1..(Len(c) + Len(p)) : (c \o p)[n] = IF n <= Len(c) THEN c[n] ELSE p[n - Len(c)]
  BY <1>7, Joined
<1>9. PICK N \in Nat : N = Len(c)
  BY <1>8
<1>10. /\ Len(Script) = N + 1
       /\ \A n \in 1..N : Script[n] = c[n]
       /\ Script[N + 1] = plan
  BY <1>1, <1>7, <1>8, <1>9
<1>11. \A n \in 1..N : Script[n].do = "resolve"
  <2>1. \A n \in 1..N : c[n] \in R
    BY <1>6, <1>9, ElementOfSeq
  <2> QED
    BY <1>4, <1>10, <2>1
<1>12. ASSUME NEW n \in 1..Len(Script)
       PROVE  Script[n].do = (IF n = Len(Script) THEN "plan" ELSE "resolve")
  <2>1. CASE n = N + 1
    BY <1>2, <1>10, <2>1
  <2>2. CASE n # N + 1
    <3>1. n \in 1..N
      BY <1>10, <2>2
    <3> QED
      BY <1>10, <1>11, <2>2, <3>1
  <2> QED
    BY <2>1, <2>2
<1>13. ASSUME NEW k \in 1..Len(queue), queue[k].gpt # ""
       PROVE  \E n \in 1..Len(Script) : Script[n].do = "resolve" /\ Script[n].part = << k >>
  <2>1. \E m \in 1..N : c[m] = ResolveStep(k)
    <3>1. CASE k \in Deferred({"read"})
      <4>1. PICK m \in 1..Len(a) : a[m] = ResolveStep(k)
        BY <1>3, <3>1
      <4> QED
        BY <1>6, <1>9, <4>1
    <3>2. CASE k \in Deferred({"program"})
      <4>1. PICK m \in 1..Len(b) : b[m] = ResolveStep(k)
        BY <1>3, <3>2
      <4>2. /\ Len(a) + m \in 1..(Len(a) + Len(b)) /\ ~(Len(a) + m <= Len(a))
            /\ Len(a) + m - Len(a) = m
        BY <1>6
      <4>3. c[Len(a) + m] = b[m]
        BY <1>6, <4>2
      <4> QED
        BY <1>6, <1>9, <4>1, <4>2, <4>3
    <3> QED
      BY <1>13, <3>1, <3>2, LabelsDeferred
  <2>2. PICK m \in 1..N : c[m] = ResolveStep(k)
    BY <2>1
  <2>3. m \in 1..Len(Script) /\ Script[m] = ResolveStep(k)
    BY <1>10, <2>2
  <2> QED
    BY <1>2, <2>3
<1>14. Len(Script) \in Nat \ {0}
  BY <1>10
<1> QED
  BY <1>12, <1>13, <1>14

\* A script that does all that its command asks for.
DoesAll(s) ==
    /\ \A n \in 1..Len(s) : s[n].do \notin Planning
    /\ \A part \in Parts : Asked(part) # "old" =>
          Asked(part) # "" /\ Leaves(s, Writes(part), Asked(part))
    /\ \A part \in Wanted : \E n \in 1..Len(s) : Fetches(s[n], part)
    /\ Cmd = "readall" => \E n \in 1..Len(s) : s[n].do = "xml"

\* A script of which nothing is asked.
LEMMA NothingAsked ==
    ASSUME setup \in Setups, ~Flash, NEW s, \A n \in 1..Len(s) : s[n].do \notin Planning,
           Cmd \notin {"write", "eraseall", "erase", "read", "readall", "dump"}
    PROVE  DoesAll(s)
<1>1. \A part : Asked(part) = "old"
  BY NotAsked
<1>2. Wanted = {}
  BY DEF Wanted
<1> QED
  BY <1>1, <1>2 DEF DoesAll

\* Scripts of one step and of two.
LEMMA FewSteps ==
    ASSUME NEW a, NEW b, a.do \notin Planning, b.do \notin Planning
    PROVE  /\ \A n \in 1..Len(<< a >>) : << a >>[n].do \notin Planning
           /\ \A n \in 1..Len(<< a, b >>) : << a, b >>[n].do \notin Planning
           /\ \A n \in 1..Len(<< a >> \o << b >>) : (<< a >> \o << b >>)[n].do \notin Planning
           /\ \A n \in 1..Len(<< a >> \o << >>) : (<< a >> \o << >>)[n].do \notin Planning
<1>1. PICK t : t = << a, b >>
  OBVIOUS
<1>2. Len(t) = 2 /\ t[1] = a /\ t[2] = b
  BY <1>1
<1>3. PICK u : u = << a >>
  OBVIOUS
<1>4. Len(u) = 1 /\ u[1] = a
  BY <1>3
<1>5. << a >> \o << b >> = t /\ << a >> \o << >> = u
  <2> DEFINE S == {a, b}
  <2>1. PICK v : v = << b >>
    OBVIOUS
  <2>2. PICK w : w = << >>
    OBVIOUS
  <2>3. /\ t \in Seq(S) /\ u \in Seq(S)
        /\ v \in Seq(S) /\ Len(v) = 1 /\ v[1] = b
        /\ w \in Seq(S) /\ Len(w) = 0
    BY <1>1, <1>3, <2>1, <2>2
  <2> HIDE DEF S
  <2>4. /\ u \o v \in Seq(S) /\ Len(u \o v) = 2
        /\ \A n \in 1..2 : (u \o v)[n] = IF n <= 1 THEN u[n] ELSE v[n - 1]
    <3>1. /\ u \o v \in Seq(S) /\ Len(u \o v) = Len(u) + Len(v)
          /\ \A n \in 1..(Len(u) + Len(v)) :
                (u \o v)[n] = IF n <= Len(u) THEN u[n] ELSE v[n - Len(u)]
      BY <2>3, Joined, Zenon
    <3> QED
      BY <1>4, <2>3, <3>1
  <2>5. (u \o v)[1] = a /\ (u \o v)[2] = b
    BY <1>4, <2>3, <2>4
  <2>6. u \o v = t
    BY <1>2, <2>3, <2>4, <2>5
  <2>7. u \o w = u
    BY <2>2, <2>3
  <2> QED
    BY <1>3, <2>1, <2>2, <2>6, <2>7
<1>6. \A n \in 1..Len(t) : n = 1 \/ n = 2
  BY <1>2
<1>7. \A n \in 1..Len(u) : n = 1
  BY <1>4
<1>8. \A n \in 1..Len(t) : t[n].do \notin Planning
  BY <1>2, <1>6
<1>9. \A n \in 1..Len(u) : u[n].do \notin Planning
  BY <1>4, <1>7
<1> QED
  BY <1>1, <1>3, <1>5, <1>8, <1>9

\* The commands that only print, and those that send one request.
LEMMA AskingScripts ==
    ASSUME setup \in Setups,
           Cmd \in {"printgpt", "storageinfo", "partinfo", "reset", "getslot", "setslot"}
    PROVE  DoesAll(Script)
<1> DEFINE p == Step("print", << >>, "stop")
           x == XmlStep("stop")
           i == Step("info", << >>, "ignore")
<1>1. ~Flash /\ Cmd \notin {"write", "eraseall", "erase", "read", "readall", "dump"}
  BY DEF Flash
<1>2. /\ p.do \notin Planning /\ x.do \notin Planning /\ i.do \notin Planning
      /\ Step("info", << >>, "stop").do \notin Planning
      /\ Step("slot", << >>, "stop").do \notin Planning
      /\ Step("setslot", << >>, "stop").do \notin Planning
      /\ StepFor("power", setup.mode, << >>, "stop").do \notin Planning
  BY DEF XmlStep, Step, StepFor, Planning
<1>3. \/ Script = << p >> \o << x >>
      \/ Script = << p >> \o << >>
      \/ Script = << Step("info", << >>, "stop") >>
      \/ Script = << i, p >>
      \/ Script = << StepFor("power", setup.mode, << >>, "stop") >>
      \/ Script = << Step("slot", << >>, "stop") >>
      \/ Script = << Step("setslot", << >>, "stop") >>
  BY DEF Script, PrintGpt, ShowStorageInfo, PartInfo, ResetModem, GetSlot, SetSlotTo
<1> HIDE DEF p, x, i
<1>4. \A n \in 1..Len(Script) : Script[n].do \notin Planning
  BY <1>2, <1>3, FewSteps
<1> QED
  BY <1>1, <1>4, NothingAsked

\* A step for each label.
LEMMA LabelSteps ==
    ASSUME setup \in Setups, ~Flash, NEW then \in Errands,
           then \in {<< "read" >>, << "probe", "read" >>} \/ (Cmd = "erase" /\ ~setup.raw)
    PROVE  /\ Len(OfLabels(then)) = Len(setup.labels) /\ Len(setup.labels) \in Nat
           /\ \A n \in 1..Len(setup.labels) :
                 /\ OfLabels(then)[n] \in AllSteps /\ OfLabels(then)[n].do = "find"
                 /\ OfLabels(then)[n].label = setup.labels[n] /\ OfLabels(then)[n].then = then
<1>1. Len(setup.labels) \in Nat
  BY DiskTyped DEF SetupFits
<1>2. /\ Len(OfLabels(then)) = Len(setup.labels)
      /\ \A n \in 1..Len(setup.labels) : OfLabels(then)[n] = Find(setup.labels[n], then, "count")
  BY <1>1 DEF OfLabels
<1>3. OfLabels(then) \in Seq(Fit)
  BY OfLabelsFits
<1>4. \A n \in 1..Len(setup.labels) : OfLabels(then)[n] \in AllSteps
  <2> DEFINE F == Fit
  <2>1. OfLabels(then) \in Seq(F)
    BY <1>3
  <2> HIDE DEF F
  <2>2. \A n \in 1..Len(setup.labels) : OfLabels(then)[n] \in F
    BY <1>2, <2>1, ElementOfSeq
  <2> QED
    BY <2>2 DEF F, Fit
<1>5. \A label : /\ Find(label, then, "count").do = "find" /\ Find(label, then, "count").label = label
                  /\ Find(label, then, "count").then = then
  BY DEF Find, StepFor
<1> QED
  BY <1>1, <1>2, <1>4, <1>5

\* gpt_read_partition() for each label
LEMMA ReadScript ==
    ASSUME setup \in Setups, Cmd = "read"
    PROVE  DoesAll(Script)
<1> DEFINE then == IF Len(setup.labels) = 1 THEN << "read" >> ELSE << "probe", "read" >>
<1>1. ~Flash
  BY DEF Flash
<1>2. Script = OfLabels(then)
  BY DEF Script, ReadPartition
<1>3. then \in {<< "read" >>, << "probe", "read" >>} /\ then \in Errands
  BY DEF Errands
<1> HIDE DEF then
<1>4. /\ Len(Script) = Len(setup.labels) /\ Len(setup.labels) \in Nat
      /\ \A n \in 1..Len(setup.labels) :
            Script[n].do = "find" /\ Script[n].label = setup.labels[n] /\ Script[n].then = then
  BY <1>1, <1>2, <1>3, LabelSteps
<1>5. \A n \in 1..Len(Script) : Script[n].do \notin Planning
  BY <1>4 DEF Planning
<1>6. \A part : Asked(part) = "old"
  BY <1>1, NotAsked
<1>7. ASSUME NEW n \in 1..Len(setup.labels) PROVE Fetches(Script[n], Place(setup.labels[n]))
  <2>1. Then(Script[n]) \in {{"read"}, {"probe", "read"}}
    BY <1>3, <1>4, <1>7, ThenIs
  <2> QED
    BY <1>4, <1>7, <2>1 DEF Fetches, Concerns
<1>8. Wanted = {Place(setup.labels[n]) : n \in 1..Len(setup.labels)}
  BY DEF Wanted
<1> QED
  BY <1>4, <1>5, <1>6, <1>7, <1>8 DEF DoesAll

\* gpt_read_all_partitions() and gpt_make_xml()
LEMMA ReadAllScript ==
    ASSUME setup \in Setups, Cmd = "readall"
    PROVE  DoesAll(Script)
<1> DEFINE e == Each(<< "probe", "read" >>, "negative")
           x == XmlStep("ignore")
           c == CheckStep
<1>1. PICK t : t = << e, c, x >>
  OBVIOUS
<1>2. Script = t
  BY <1>1 DEF Script, ReadAll
<1>3. Len(t) = 3 /\ t[1] = e /\ t[2] = c /\ t[3] = x
  BY <1>1
<1>4. e.do = "each" /\ e.then = << "probe", "read" >> /\ x.do = "xml" /\ c.do = "check"
  BY DEF Each, StepFor, XmlStep, CheckStep, Step
<1> HIDE DEF e, x, c
<1>5. \A n \in 1..Len(t) : n = 1 \/ n = 2 \/ n = 3
  BY <1>3
<1>6. \A n \in 1..Len(t) : t[n].do \notin Planning
  BY <1>3, <1>4, <1>5 DEF Planning
<1>7. \A part : Asked(part) = "old"
  BY NotAsked DEF Flash
<1>8. ASSUME NEW part \in Parts PROVE Fetches(t[1], part)
  <2>1. Then(e) = {"probe", "read"}
    BY <1>4, ThenIs
  <2> QED
    BY <1>3, <1>4, <2>1 DEF Fetches, Concerns
<1>9. Wanted = Parts
  BY DEF Wanted
<1>10. 1 \in 1..Len(t) /\ 3 \in 1..Len(t)
  BY <1>3
<1> QED
  BY <1>2, <1>3, <1>4, <1>6, <1>7, <1>8, <1>9, <1>10 DEF DoesAll

\* gpt_erase_partition() for each label, and the erase of a given place
LEMMA EraseScript ==
    ASSUME setup \in Setups, ListsInv, Cmd = "erase"
    PROVE  DoesAll(Script)
<1>1. ~Flash /\ Wanted = {} /\ Script = EraseLabels
  BY DEF Flash, Wanted, Script
<1>2. CASE setup.raw
  <2> DEFINE s == Step("erase", << 1, 1 >>, "count")
  <2>1. Script = << s >> /\ s.do = "erase" /\ s.part = << 1, 1 >>
    BY <1>1, <1>2 DEF EraseLabels, Step
  <2>2. s \in AllSteps
    <3>1. << 1, 1 >> \in Seq(Nat) /\ << >> \in Seq(Words)
      OBVIOUS
    <3> QED
      BY <3>1 DEF AllSteps, Step, Words
  <2> HIDE DEF s
  <2>3. PICK t : t = << s >>
    OBVIOUS
  <2>4. Len(t) = 1 /\ t[1] = s
    BY <2>3
  <2>5. \A n \in 1..Len(t) : t[n].do \notin Planning
    BY <2>1, <2>4 DEF Planning
  <2>6. ASSUME NEW part \in Parts, Asked(part) # "old"
        PROVE  Asked(part) # "" /\ Leaves(t, Writes(part), Asked(part))
    <3>1. part = << 1, 1 >> /\ Asked(part) = "erased"
      BY <1>2, <2>6 DEF Asked
    <3>2. Writes(part)[s] = "erased"
      BY <2>1, <2>2, <3>1 DEF Writes, Result, ChangingSteps
    <3>3. Leaves(t, Writes(part), Writes(part)[s])
      BY <2>3, LeavesOne
    <3> QED
      BY <3>1, <3>2, <3>3
  <2> QED
    BY <1>1, <2>1, <2>3, <2>5, <2>6 DEF DoesAll
<1>3. CASE ~setup.raw
  <2>1. Script = OfLabels(<< "erase" >>) /\ << "erase" >> \in Errands
    BY <1>1, <1>3 DEF EraseLabels, Errands
  <2>2. /\ Len(Script) = Len(setup.labels) /\ Len(setup.labels) \in Nat
        /\ \A n \in 1..Len(setup.labels) :
              /\ Script[n] \in AllSteps /\ Script[n].do = "find"
              /\ Script[n].label = setup.labels[n] /\ Script[n].then = << "erase" >>
    BY <1>1, <1>3, <2>1, LabelSteps
  <2>3. \A n \in 1..Len(Script) : Script[n].do \notin Planning
    BY <2>2 DEF Planning
  <2>4. ASSUME NEW part \in Parts, Asked(part) # "old"
        PROVE  Asked(part) # "" /\ Leaves(Script, Writes(part), Asked(part))
    <3>1. /\ Asked(part) = "erased"
          /\ \E n \in 1..Len(setup.labels) : part = Place(setup.labels[n])
      BY <1>3, <2>4 DEF Asked
    <3>2. ASSUME NEW n \in 1..Len(setup.labels)
          PROVE  Writes(part)[Script[n]] = IF part = Place(setup.labels[n]) THEN "erased" ELSE ""
      <4>1. Outcome(Script[n]) = "erased"
        <5>1. Then(Script[n]) = {"erase"}
          BY <2>2, <3>2, ThenIs
        <5> QED
          BY <5>1 DEF Outcome
      <4>2. Concerns(Script[n], part) <=> part = Place(setup.labels[n])
        BY <2>2, <3>2 DEF Concerns
      <4>3. Writes(part)[Script[n]] = IF Concerns(Script[n], part) THEN Outcome(Script[n]) ELSE ""
        BY <2>2, <3>2, ErrandWrites
      <4> QED
        BY <4>1, <4>2, <4>3
    <3>3. /\ \A n \in 1..Len(Script) : Writes(part)[Script[n]] \in {"", "erased"}
          /\ \E n \in 1..Len(Script) : Writes(part)[Script[n]] = "erased"
      BY <2>2, <3>1, <3>2
    <3>4. Leaves(Script, Writes(part), "erased")
      BY <2>2, <3>3, LeavesSame
    <3> QED
      BY <3>1, <3>4
  <2> QED
    BY <1>1, <2>3, <2>4 DEF DoesAll
<1> QED
  BY <1>2, <1>3

\* gpt_write_partition()
LEMMA WriteScript ==
    ASSUME setup \in Setups, Cmd = "write"
    PROVE  DoesAll(Script)
<1> DEFINE s == Find(setup.labels[1], << "erase", "program" >>, "stop")
<1>1. ~Flash /\ Wanted = {} /\ Script = << s >>
  BY DEF Flash, Wanted, Script, WritePartition
<1>2. 1 \in 1..Len(setup.labels)
  <2>1. setup.labels \in Seq(STRING) /\ setup.labels # << >>
    BY DiskTyped DEF SetupFits, Cmd
  <2> QED
    BY <2>1
<1>3. s \in AllSteps
  <2>1. << "erase", "program" >> \in Errands
    BY DEF Errands
  <2>2. s \in Fit
    BY <1>1, <1>2, <2>1, FindFits
  <2> QED
    BY <2>2 DEF Fit
<1>4. s.do = "find" /\ s.label = setup.labels[1] /\ s.then = << "erase", "program" >>
  BY DEF Find, StepFor
<1> HIDE DEF s
<1>5. PICK t : t = << s >>
  OBVIOUS
<1>6. Len(t) = 1 /\ t[1] = s
  BY <1>5
<1>7. \A n \in 1..Len(t) : t[n].do \notin Planning
  BY <1>4, <1>6 DEF Planning
<1>8. ASSUME NEW part \in Parts, Asked(part) # "old"
      PROVE  Asked(part) # "" /\ Leaves(t, Writes(part), Asked(part))
  <2>1. Asked(part) = "new" /\ part = Place(setup.labels[1])
    BY <1>8 DEF Asked
  <2>2. Outcome(s) = "new"
    <3>1. Then(s) = {"erase", "program"}
      BY <1>4, ThenIs
    <3> QED
      BY <3>1 DEF Outcome
  <2>3. Concerns(s, part)
    BY <1>4, <2>1 DEF Concerns
  <2>4. Writes(part)[s] = IF Concerns(s, part) THEN Outcome(s) ELSE ""
    BY <1>3, <1>4, ErrandWrites
  <2>5. Leaves(t, Writes(part), Writes(part)[s])
    BY <1>5, LeavesOne
  <2> QED
    BY <2>1, <2>2, <2>3, <2>4, <2>5
<1> QED
  BY <1>1, <1>5, <1>7, <1>8 DEF DoesAll

\* gpt_erase_all_partitions()
LEMMA EraseAllScript ==
    ASSUME setup \in Setups, ListsInv, Cmd = "eraseall"
    PROVE  DoesAll(Script)
<1> DEFINE s == Each(<< "erase" >>, "count")
<1>1. Wanted = {} /\ Script = << s >>
  BY DEF Wanted, Script, EraseAll
<1>2. s.do = "each" /\ s.then = << "erase" >>
  BY DEF Each, StepFor
<1>3. s \in AllSteps
  <2>1. << "erase" >> \in Errands /\ "count" \in Words /\ ~Meddles
    BY DEF Errands, Words, Meddles, Flash
  <2>2. s \in Fit
    BY <2>1, EachFits
  <2> QED
    BY <2>2 DEF Fit
<1> HIDE DEF s
<1>4. PICK t : t = << s >>
  OBVIOUS
<1>5. Len(t) = 1 /\ t[1] = s
  BY <1>4
<1>6. \A n \in 1..Len(t) : t[n].do \notin Planning
  BY <1>2, <1>5 DEF Planning
<1>7. ASSUME NEW part \in Parts
      PROVE  Asked(part) = "erased" /\ Leaves(t, Writes(part), "erased")
  <2>1. Asked(part) = "erased"
    BY DEF Asked
  <2>2. Outcome(s) = "erased"
    <3>1. Then(s) = {"erase"}
      BY <1>2, ThenIs
    <3> QED
      BY <3>1 DEF Outcome
  <2>3. Concerns(s, part)
    BY <1>2 DEF Concerns
  <2>4. Writes(part)[s] = IF Concerns(s, part) THEN Outcome(s) ELSE ""
    BY <1>2, <1>3, ErrandWrites
  <2>5. Leaves(t, Writes(part), Writes(part)[s])
    BY <1>4, LeavesOne
  <2> QED
    BY <2>1, <2>2, <2>3, <2>4, <2>5
<1> QED
  BY <1>1, <1>4, <1>6, <1>7 DEF DoesAll

Elements(s) == {s[n] : n \in 1..Len(s)}

\* What is in one of two sequences is in both together.
LEMMA Among ==
    ASSUME NEW S, NEW a \in Seq(S), NEW b \in Seq(S)
    PROVE  Elements(a \o b) = Elements(a) \cup Elements(b)
<1>1. PICK d : d = a \o b
  OBVIOUS
<1>2. /\ Len(d) = Len(a) + Len(b) /\ Len(a) \in Nat /\ Len(b) \in Nat
      /\ \A n \in 1..(Len(a) + Len(b)) : d[n] = IF n <= Len(a) THEN a[n] ELSE b[n - Len(a)]
  BY <1>1, Joined
<1>3. ASSUME NEW m \in 1..Len(a) PROVE \E n \in 1..Len(d) : d[n] = a[m]
  <2>1. m \in 1..(Len(a) + Len(b)) /\ m <= Len(a)
    BY <1>2
  <2> QED
    BY <1>2, <2>1
<1>4. ASSUME NEW m \in 1..Len(b) PROVE \E n \in 1..Len(d) : d[n] = b[m]
  <2>1. /\ Len(a) + m \in 1..(Len(a) + Len(b)) /\ ~(Len(a) + m <= Len(a)) /\ Len(a) + m - Len(a) = m
    BY <1>2
  <2>2. d[Len(a) + m] = b[m] /\ Len(a) + m \in 1..Len(d)
    BY <1>2, <2>1
  <2> QED
    BY <2>2
<1>5. ASSUME NEW n \in 1..Len(d)
      PROVE  (\E m \in 1..Len(a) : d[n] = a[m]) \/ \E m \in 1..Len(b) : d[n] = b[m]
  <2>1. n \in 1..(Len(a) + Len(b))
    BY <1>2
  <2>2. CASE n <= Len(a)
    <3>1. n \in 1..Len(a)
      BY <1>2, <2>1, <2>2
    <3> QED
      BY <1>2, <2>1, <2>2, <3>1
  <2>3. CASE ~(n <= Len(a))
    <3>1. n - Len(a) \in 1..Len(b)
      BY <1>2, <2>1, <2>3
    <3> QED
      BY <1>2, <2>1, <2>3, <3>1
  <2> QED
    BY <2>2, <2>3
<1>6. Elements(d) = Elements(a) \cup Elements(b)
  <2>1. ASSUME NEW v \in Elements(d) PROVE v \in Elements(a) \cup Elements(b)
    <3>1. PICK n \in 1..Len(d) : v = d[n]
      BY <2>1 DEF Elements
    <3>2. (\E m \in 1..Len(a) : d[n] = a[m]) \/ \E m \in 1..Len(b) : d[n] = b[m]
      BY <1>5, <3>1
    <3> QED
      BY <3>1, <3>2 DEF Elements
  <2>2. ASSUME NEW v \in Elements(a) PROVE v \in Elements(d)
    <3>1. PICK m \in 1..Len(a) : v = a[m]
      BY <2>2 DEF Elements
    <3>2. \E n \in 1..Len(d) : d[n] = a[m]
      BY <1>3, <3>1
    <3> QED
      BY <3>1, <3>2 DEF Elements
  <2>3. ASSUME NEW v \in Elements(b) PROVE v \in Elements(d)
    <3>1. PICK m \in 1..Len(b) : v = b[m]
      BY <2>3 DEF Elements
    <3>2. \E n \in 1..Len(d) : d[n] = b[m]
      BY <1>4, <3>1
    <3> QED
      BY <3>1, <3>2 DEF Elements
  <2> QED
    BY <2>1, <2>2, <2>3
<1> QED
  BY <1>1, <1>6

\* gpt_read_full_storage() and nand_read_full_storage()
LEMMA DumpScript ==
    ASSUME setup \in Setups, Cmd = "dump"
    PROVE  DoesAll(Script)
<1>1. ~Flash /\ Script = ReadStorage /\ Wanted = {part \in Parts : part[2] = 1}
  BY DEF Flash, Script, Wanted
<1>2. \A part : Asked(part) = "old"
  BY <1>1, NotAsked
<1>3. CASE Nand
  <2> DEFINE i == Step("info", << >>, "stop")
             r == Step("read", << 1, 1 >>, "stop")
  <2>1. i.do = "info" /\ r.do = "read" /\ r.part = << 1, 1 >>
    BY DEF Step
  <2>2. Script = << i, r >>
    BY <1>1, <1>3 DEF ReadStorage
  <2> HIDE DEF i, r
  <2>3. PICK t : t = << i, r >>
    OBVIOUS
  <2>4. Len(t) = 2 /\ t[1] = i /\ t[2] = r /\ 2 \in 1..Len(t)
    BY <2>3
  <2>5. \A n \in 1..Len(t) : t[n].do \notin Planning
    <3>1. i.do \notin Planning /\ r.do \notin Planning
      BY <2>1 DEF Planning
    <3> QED
      BY <2>3, <3>1, FewSteps
  <2>6. ASSUME NEW part \in Wanted PROVE Fetches(t[2], part)
    <3>1. part \in Parts /\ part[2] = 1
      BY <1>1, <2>6
    <3>2. Len(Disk) = 1
      BY <1>3, DiskTyped DEF SetupFits, Nand, Disk
    <3>3. part = << part[1], part[2] >> /\ part[1] = 1
      BY <3>1, <3>2, PartsAre
    <3>4. part = << 1, 1 >>
      BY <3>1, <3>3
    <3> QED
      BY <2>1, <2>4, <3>4 DEF Fetches
  <2> QED
    BY <1>1, <1>2, <2>2, <2>3, <2>4, <2>5, <2>6 DEF DoesAll
<1>4. CASE ~Nand
  <2> DEFINE Lun(l) == Step("lun", << l, 1 >>, "skip")
             i == Step("info", << >>, "stop")
             z == Step("luns", << >>, "stop")
             ss == [l \in 1..Len(Disk) |-> << Lun(l) >>]
             S == {i, z} \cup {Lun(l) : l \in 1..Len(Disk)}
             a == << i >>
             c == << z >>
             flat == FlattenSeq(ss)
  <2>1. Script = (a \o flat) \o c
    BY <1>1, <1>4 DEF ReadStorage
  <2>2. /\ i.do = "info" /\ z.do = "luns"
        /\ \A l : Lun(l).do = "lun" /\ Lun(l).part = << l, 1 >>
    BY DEF Step
  <2>3. Len(Disk) \in Nat
    BY DiskTyped
  <2>4. Len(ss) = Len(Disk) /\ \A l \in 1..Len(Disk) : ss[l] = << Lun(l) >> /\ Lun(l) \in S
    <3>1. Len(ss) = Len(Disk)
      BY <2>3
    <3>2. \A l \in 1..Len(Disk) : ss[l] = << Lun(l) >>
      OBVIOUS
    <3>3. \A l \in 1..Len(Disk) : Lun(l) \in S
      OBVIOUS
    <3> QED
      BY <3>1, <3>2, <3>3
  <2>5. ss = << >> \/ Len(ss) # 0
    <3>1. CASE Len(Disk) = 0
      BY <2>3, <3>1
    <3>2. CASE Len(Disk) # 0
      BY <2>4, <3>2
    <3> QED
      BY <3>1, <3>2
  <2>6. i \in S /\ z \in S
    OBVIOUS
  <2>7. \A s \in S : s.do \notin Planning
    BY <2>2 DEF Planning
  <2> HIDE DEF Lun, i, z, ss, S
  <2>8. a \in Seq(S) /\ c \in Seq(S)
    BY <2>6
  <2>9. ASSUME NEW l \in 1..Len(Disk) PROVE ss[l] \in Seq(S) /\ Len(ss[l]) = 1 /\ ss[l][1] = Lun(l)
    <3>1. PICK t : t = << Lun(l) >>
      OBVIOUS
    <3>2. t \in Seq(S) /\ Len(t) = 1 /\ t[1] = Lun(l)
      BY <2>4, <3>1
    <3> QED
      BY <2>4, <3>1, <3>2
  <2>10. Gathers(flat, ss, S, Len(ss))
    BY <2>3, <2>4, <2>5, <2>9, Flattened
  <2> HIDE DEF a, c, flat
  <2>11. Script \in Seq(S)
    <3>1. flat \in Seq(S)
      BY <2>10 DEF Gathers
    <3>2. a \o flat \in Seq(S)
      BY <2>8, <3>1, Concatenated
    <3> QED
      BY <2>1, <2>8, <3>2, Concatenated
  <2>12. \A n \in 1..Len(Script) : Script[n].do \notin Planning
    BY <2>7, <2>11, ElementOfSeq
  <2>13. ASSUME NEW part \in Wanted PROVE \E n \in 1..Len(Script) : Fetches(Script[n], part)
    <3>1. part \in Parts /\ part[2] = 1
      BY <1>1, <2>13
    <3>2. PICK l \in 1..Len(Disk) : part = << l, 1 >>
      BY <3>1, PartsAre
    <3>3. 1 \in 1..Len(ss[l])
      BY <2>9
    <3>a. l \in 1..Len(ss) /\ ss[l][1] = Lun(l)
      BY <2>4, <2>9
    <3>b. \A h \in 1..Len(ss) : \A k \in 1..Len(ss[h]) : \E m \in 1..Len(flat) : flat[m] = ss[h][k]
      BY <2>10 DEF Gathers
    <3>4. PICK m \in 1..Len(flat) : flat[m] = Lun(l)
      BY <3>3, <3>a, <3>b
    <3>5. flat \in Seq(S)
      BY <2>10 DEF Gathers
    <3>c. a \in Seq(S) /\ c \in Seq(S)
      BY <2>8
    <3>6. flat[m] \in Elements(flat)
      BY <3>4 DEF Elements
    <3>7. Elements(Script) = (Elements(a) \cup Elements(flat)) \cup Elements(c)
      <4>1. PICK u : u = a \o flat
        OBVIOUS
      <4>2. Elements(u) = Elements(a) \cup Elements(flat)
        BY <3>5, <3>c, <4>1, Among
      <4>3. u \in Seq(S)
        BY <3>5, <3>c, <4>1, Concatenated
      <4>4. Elements(u \o c) = Elements(u) \cup Elements(c)
        BY <3>c, <4>3, Among
      <4>5. Script = u \o c
        BY <2>1, <4>1
      <4> QED
        BY <4>2, <4>4, <4>5
    <3>9. Lun(l) \in Elements(Script)
      BY <3>4, <3>6, <3>7
    <3>8. PICK n \in 1..Len(Script) : Script[n] = Lun(l)
      BY <3>9 DEF Elements
    <3> QED
      BY <2>2, <3>1, <3>2, <3>8 DEF Fetches
  <2> QED
    BY <1>1, <1>2, <2>12, <2>13 DEF DoesAll
<1> QED
  BY <1>3, <1>4

\* Every script but that of a flash does all that is asked for.
LEMMA ScriptDoes ==
    ASSUME setup \in Setups, ListsInv, Cmd \notin {"ramdump", "diag2edl"}, ~Flash
    PROVE  DoesAll(Script)
<1>1. Cmd \in Subcommands
  BY DiskTyped DEF SetupFits, Cmd
<1> QED
  BY <1>1, AskingScripts, ReadScript, ReadAllScript, DumpScript, EraseScript, WriteScript, EraseAllScript
     DEF Subcommands, Flash
-----------------------------------------------------------------------------
(* A session begins, and a command ends.                                   *)

\* firehose_detect_and_configure(): the script is all that is asked for.
LEMMA ConfigureDue ==
    ASSUME ChangeInv, ExitInv, Configure
    PROVE  ExitInv'
<1>1. /\ setup' = setup /\ UNCHANGED listVars /\ docs' = docs /\ queue' = queue /\ ufsdoc' = ufsdoc
      /\ UNCHANGED << tableVars, dataVars >> /\ ufs' = ufs
      /\ pc = "configure" /\ setup \in Setups /\ Fresh /\ ListsInv
      /\ \/ pc' = "work" /\ ret' = ret /\ unsaid' = unsaid /\ steps' = Script
         \/ ret' = -1
  BY DEF Configure, Goto, Fails, listVars, ChangeInv, PathInv, Early
<1>2. Cmd \notin {"ramdump", "diag2edl"}
  BY <1>1 DEF ChangeInv, PathInv
<1>3. PlainInv'
  BY <1>1, PlainKept DEF ExitInv, dataVars
<1>4. ASSUME Clean' PROVE DueInv'
  <2>1. pc' = "work" /\ steps' = Script /\ Clean
    BY <1>1, <1>4 DEF Clean
  <2>2. PlainInv /\ DueInv
    BY <2>1 DEF ExitInv
  <2>3. EffectsDue' /\ ReadsDue'
    BY <1>1, <2>2, ListsDue DEF DueInv
  <2>4. WholeInv'
    BY <1>1 DEF WholeInv, Fresh, tableVars
  <2>5. /\ Tags' = Tags /\ Parts' = Parts /\ Wanted' = Wanted /\ Cmd' = Cmd
        /\ \A part : Asked(part)' = Asked(part) /\ Writes(part)' = Writes(part)
        /\ \A tag : PlaceOf(tag)' = PlaceOf(tag)
        /\ \A label : Place(label)' = Place(label)
        /\ \A s, part : Fetches(s, part)' = Fetches(s, part)
        /\ Provisions' = Provisions
    BY <1>1, FixedEffects, FixedLists, FixedDisk, FixedAsked, FixedLabel DEF Provisions
  <2>6. CASE Flash
    <3>1. Wanted = {} /\ Cmd # "readall"
      BY <2>6 DEF Wanted, Flash
    <3>2. SavedDue' /\ XmlDue'
      BY <2>5, <3>1 DEF SavedDue, XmlDue
    <3>3. CASE Provisions
      <4>1. Script = Provision
        BY <2>6, <3>3 DEF Script, Flash, FlashSteps
      <4>2. Len(ufsdoc) \in Nat \ {0}
        BY <1>1, <2>6, <3>3, PassFits DEF UfsSteps
      <4>3. 1 \in 1..(2 * Len(ufsdoc))
        BY <4>2
      <4>4. Len(Provision) = 2 * Len(ufsdoc)
        BY <1>1, <2>6, <3>3, <4>3, ProvisionIs
      <4>5. ASSUME NEW k \in 1..Len(Script) PROVE Script[k].do \notin Planning
        <5>1. k \in 1..(2 * Len(ufsdoc))
          BY <4>1, <4>4
        <5>2. Provision[k].do = (IF k <= Len(ufsdoc) THEN "check ufs" ELSE "commit ufs")
          BY <1>1, <2>6, <3>3, <5>1, ProvisionIs
        <5> QED
          BY <4>1, <5>2 DEF Planning
      <4>6. ~PlanPending'
        BY <2>1, <4>5 DEF PlanPending
      <4>7. steps' # << >>
        <5>1. Len(Script) # 0
          BY <4>1, <4>2, <4>4
        <5> QED
          BY <2>1, <5>1
      <4> QED
        BY <2>1, <2>3, <2>4, <2>5, <3>2, <3>3, <4>6, <4>7 DEF DueInv, WorkDue, UfsDue
    <3>4. CASE ~Provisions
      <4>1. /\ Len(Script) \in Nat \ {0}
            /\ \A n \in 1..Len(Script) : Script[n].do = (IF n = Len(Script) THEN "plan" ELSE "resolve")
            /\ \A k \in 1..Len(queue) : queue[k].gpt # "" =>
                  \E n \in 1..Len(Script) : Script[n].do = "resolve" /\ Script[n].part = << k >>
        BY <1>1, <2>6, <3>4, FlashScript
      <4>2. Untouched'
        BY <1>1, UntouchedKept DEF Fresh, dataVars
      <4>3. PlanDue'
        BY <1>1, <2>1, <4>1, <4>2 DEF PlanDue, ToResolve
      <4>4. PlanPending'
        <5>1. Len(Script) \in 1..Len(Script)
          <6>1. PICK N \in Nat \ {0} : N = Len(Script)
            BY <4>1
          <6>2. N \in 1..N
            BY <6>1
          <6> QED
            BY <6>1, <6>2
        <5>2. Script[Len(Script)].do \in Planning
          BY <4>1, <5>1 DEF Planning
        <5> QED
          BY <2>1, <5>1, <5>2 DEF PlanPending
      <4>5. UfsDue'
        BY <2>5, <3>4 DEF UfsDue
      <4> QED
        BY <2>1, <2>3, <2>4, <3>2, <4>3, <4>4, <4>5 DEF DueInv, WorkDue
    <3> QED
      BY <3>3, <3>4
  <2>7. CASE ~Flash
    <3>1. DoesAll(Script)
      BY <1>1, <1>2, <2>7, ScriptDoes
    <3>2. ~PlanPending'
      BY <2>1, <3>1 DEF PlanPending, DoesAll
    <3>3. ~Provisions
      BY <2>2, <2>7 DEF PlainInv, Provisions
    <3>4. UfsDue'
      BY <2>5, <3>3 DEF UfsDue
    <3>5. StoreDue'
      <4> SUFFICES ASSUME NEW part \in Parts, Asked(part) # "old"
                   PROVE  \E w : Leaves(Script, Writes(part), w) /\ After(store'[part], w) = Asked(part)
        BY <2>1, <2>5 DEF StoreDue, Leaves, Lead
      <4>1. Asked(part) # "" /\ Leaves(Script, Writes(part), Asked(part))
        BY <3>1 DEF DoesAll
      <4> QED
        BY <4>1 DEF After
    <3>6. BackupsDue'
      <4>1. Len(Tags) = 0
        BY <1>1, <2>7, NotAsked
      <4> QED
        BY <2>5, <4>1 DEF BackupsDue
    <3>7. SavedDue' /\ XmlDue'
      BY <2>1, <2>5, <3>1 DEF SavedDue, XmlDue, DoesAll
    <3> QED
      BY <2>1, <2>3, <2>4, <3>2, <3>4, <3>5, <3>6, <3>7 DEF DueInv, WorkDue
  <2> QED
    BY <2>6, <2>7
<1> QED
  BY <1>3, <1>4 DEF ExitInv

\* Every step keeps what is due, or its failure is seen.
LEMMA NextExit ==
    ASSUME ChangeInv, ExitInv, [Next]_vars
    PROVE  ExitInv'
<1>1. CASE UNCHANGED vars
  <2>1. /\ UNCHANGED << setup, listVars, work >> /\ setup' = setup /\ UNCHANGED listVars
        /\ store' = store /\ names' = names /\ steps' = steps /\ pc' = pc /\ (Clean' => Clean)
    BY <1>1 DEF vars, qdlVars, listVars, partVars, work, Clean
  <2>2. PlainInv'
    BY <2>1, PlainKept DEF ExitInv
  <2>3. ASSUME Clean' PROVE DueInv'
    <3>1. DueInv
      BY <2>1, <2>3 DEF ExitInv
    <3>2. EffectsDue' /\ ReadsDue' /\ WholeInv' /\ (WorkDue => WorkDue')
      BY <2>1, <3>1, DueKept DEF DueInv
    <3> QED
      BY <2>1, <3>1, <3>2 DEF DueInv
  <2> QED
    BY <2>2, <2>3 DEF ExitInv
<1>2. CASE Start \/ Reach \/ User
  BY <1>2, ReachDue
<1>3. CASE Load
  BY <1>3, LoadDue
<1>4. CASE Configure
  BY <1>4, ConfigureDue
<1>5. CASE Resolve
  BY <1>5, ResolveDue
<1>6. CASE PlanOps
  BY <1>6, PlanOpsDue
<1>7. CASE SendUfs
  BY <1>7, SendDue
<1>8. CASE SetBootable \/ LunInfo
  BY <1>8, SideDue
<1>9. CASE Work
  BY <1>9, WorkKeepsDue
<1>10. CASE Worked \/ Close \/ (Over /\ UNCHANGED vars)
  BY <1>10, EndsDue
<1> QED
  BY <1>1, <1>2, <1>3, <1>4, <1>5, <1>6, <1>7, <1>8, <1>9, <1>10 DEF Next, Run

\* In every state of a run to which nothing has happened, what is asked for is
\* done or still to come.
THEOREM DueHolds == Spec => []ExitInv
<1>1. Init => ExitInv
  BY InitDue
<1>2. ChangeInv /\ ExitInv /\ [Next]_vars => ExitInv'
  BY NextExit
<1> QED
  BY <1>1, <1>2, ChangesHold, PTL DEF Spec

\* A command that exits with 0 has done what it was asked, all of it and
\* nothing else, unless a step was left out of which no result tells.
THEOREM ExitIsTrueHolds == Spec => []ExitIsTrue
<1>1. ChangeInv /\ ExitInv /\ IInv => ExitIsTrue
  <2> SUFFICES ASSUME ChangeInv, ExitInv, IInv, pc = "exit", ExitStatus = 0, unsaid = {}
               PROVE  /\ \A part \in Parts : store[part] = (IF Provisions THEN "old" ELSE Asked(part))
                      /\ \A part \in Wanted : part \in DOMAIN saved /\ saved[part] = Image(part)
                      /\ Provisions \/ \A n \in 1..Len(Tags) :
                            Tags[n].kind = "read" => PlaceOf(Tags[n]) \in DOMAIN backups
                      /\ Provisions => ufs.applied = ufsdoc
                      /\ Cmd = "readall" => DOMAIN names.xml = Parts
    BY DEF ExitIsTrue
  <2>1. ret = 0 /\ Clean
    BY DEF ExitStatus, Clean
  <2>2. PlainInv /\ WorkDue /\ steps = << >>
    BY <2>1 DEF ExitInv, DueInv
  <2>3. \A n \in 1..Len(steps) : FALSE
    <3>1. Len(steps) = 0
      BY <2>2
    <3> QED
      BY <3>1
  <2>4. ~PlanPending
    BY <2>3 DEF PlanPending
  <2>5. (Provisions \/ (StoreDue /\ BackupsDue)) /\ UfsDue /\ SavedDue /\ XmlDue
    BY <2>2, <2>4 DEF WorkDue
  <2>6. ASSUME NEW part \in Parts PROVE store[part] = (IF Provisions THEN "old" ELSE Asked(part))
    <3>1. CASE Provisions
      BY <2>2, <3>1 DEF PlainInv, Untouched
    <3>2. CASE ~Provisions /\ Asked(part) = "old"
      <4>1. ~Touchable(part)
        BY <2>1, <3>2 DEF Touchable
      <4> QED
        BY <3>2, <4>1 DEF ChangeInv, StoreInv
    <3>3. CASE ~Provisions /\ Asked(part) # "old"
      <4>1. PICK w : Leaves(steps, Writes(part), w) /\ After(store[part], w) = Asked(part)
        BY <2>5, <3>3 DEF StoreDue
      <4>2. w = ""
        BY <2>3, <4>1 DEF Leaves, Lead
      <4> QED
        BY <3>3, <4>1, <4>2 DEF After
    <3> QED
      BY <3>1, <3>2, <3>3
  <2>7. \A part \in Wanted : part \in DOMAIN saved /\ saved[part] = Image(part)
    BY <2>3, <2>5 DEF SavedDue, IInv
  <2>8. Provisions \/ \A n \in 1..Len(Tags) :
           Tags[n].kind = "read" => PlaceOf(Tags[n]) \in DOMAIN backups
    BY <2>3, <2>5 DEF BackupsDue
  <2>9. Provisions => ufs.applied = ufsdoc
    BY <2>2, <2>5 DEF UfsDue
  <2>10. Cmd = "readall" => DOMAIN names.xml = Parts
    BY <2>3, <2>5 DEF XmlDue
  <2> QED
    BY <2>6, <2>7, <2>8, <2>9, <2>10
<1> QED
  BY <1>1, DueHolds, ChangesHold, Invariant, PTL
=============================================================================
