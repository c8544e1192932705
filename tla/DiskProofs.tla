---------------------------- MODULE DiskProofs ----------------------------
(***************************************************************************)
(* Proofs about loading modules, for sectors, sector counts and modules of *)
(* every size and any number of calls: where the drive and the driver are  *)
(* in the same transfer, as long as the driver has never read the port too *)
(* early.                                                                  *)
(***************************************************************************)
EXTENDS Disk, TLAPS

Modelled == Modules \cup {[offset |-> 0, length |-> 0]}

DriveState == [bsy : BOOLEAN, drq : BOOLEAN, err : BOOLEAN,
               sector : Nat, word : Nat, left : Nat]

(* What the variables hold. *)
DiskTypeOK ==
  /\ pc \in {"idle", "command", "busy", "ready", "skip", "write", "insw",
             "drain", "return"}
  /\ module \in Modelled
  /\ ecx \in Int /\ ax \in {"junk", "ok", "error"}
  /\ block \in Seq(Int)
  /\ drive \in DriveState
  /\ start \in DriveState /\ late \in BOOLEAN /\ ignored \in BOOLEAN

FirstSector == module.offset \div SectorBytes
OffsetWords == module.offset \div 2
LengthWords == module.length \div 2

(* Words that this call has read from the port. *)
WordsRead ==
  IF pc \in {"busy", "ready"} THEN 0
  ELSE IF pc = "skip" THEN OffsetWords - ecx
  ELSE OffsetWords + Len(block)

(* The counters of the two loops, and a call that starts afresh. *)
LoopCounts ==
  /\ pc = "command" => ~late
  /\ pc \in {"command", "busy", "ready", "skip", "write"} => block = <<>>
  /\ pc = "skip" => ecx \in 1 .. OffsetWords
  /\ pc = "insw" => ecx >= 0 /\ Len(block) + ecx = LengthWords
  /\ pc = "drain" \/ (pc = "return" /\ ax # "error") => Len(block) = LengthWords

(* A drive without sectors left has nothing to deliver. *)
DriveConsistent ==
  /\ drive.drq => ~drive.bsy
  /\ drive.bsy \/ drive.drq => drive.left > 0
  /\ drive.word < SectorWords

(* A command that the drive takes sends it to the module's sector. *)
Started ==
  pc \in {"busy", "ready", "skip", "write", "insw", "drain", "return"} /\ ~ignored =>
    start.sector = FirstSector /\ start.word = 0

Reading == pc \in {"busy", "ready", "skip", "write", "insw"}

(* The drive is as far from where it stood at the command as the driver's  *)
(* counters say, whether it took the command or ignored it.                *)
InStep ==
  Reading /\ ~late /\ drive.left > 0 =>
    Position(drive) = Position(start) + WordsRead

(* Once the drive has data, it has all words up to the end of the sector   *)
(* in which it stood at the command: the driver reads none of them too     *)
(* early.                                                                  *)
FirstSectorReady ==
  Reading =>
    /\ start.word + WordsRead <= SectorWords => ~late
    /\ pc \in {"skip", "write", "insw"} /\ start.word + WordsRead < SectorWords =>
         drive.drq /\ drive.word = start.word + WordsRead
    /\ pc \in {"busy", "ready"} => ~late /\ drive.word = start.word

(* What has been stored so far. *)
BlockGood ==
  \A k \in 1 .. Len(block) :
    ~late \/ start.word + OffsetWords + k <= SectorWords =>
      block[k] = Position(start) + OffsetWords + k - 1

Stored == pc \in {"insw", "drain", "return"} => BlockGood

DiskInv ==
  /\ DiskTypeOK /\ LoopCounts /\ DriveConsistent /\ Started /\ InStep
  /\ FirstSectorReady /\ Stored

(***************************************************************************)
(* Arithmetic                                                              *)
(***************************************************************************)

(* A sector has at least one word. *)
LEMMA SectorWordsPositive == SectorWords \in Nat /\ SectorWords > 0
<1>1. SectorBytes >= CountRange
  <2>1. CASE SectorBytes < CountRange
    <3>1. SectorBytes % CountRange = SectorBytes
      BY <2>1, DiskAssumption
    <3> QED BY <3>1, DiskAssumption
  <2> QED BY <2>1, DiskAssumption
<1> QED BY <1>1, DiskAssumption DEF SectorWords

(* The words of a module and the sector it starts in. *)
LEMMA ModuleWords ==
  ASSUME module \in Modelled
  PROVE  /\ module.offset \in Nat /\ module.length \in Nat
         /\ FirstSector \in Nat /\ OffsetWords \in Nat /\ LengthWords \in Nat
         /\ FirstSector * SectorWords \in Nat
         /\ 2 * OffsetWords = module.offset /\ 2 * LengthWords = module.length
<1>1. /\ module.offset \in Nat /\ module.offset % 2 = 0
      /\ module.length \in Nat /\ module.length % 2 = 0
  BY DiskAssumption DEF Modelled
<1>2. OffsetWords \in Nat /\ LengthWords \in Nat
  BY <1>1 DEF OffsetWords, LengthWords
<1>3. 2 * OffsetWords = module.offset /\ 2 * LengthWords = module.length
  BY <1>1 DEF OffsetWords, LengthWords
<1>4. FirstSector \in Nat
  BY <1>1, DiskAssumption DEF FirstSector
<1>5. FirstSector * SectorWords \in Nat
  BY <1>4, SectorWordsPositive
<1> QED BY <1>1, <1>2, <1>3, <1>4, <1>5

(* The drive is told to read at least one sector. *)
LEMMA SectorCountPositive ==
  ASSUME module \in Modelled
  PROVE  SectorCount \in Nat /\ SectorCount > 0
<1>1. Bytes * SectorBytes \in Nat
  BY ModuleWords, DiskAssumption DEF Bytes
<1>2. Shifted \in Nat
  BY <1>1, DiskAssumption DEF Shifted
<1>3. Shifted % CountRange \in Nat
  BY <1>2, DiskAssumption
<1> QED BY <1>3, DiskAssumption DEF SectorCount

(* The first word of the next sector follows the last one of this. *)
LEMMA NextSector ==
  ASSUME NEW s \in Nat
  PROVE  (s + 1) * SectorWords = s * SectorWords + SectorWords
BY SectorWordsPositive

(* The place of a drive on the disk is the number of a word.               *)
LEMMA PositionType ==
  ASSUME NEW d \in DriveState
  PROVE  Position(d) \in Nat
<1>1. d.sector \in Nat /\ d.word \in Nat
  BY DEF DriveState
<1>2. d.sector * SectorWords \in Nat
  BY <1>1, SectorWordsPositive
<1> QED BY <1>1, <1>2 DEF Position

(* The words of a module within the first sector.                          *)
LEMMA WordsInSector ==
  ASSUME module \in Modelled, Bytes <= SectorBytes
  PROVE  /\ module.offset \in Nat /\ module.length \in Nat
         /\ OffsetWords \in Nat /\ LengthWords \in Nat
         /\ OffsetWords + LengthWords <= SectorWords
         /\ LengthWords > 0 => FirstSector = 0
<1>1. /\ module.offset \in Nat /\ module.length \in Nat
      /\ OffsetWords \in Nat /\ LengthWords \in Nat
      /\ 2 * OffsetWords = module.offset /\ 2 * LengthWords = module.length
  BY ModuleWords
<1>2. 2 * OffsetWords + 2 * LengthWords <= SectorBytes
  BY <1>1 DEF Bytes
<1>3. OffsetWords + LengthWords <= SectorWords
  BY <1>1, <1>2, DiskAssumption DEF SectorWords
<1>4. LengthWords > 0 => FirstSector = 0
  BY <1>1, <1>2, DiskAssumption DEF FirstSector
<1> QED BY <1>1, <1>3, <1>4

(***************************************************************************)
(* DiskInv is inductive                                                    *)
(***************************************************************************)

(* Before the first read nothing is loaded and the drive is quiet. *)
LEMMA InitHolds == Init => DiskInv
<1> SUFFICES ASSUME Init PROVE DiskInv
  OBVIOUS
<1>1. DiskTypeOK
  <2>1. drive \in DriveState /\ module \in Modelled
    BY DEF Init, DriveState, Modelled
  <2>2. <<>> \in Seq(Int)
    OBVIOUS
  <2>3. late \in BOOLEAN /\ ignored \in BOOLEAN
    BY DEF Init
  <2> QED BY <2>1, <2>2, <2>3 DEF Init, DiskTypeOK
<1>2. LoopCounts /\ Started /\ InStep /\ FirstSectorReady /\ Stored
  BY DEF Init, LoopCounts, Started, InStep, FirstSectorReady, Stored, Reading
<1>3. DriveConsistent
  BY SectorWordsPositive DEF Init, DriveConsistent
<1> QED BY <1>1, <1>2, <1>3 DEF DiskInv

(* The drive works on its own: it moves to no other word, keeps the data   *)
(* it has, and loses the rest of the transfer only with its data.          *)
LEMMA DriveMoves ==
  ASSUME drive \in DriveState, DriveConsistent, Drive
  PROVE  /\ drive' \in DriveState
         /\ drive'.sector = drive.sector /\ drive'.word = drive.word
         /\ drive'.left = drive.left \/ drive'.left = 0
         /\ drive.drq => drive'.drq
         /\ DriveConsistent'
         /\ UNCHANGED driver
<1>1. CASE DriveReady
  BY <1>1 DEF DriveReady, DriveState, DriveConsistent
<1>2. CASE DriveFails
  BY <1>2 DEF DriveFails, DriveState, DriveConsistent
<1>3. CASE DriveStops
  BY <1>3 DEF DriveStops, DriveState, DriveConsistent
<1> QED BY <1>1, <1>2, <1>3 DEF Drive

(* The drive works on its own: it gets a sector ready, fails or stops,     *)
(* without moving to another word.                                         *)
LEMMA DrivePreserves ==
  ASSUME DiskInv, Drive
  PROVE  DiskInv'
<1> USE DEF DiskInv
<1>1. /\ drive' \in DriveState
      /\ drive'.sector = drive.sector /\ drive'.word = drive.word
      /\ drive'.left = drive.left \/ drive'.left = 0
      /\ drive.drq => drive'.drq
      /\ DriveConsistent'
  BY DriveMoves DEF DiskTypeOK
<1>2. UNCHANGED driver
  BY DriveMoves DEF DiskTypeOK
<1>3. DiskTypeOK'
  BY <1>1, <1>2 DEF DiskTypeOK, Modelled, driver
<1>4. LoopCounts' /\ Started' /\ Stored'
  BY <1>2 DEF LoopCounts, Started, OffsetWords, LengthWords, Stored, BlockGood, FirstSector,
              Bytes, driver
<1>5. InStep'
  <2>1. Position(drive') = Position(drive) /\ start' = start
    BY <1>1, <1>2 DEF Position, driver
  <2>2. drive'.left > 0 => drive.left > 0
    BY <1>1
  <2> QED BY <1>2, <2>1, <2>2 DEF InStep, Reading, WordsRead, OffsetWords, driver
<1>6. FirstSectorReady'
  BY <1>1, <1>2 DEF FirstSectorReady, Reading, WordsRead, OffsetWords, Bytes, driver
<1> QED BY <1>1, <1>3, <1>4, <1>5, <1>6

(* A new call of load_module starts with an empty block. *)
LEMMA LoadModulePreserves ==
  ASSUME DiskInv, NEW m \in Modules, LoadModule(m)
  PROVE  DiskInv'
<1> USE DEF DiskInv, LoadModule
<1>1. DiskTypeOK'
  <2>1. <<>> \in Seq(Int) /\ module' \in Modelled
    BY DEF Modelled
  <2> QED BY <2>1 DEF DiskTypeOK
<1>2. LoopCounts' /\ Started' /\ InStep' /\ FirstSectorReady' /\ Stored'
  BY DEF LoopCounts, Started, InStep, FirstSectorReady, Stored, Reading
<1>3. DriveConsistent'
  BY DEF DriveConsistent
<1> QED BY <1>1, <1>2, <1>3

(* The command sends the drive to the sector of the module's offset,       *)
(* unless the drive is still busy with an earlier one and ignores it.      *)
LEMMA SendCommandPreserves ==
  ASSUME DiskInv, SendCommand
  PROVE  DiskInv'
<1> USE DEF DiskInv
<1>1. /\ module \in Modelled /\ FirstSector \in Nat
      /\ SectorCount \in Nat /\ SectorCount > 0
  BY ModuleWords, SectorCountPositive DEF DiskTypeOK
<1>2. /\ pc = "command" /\ pc' = "busy"
      /\ UNCHANGED <<module, ecx, ax, block, res, reads, late>>
      /\ start' = drive' /\ ~late
  BY DEF SendCommand, LoopCounts
<1>3. LoopCounts' /\ Stored'
  BY <1>2 DEF LoopCounts, OffsetWords, LengthWords, Stored
<1>4. CASE /\ drive' = [bsy |-> TRUE, drq |-> FALSE, err |-> FALSE, word |-> 0,
                        sector |-> module.offset \div SectorBytes, left |-> SectorCount]
           /\ ignored' = FALSE
  <2>0. drive'.sector = FirstSector /\ drive'.word = 0 /\ FirstSector' = FirstSector
    BY <1>2, <1>4 DEF FirstSector
  <2>1. Started'
    BY <1>2, <2>0 DEF Started
  <2>2. DiskTypeOK' /\ DriveConsistent'
    BY <1>1, <1>2, <1>4, <2>1, SectorWordsPositive
       DEF DiskTypeOK, DriveState, DriveConsistent, FirstSector, Modelled
  <2>3. InStep'
    BY <1>2, <2>2, PositionType DEF InStep, WordsRead, DiskTypeOK
  <2>4. FirstSectorReady'
    BY <1>2 DEF FirstSectorReady
  <2> QED BY <1>3, <2>1, <2>2, <2>3, <2>4
<1>5. CASE ignored' = TRUE /\ UNCHANGED drive
  <2>1. DiskTypeOK' /\ DriveConsistent'
    BY <1>2, <1>5 DEF DiskTypeOK, DriveConsistent, Modelled
  <2>2. InStep'
    BY <1>2, <2>1, PositionType DEF InStep, WordsRead, DiskTypeOK
  <2>3. FirstSectorReady' /\ Started'
    BY <1>2, <1>5 DEF FirstSectorReady, Started
  <2> QED BY <1>3, <2>1, <2>2, <2>3
<1> QED BY <1>4, <1>5 DEF SendCommand

(* The driver stops waiting when the drive is not busy, or has failed      *)
(* while it was.                                                           *)
LEMMA BusyPreserves ==
  ASSUME DiskInv, Busy
  PROVE  DiskInv'
<1> USE DEF DiskInv, Busy
<1>1. DiskTypeOK'
  BY DEF DiskTypeOK, Modelled
<1>2. LoopCounts' /\ Started' /\ Stored'
  BY DEF LoopCounts, Started, Stored, BlockGood, OffsetWords, LengthWords, FirstSector
<1>3. DriveConsistent'
  BY DEF DriveConsistent
<1>4. InStep'
  BY DEF InStep, Reading, WordsRead, OffsetWords
<1>5. FirstSectorReady'
  BY DEF FirstSectorReady, Reading, WordsRead, Bytes
<1> QED BY <1>1, <1>2, <1>3, <1>4, <1>5

(* When the drive has data, the words in front of the offset are to be     *)
(* skipped, if there are any.                                              *)
LEMMA ReadyPreserves ==
  ASSUME DiskInv, Ready
  PROVE  DiskInv'
<1> USE DEF DiskInv, Ready
<1>1. module \in Modelled /\ OffsetWords \in Nat /\ ecx' = OffsetWords
  BY ModuleWords DEF DiskTypeOK, OffsetWords
<1>2. block = <<>> /\ Len(block) = 0 /\ UNCHANGED block
  BY DEF LoopCounts
<1>3. DiskTypeOK'
  BY <1>1 DEF DiskTypeOK
<1>4. LoopCounts' /\ Started' /\ Stored'
  BY <1>1, <1>2 DEF LoopCounts, Started, Stored, OffsetWords, FirstSector
<1>5. DriveConsistent'
  BY DEF DriveConsistent
<1>6. WordsRead' = 0 /\ WordsRead = 0
  BY <1>1, <1>2 DEF WordsRead, OffsetWords
<1>7. InStep'
  BY <1>6 DEF InStep, Reading
<1>8. FirstSectorReady'
  <2>1. start.word \in Nat /\ drive.word = start.word /\ ~late
    BY DEF FirstSectorReady, Reading, DiskTypeOK, DriveState
  <2> QED BY <1>6, <2>1 DEF FirstSectorReady
<1> QED BY <1>3, <1>4, <1>5, <1>7, <1>8

(* Behind the skipped words, the words of the module are to be read. *)
LEMMA WriteDataPreserves ==
  ASSUME DiskInv, WriteData
  PROVE  DiskInv'
<1> USE DEF DiskInv, WriteData
<1>1. module \in Modelled /\ LengthWords \in Nat /\ ecx' = LengthWords
  BY ModuleWords DEF DiskTypeOK, LengthWords
<1>2. block = <<>> /\ Len(block) = 0 /\ UNCHANGED block
  BY DEF LoopCounts
<1>3. DiskTypeOK'
  BY <1>1 DEF DiskTypeOK
<1>4. LoopCounts' /\ Started' /\ Stored'
  BY <1>1, <1>2 DEF LoopCounts, LengthWords, Started, Stored, BlockGood, FirstSector
<1>5. DriveConsistent'
  BY DEF DriveConsistent
<1>6. WordsRead' = WordsRead
  BY <1>1, <1>2 DEF WordsRead, OffsetWords
<1>7. InStep'
  BY <1>6 DEF InStep, Reading
<1>8. FirstSectorReady'
  BY <1>6 DEF FirstSectorReady, Reading, Bytes
<1> QED BY <1>3, <1>4, <1>5, <1>7, <1>8

(* Reading the port: with data, the drive goes on to the next word; in the *)
(* middle of a sector it has that word at once.                            *)
LEMMA ReadPortMoves ==
  ASSUME drive \in DriveState, DriveConsistent, late \in BOOLEAN, ReadPort
  PROVE  /\ drive' \in DriveState /\ DriveConsistent' /\ late' \in BOOLEAN
         /\ ~late' => ~late /\ drive.drq
         /\ drive.drq => late' = late
         /\ drive.drq /\ drive'.left > 0 => Position(drive') = Position(drive) + 1
         /\ drive.drq /\ drive.word + 1 < SectorWords =>
              drive'.drq /\ drive'.word = drive.word + 1
<1>1. late' = (late \/ ~drive.drq)
  BY DEF ReadPort
<1>2. CASE ~drive.drq
  <2>1. drive' = drive
    BY <1>2 DEF ReadPort, Delivered
  <2> QED BY <1>1, <1>2, <2>1 DEF DriveConsistent
<1>3. CASE drive.drq /\ drive.word + 1 < SectorWords
  <2>1. drive' = [drive EXCEPT !.word = @ + 1]
    BY <1>3 DEF ReadPort, Delivered
  <2>2. /\ drive' \in DriveState /\ drive'.word = drive.word + 1
        /\ drive'.sector = drive.sector /\ drive'.left = drive.left
        /\ drive'.drq = drive.drq /\ drive'.bsy = drive.bsy
    BY <2>1 DEF DriveState
  <2>3. DriveConsistent'
    BY <1>3, <2>2 DEF DriveConsistent, DriveState
  <2>4. Position(drive') = Position(drive) + 1
    BY <2>2, SectorWordsPositive DEF DriveState, Position
  <2> QED BY <1>1, <1>3, <2>2, <2>3, <2>4
<1>4. CASE drive.drq /\ ~(drive.word + 1 < SectorWords) /\ drive.left = 1
  <2>1. drive' = [drive EXCEPT !.drq = FALSE, !.left = 0]
    BY <1>4 DEF ReadPort, Delivered
  <2>2. drive' \in DriveState /\ ~drive'.drq /\ drive'.left = 0 /\ drive'.word = drive.word
        /\ drive'.bsy = drive.bsy
    BY <2>1 DEF DriveState
  <2>3. DriveConsistent'
    BY <1>4, <2>2 DEF DriveConsistent
  <2> QED BY <1>1, <1>4, <2>2, <2>3
<1>5. CASE drive.drq /\ ~(drive.word + 1 < SectorWords) /\ drive.left # 1
  <2>1. PICK busy \in BOOLEAN :
          drive' = [drive EXCEPT !.sector = @ + 1, !.word = 0, !.left = @ - 1,
                                 !.bsy = busy, !.drq = ~busy]
    BY <1>5 DEF ReadPort, Delivered
  <2>2. drive.left > 1 /\ drive.left \in Nat
    BY <1>5 DEF DriveConsistent, DriveState
  <2>3. /\ drive' \in DriveState /\ drive'.word = 0
        /\ drive'.sector = drive.sector + 1 /\ drive'.left = drive.left - 1
        /\ drive'.drq => ~drive'.bsy
    <3>1. CASE busy = TRUE
      <4>1. drive' = [drive EXCEPT !.sector = @ + 1, !.word = 0, !.left = @ - 1,
                                   !.bsy = TRUE, !.drq = FALSE]
        BY <2>1, <3>1, Zenon
      <4>2. drive.sector + 1 \in Nat /\ drive.left - 1 \in Nat
        BY <2>2 DEF DriveState
      <4>3. drive' \in DriveState
        BY <4>1, <4>2 DEF DriveState
      <4>4. drive'.word = 0 /\ drive'.sector = drive.sector + 1 /\ drive'.left = drive.left - 1
        BY <4>1 DEF DriveState
      <4>5. drive'.drq => ~drive'.bsy
        BY <4>1 DEF DriveState
      <4> QED BY <4>3, <4>4, <4>5
    <3>2. CASE busy = FALSE
      <4>1. drive' = [drive EXCEPT !.sector = @ + 1, !.word = 0, !.left = @ - 1,
                                   !.bsy = FALSE, !.drq = TRUE]
        BY <2>1, <3>2, Zenon
      <4>2. drive.sector + 1 \in Nat /\ drive.left - 1 \in Nat
        BY <2>2 DEF DriveState
      <4>3. drive' \in DriveState
        BY <4>1, <4>2 DEF DriveState
      <4>4. drive'.word = 0 /\ drive'.sector = drive.sector + 1 /\ drive'.left = drive.left - 1
        BY <4>1 DEF DriveState
      <4>5. drive'.drq => ~drive'.bsy
        BY <4>1 DEF DriveState
      <4> QED BY <4>3, <4>4, <4>5
    <3> QED BY <3>1, <3>2
  <2>4. DriveConsistent'
    BY <2>2, <2>3, SectorWordsPositive DEF DriveConsistent
  <2>5. drive.word + 1 = SectorWords
    BY <1>5, SectorWordsPositive DEF DriveConsistent, DriveState
  <2>6. Position(drive') = Position(drive) + 1
    BY <2>3, <2>5, NextSector, SectorWordsPositive DEF DriveState, Position
  <2> QED BY <1>1, <1>5, <2>3, <2>4, <2>6
<1> QED BY <1>2, <1>3, <1>4, <1>5

(* The driver and the drive go on together. *)
LEMMA ReadPortInStep ==
  ASSUME DiskInv, ReadPort, UNCHANGED <<module, start, ignored>>,
         pc \in {"skip", "insw"}, pc' \in {"skip", "write", "insw"},
         WordsRead \in Int, WordsRead' = WordsRead + 1
  PROVE  InStep' /\ FirstSectorReady'
<1> USE DEF DiskInv
<1>1. /\ module \in Modelled /\ late \in BOOLEAN /\ ignored \in BOOLEAN /\ drive \in DriveState
      /\ start \in DriveState /\ Position(start) \in Nat
  BY PositionType DEF DiskTypeOK
<1>2. /\ ~late' => ~late /\ drive.drq
      /\ drive.drq => late' = late
      /\ drive.drq /\ drive'.left > 0 => Position(drive') = Position(drive) + 1
      /\ drive.drq /\ drive.word + 1 < SectorWords =>
           drive'.drq /\ drive'.word = drive.word + 1
  BY <1>1, ReadPortMoves
<1>3. Reading' => Reading
  BY DEF Reading
<1>4. InStep'
  <2>1. SUFFICES ASSUME Reading', ~late', drive'.left > 0
                 PROVE  Position(drive') = Position(start) + WordsRead'
    BY DEF InStep
  <2>2. ~late /\ drive.drq /\ drive.left > 0
    BY <1>2, <2>1 DEF DriveConsistent
  <2>3. Position(drive) = Position(start) + WordsRead
    BY <1>3, <2>1, <2>2 DEF InStep
  <2> QED BY <1>1, <1>2, <2>1, <2>2, <2>3
<1>5. FirstSectorReady'
  <2>1. SUFFICES ASSUME Reading', start.word + WordsRead' <= SectorWords
                 PROVE  /\ ~late'
                        /\ start.word + WordsRead' < SectorWords =>
                             drive'.drq /\ drive'.word = start.word + WordsRead'
    BY <1>1, SectorWordsPositive DEF FirstSectorReady, DriveState
  <2>2. start.word + WordsRead < SectorWords /\ start.word \in Nat
    BY <1>1, <2>1, SectorWordsPositive DEF DriveState
  <2>3. ~late /\ drive.drq /\ drive.word = start.word + WordsRead
    BY <1>3, <2>1, <2>2, SectorWordsPositive DEF FirstSectorReady
  <2> QED BY <1>2, <2>2, <2>3
<1> QED BY <1>4, <1>5

(* Skipping a word of the offset. *)
LEMMA DumpPreserves ==
  ASSUME DiskInv, Dump
  PROVE  DiskInv'
<1> USE DEF DiskInv
<1>1. /\ UNCHANGED <<module, block, res, reads, start, ignored>>
      /\ module \in Modelled /\ late \in BOOLEAN /\ ignored \in BOOLEAN
      /\ drive \in DriveState /\ block \in Seq(Int)
      /\ OffsetWords \in Nat /\ OffsetWords' = OffsetWords /\ LengthWords' = LengthWords
      /\ FirstSector' = FirstSector /\ Bytes' = Bytes
      /\ module.offset \in Nat /\ module.length \in Nat /\ 2 * OffsetWords = module.offset
  BY ModuleWords DEF DiskTypeOK, Dump, OffsetWords, LengthWords, FirstSector, Bytes
<1>2. drive' \in DriveState /\ DriveConsistent' /\ late' \in BOOLEAN /\ (~late' => ~late)
  BY <1>1, ReadPortMoves DEF Dump
<1>3. CASE pc = "drain"
  <2>1. ecx' \in Int
    BY DiskAssumption DEF Dump, DiskTypeOK
  <2>2. pc' \in {"drain", "return"} /\ ax' \in {"ok", "junk"}
    BY <1>3 DEF Dump
  <2>3. DiskTypeOK' /\ LoopCounts' /\ Started' /\ InStep' /\ FirstSectorReady'
    BY <1>1, <1>2, <1>3, <2>1, <2>2
       DEF DiskTypeOK, LoopCounts, Started, InStep, FirstSectorReady, Reading
  <2>4. Stored'
    BY <1>1, <1>2, <1>3 DEF Stored, BlockGood
  <2> QED BY <1>2, <2>3, <2>4
<1>4. CASE pc = "skip"
  <2>1. ecx \in 1 .. OffsetWords /\ block = <<>>
    BY <1>4 DEF LoopCounts
  <2>2. ecx' = ecx - 1
    <3>1. module.offset < EcxRange
      BY <1>1, DiskAssumption DEF Modelled
    <3> QED BY <1>1, <2>1, <3>1, DiskAssumption DEF Dump
  <2>3. pc' = IF ecx' = 0 THEN "write" ELSE "skip"
    BY <1>4 DEF Dump
  <2>4. ax' = "junk"
    BY <2>3 DEF Dump
  <2>5. DiskTypeOK' /\ LoopCounts' /\ Started' /\ Stored'
    BY <1>1, <1>2, <1>4, <2>1, <2>2, <2>3, <2>4 DEF DiskTypeOK, LoopCounts, Started, Stored
  <2>6. WordsRead \in Int /\ WordsRead = OffsetWords - ecx /\ WordsRead' = WordsRead + 1
    BY <1>1, <1>4, <2>1, <2>2, <2>3 DEF WordsRead
  <2>7. InStep' /\ FirstSectorReady'
    <3>1. WordsRead < OffsetWords + LengthWords
      BY <1>1, <2>1, <2>6, ModuleWords
    <3>2. pc' \in {"skip", "write"}
      BY <2>3
    <3> QED BY <1>1, <1>4, <2>6, <3>1, <3>2, ReadPortInStep DEF Dump
  <2> QED BY <1>2, <2>5, <2>7
<1> QED BY <1>3, <1>4 DEF Dump

(* rep insw stores one word: the next one of the module, where the drive   *)
(* is in step with the loop counters.                                      *)
LEMMA InsWordPreserves ==
  ASSUME DiskInv, InsWord
  PROVE  DiskInv'
<1> USE DEF DiskInv
<1>1. /\ pc = "insw" /\ ecx > 0 /\ UNCHANGED <<pc, module, ax, res, reads, start, ignored>>
      /\ block' = Append(block, DataWord) /\ ecx' = ecx - 1
  BY DEF InsWord
<1>2. /\ module \in Modelled /\ late \in BOOLEAN /\ ignored \in BOOLEAN
      /\ drive \in DriveState /\ block \in Seq(Int) /\ ecx \in Int
      /\ OffsetWords \in Nat /\ LengthWords \in Nat /\ start.word \in Nat
      /\ Position(start) \in Nat
  BY ModuleWords, PositionType DEF DiskTypeOK, DriveState
<1>3. /\ OffsetWords' = OffsetWords /\ LengthWords' = LengthWords
      /\ FirstSector' = FirstSector /\ Bytes' = Bytes
  BY <1>1 DEF OffsetWords, LengthWords, FirstSector, Bytes
<1>4. /\ drive' \in DriveState /\ DriveConsistent' /\ late' \in BOOLEAN
      /\ ~late' => ~late /\ drive.drq
  BY <1>2, ReadPortMoves DEF InsWord
<1>5. DataWord \in Int
  BY <1>2, SectorWordsPositive DEF DataWord, Position, DriveState, junk
<1>6. /\ block' \in Seq(Int) /\ Len(block') = Len(block) + 1
      /\ \A k \in 1 .. Len(block) : block'[k] = block[k]
      /\ block'[Len(block) + 1] = DataWord
  BY <1>1, <1>2, <1>5
<1>7. Len(block) \in Nat /\ Len(block) + ecx = LengthWords
  BY <1>1, <1>2 DEF LoopCounts
<1> HIDE DEF DiskInv
<1>8. DiskTypeOK' /\ LoopCounts' /\ Started'
  <2>1. /\ pc' = "insw" /\ ecx' \in Int /\ ecx' >= 0
        /\ ax \in {"junk", "ok", "error"} /\ start \in DriveState
    BY <1>1, <1>2 DEF DiskInv, DiskTypeOK
  <2>2. Len(block') + ecx' = LengthWords
    <3>1. Len(block') = Len(block) + 1 /\ ecx' = ecx - 1 /\ ecx \in Int
      BY <1>1, <1>2, <1>6
    <3> QED BY <1>7, <3>1
  <2>3. UNCHANGED module /\ UNCHANGED ax /\ UNCHANGED start /\ UNCHANGED ignored
    BY <1>1
  <2>4. DiskTypeOK'
    BY <1>2, <1>4, <1>6, <2>1, <2>3 DEF DiskTypeOK
  <2>5. LoopCounts'
    BY <1>3, <2>1, <2>2 DEF LoopCounts
  <2>6. Started'
    BY <1>1, <1>3, <2>3 DEF DiskInv, Started
  <2> QED BY <2>4, <2>5, <2>6
<1>9. /\ WordsRead \in Int /\ WordsRead = OffsetWords + Len(block)
      /\ WordsRead' = WordsRead + 1 /\ WordsRead < OffsetWords + LengthWords
  BY <1>1, <1>2, <1>3, <1>6, <1>7 DEF WordsRead
<1>10. InStep' /\ FirstSectorReady'
  BY <1>1, <1>9, ReadPortInStep DEF InsWord
<1>11. Stored'
  <2>1. BlockGood /\ Reading /\ Reading'
    BY <1>1 DEF DiskInv, Stored, Reading
  <2>2. ASSUME NEW k \in 1 .. Len(block'), ~late' \/ start.word + OffsetWords + k <= SectorWords
        PROVE  block'[k] = Position(start) + OffsetWords + k - 1
    <3>1. CASE k \in 1 .. Len(block)
      BY <1>4, <1>6, <2>1, <2>2, <3>1 DEF BlockGood
    <3>2. CASE k = Len(block) + 1
      <4>1. ~late'
        <5>1. CASE start.word + OffsetWords + k <= SectorWords
          <6>1. WordsRead' = OffsetWords + k
            <7>1. WordsRead' = WordsRead + 1 /\ WordsRead = OffsetWords + Len(block)
              BY <1>9
            <7> QED BY <1>2, <1>7, <3>2, <7>1
          <6>2. start.word + WordsRead' = start.word + OffsetWords + k
            <7>1. start.word \in Nat /\ OffsetWords \in Nat /\ k \in Nat
              BY <1>2, <1>7, <3>2
            <7> QED BY <6>1, <7>1
          <6>3. start'.word + WordsRead' <= SectorWords
            BY <1>1, <5>1, <6>2
          <6> QED BY <1>10, <2>1, <6>3 DEF FirstSectorReady
        <5> QED BY <2>2, <5>1
      <4>2. ~late /\ drive.drq
        BY <1>4, <4>1
      <4>3. DataWord = Position(start) + WordsRead
        BY <2>1, <4>2 DEF DiskInv, InStep, DriveConsistent, DataWord
      <4> QED BY <1>2, <1>6, <1>7, <1>9, <3>2, <4>3
    <3> QED BY <1>6, <1>7, <3>1, <3>2
  <2> QED BY <1>1, <1>3, <2>2 DEF Stored, BlockGood
<1> QED BY <1>4, <1>8, <1>10, <1>11 DEF DiskInv

(* When rep insw has ended the block is complete; what the code believes   *)
(* to be left of the last sector is drained.                               *)
LEMMA InsDonePreserves ==
  ASSUME DiskInv, InsDone
  PROVE  DiskInv'
<1> USE DEF DiskInv
<1>1. /\ pc = "insw" /\ ecx = 0 /\ pc' \in {"return", "drain"} /\ ecx' = Remaining % EcxRange
      /\ UNCHANGED <<module, ax, block, res, drive, reads, start, late, ignored>>
  BY DEF InsDone
<1>2. ecx' \in Int
  <2>1. module.length \in Nat /\ module.offset \in Nat /\ SectorBytes \in Nat
    BY ModuleWords, DiskAssumption DEF DiskTypeOK
  <2>2. Bytes * SectorBytes \in Nat
    BY <2>1 DEF Bytes
  <2>3. Shifted \in Nat
    BY <2>2, DiskAssumption DEF Shifted
  <2>4. Remaining \in Int
    BY <2>1, <2>3, DiskAssumption DEF Remaining
  <2> QED BY <1>1, <2>4, DiskAssumption
<1>3. DiskTypeOK' /\ DriveConsistent'
  BY <1>1, <1>2 DEF DiskTypeOK, DriveConsistent
<1>4. Len(block) = LengthWords
  BY <1>1 DEF LoopCounts, DiskTypeOK
<1>5. LoopCounts' /\ InStep' /\ FirstSectorReady'
  BY <1>1, <1>4 DEF LoopCounts, InStep, FirstSectorReady, Reading, LengthWords
<1>6. Started' /\ Stored'
  BY <1>1 DEF Started, Stored, BlockGood, FirstSector, OffsetWords, Bytes
<1> QED BY <1>3, <1>5, <1>6

(* read_disk returns and leaves the block as it is. *)
LEMMA ReturnPreserves ==
  ASSUME DiskInv, Return
  PROVE  DiskInv'
<1> USE DEF DiskInv, Return
<1>1. DiskTypeOK' /\ DriveConsistent'
  BY DEF DiskTypeOK, DriveConsistent
<1>2. LoopCounts' /\ Started' /\ InStep' /\ FirstSectorReady' /\ Stored'
  BY DEF LoopCounts, Started, InStep, FirstSectorReady, Stored, Reading
<1> QED BY <1>1, <1>2

(* Every step of the driver and of the drive keeps the invariant. *)
LEMMA NextPreserves == DiskInv /\ [Next]_vars => DiskInv'
<1> SUFFICES ASSUME DiskInv, [Next]_vars PROVE DiskInv'
  OBVIOUS
<1>1. CASE UNCHANGED vars
  <2>1. DiskTypeOK' /\ DriveConsistent' /\ LoopCounts'
    BY <1>1 DEF DiskInv, vars, DiskTypeOK, DriveConsistent, LoopCounts, OffsetWords, LengthWords
  <2>2. InStep' /\ FirstSectorReady'
    BY <1>1 DEF DiskInv, vars, InStep, FirstSectorReady, Reading, WordsRead, OffsetWords, Bytes
  <2>3. Started' /\ Stored'
    BY <1>1 DEF DiskInv, vars, Started, Stored, BlockGood, FirstSector, OffsetWords, Bytes
  <2> QED BY <2>1, <2>2, <2>3 DEF DiskInv
<1>2. CASE Drive
  BY <1>2, DrivePreserves
<1>3. CASE Driver
  BY <1>3, SendCommandPreserves, BusyPreserves, ReadyPreserves, DumpPreserves,
     WriteDataPreserves, InsWordPreserves, InsDonePreserves, ReturnPreserves DEF Driver
<1>4. CASE \E m \in Modules : LoadModule(m)
  BY <1>4, LoadModulePreserves
<1> QED BY <1>1, <1>2, <1>3, <1>4 DEF Next

(* The disk invariant: the loop counters and the block add up to the       *)
(* module asked for; until a word is read too early, the drive is as far   *)
(* from where it stood at the command as the counters say, even if it      *)
(* ignored the command; and no word up to the end of the sector in which   *)
(* it stood is read too early.                                             *)
THEOREM DiskInvariance == Spec => []DiskInv
<1>1. Init => DiskInv
  BY InitHolds
<1>2. DiskInv /\ [Next]_vars => DiskInv'
  BY NextPreserves
<1> QED BY <1>1, <1>2, PTL DEF Spec

(***************************************************************************)
(* What is loaded                                                          *)
(***************************************************************************)

(* read_disk stores the words behind the offset in order, for every module *)
(* and sector size, from wherever the drive stood: a drive that ignores    *)
(* the command because an earlier call has left data in it delivers the    *)
(* rest of those.  Up to the end of the sector in which the drive stood    *)
(* this holds for slow drives as well.                                     *)
THEOREM DiskDataInOrder == Spec => []DataInOrder
<1>1. DiskInv => DataInOrder
  <2> SUFFICES ASSUME DiskInv, Complete PROVE Len(block) = LengthWords /\ BlockGood
    <3>1. block \in Seq(Int) => DOMAIN block = 1 .. Len(block)
      OBVIOUS
    <3> QED BY <3>1 DEF DiskInv, DiskTypeOK, DataInOrder, BlockGood, LengthWords, OffsetWords
  <2> QED BY DEF DiskInv, Stored, LoopCounts, Complete
<1> QED BY <1>1, DiskInvariance, PTL

(* A module in the first sector is loaded whole however slow the drive is, *)
(* if it takes the command: read_disk, which polls only once, never        *)
(* outruns it.                                                             *)
THEOREM DiskModuleLoaded == Spec => []ModuleLoaded
<1>1. DiskInv => ModuleLoaded
  <2> SUFFICES ASSUME DiskInv, Complete, ~ignored, Bytes <= SectorBytes
               PROVE  block = [k \in 1 .. LengthWords |-> OffsetWords + k - 1]
    BY DEF ModuleLoaded, WordsFrom, LengthWords, OffsetWords
  <2>1. /\ BlockGood /\ start.sector = FirstSector /\ start.word = 0
        /\ Len(block) = LengthWords /\ block \in Seq(Int)
    BY DEF DiskInv, DiskTypeOK, LoopCounts, Started, Stored, Complete
  <2>2. /\ module.offset \in Nat /\ module.length \in Nat /\ LengthWords \in Nat
        /\ OffsetWords \in Nat /\ OffsetWords + LengthWords <= SectorWords
        /\ LengthWords > 0 => FirstSector = 0
    BY WordsInSector DEF DiskInv, DiskTypeOK
  <2>3. ASSUME NEW k \in 1 .. LengthWords
        PROVE  block[k] = OffsetWords + k - 1
    <3>1. start.word + OffsetWords + k <= SectorWords
      BY <2>1, <2>2, SectorWordsPositive
    <3>2. block[k] = Position(start) + OffsetWords + k - 1
      BY <2>1, <3>1 DEF BlockGood
    <3>3. FirstSector = 0
      BY <2>2
    <3>4. Position(start) = 0
      BY <2>1, <3>3, SectorWordsPositive DEF Position
    <3> QED BY <2>2, <3>2, <3>4
  <2>4. block = [k \in 1 .. Len(block) |-> block[k]]
    BY <2>1
  <2> QED BY <2>1, <2>3, <2>4
<1> QED BY <1>1, DiskInvariance, PTL

(***************************************************************************)
(* Progress                                                                *)
(***************************************************************************)

(* Steps that read_disk has left: the words of both loops, and the stages  *)
(* in front of, between and behind them.                                   *)
DriverLeft ==
  CASE pc = "idle"    -> 0
    [] pc = "return"  -> 1
    [] pc = "insw"    -> ecx + 2
    [] pc = "write"   -> LengthWords + 3
    [] pc = "skip"    -> LengthWords + ecx + 3
    [] pc = "ready"   -> LengthWords + OffsetWords + 5
    [] pc = "busy"    -> LengthWords + OffsetWords + 6
    [] pc = "command" -> LengthWords + OffsetWords + 7
    [] OTHER          -> 0

(* Steps that the drive can take before the driver's next one. *)
DriveLeft == IF ~drive.bsy THEN 0 ELSE IF drive.err THEN 1 ELSE 2

(* What a call of load_module has left to do, the drive included. *)
CallLeft == 3 * DriverLeft + DriveLeft

(* The driver never drains what is left of a sector, because the shift in  *)
(* the wrong direction makes the remainder 0, and it waits in .ready for   *)
(* data that are there or for a drive that has failed.                     *)
WaitInv ==
  /\ pc # "drain"
  /\ pc = "busy" => drive.bsy \/ drive.drq \/ drive.err
  /\ pc = "ready" => drive.drq \/ Hung

(* The tests of the code let the driver go on. *)
DriverGoesOn ==
  \/ pc \in {"command", "skip", "write", "insw", "return"}
  \/ pc = "busy" /\ (~drive.bsy \/ drive.err)
  \/ pc = "ready" /\ drive.drq

(* A call has a bounded amount of work left, and until it ends either the  *)
(* driver can go on, or a busy drive, unless the driver hangs in .ready    *)
(* with a drive that has failed.                                           *)
CallBounded ==
  pc # "idle" =>
    /\ CallLeft \in 1 .. 3 * (LengthWords + OffsetWords + 7) + 2
    /\ DriverGoesOn \/ drive.bsy \/ Hung

(* Every step of the driver or of the drive leaves the call less to do. *)
CallDecreases == pc # "idle" => CallLeft' < CallLeft

(* A product is divided by its factor. *)
LEMMA DivideProduct ==
  ASSUME NEW b \in Nat, NEW s \in Nat, s > 0
  PROVE  (b * s) % s = 0 /\ (b * s) \div s = b
OBVIOUS

(* Nothing remains to be drained, whatever the module. *)
LEMMA NothingRemains ==
  ASSUME module \in Modelled
  PROVE  Remaining % EcxRange = 0
<1>1. /\ module.length \in Nat /\ module.offset \in Nat /\ Bytes \in Nat
      /\ SectorBytes \in Nat /\ SectorBytes > 0
  BY ModuleWords, DiskAssumption DEF Bytes
<1>2. Shifted = Bytes * SectorBytes
  BY <1>1, DivideProduct DEF Shifted
<1>3. Shifted \div SectorBytes = module.length + module.offset
  BY <1>1, <1>2, DivideProduct DEF Bytes
<1>4. Remaining = 0
  BY <1>1, <1>3 DEF Remaining
<1> QED BY <1>4, DiskAssumption

(* The driver waits only for what comes or for a drive that has failed.    *)
LEMMA WaitInvStep == DiskInv /\ WaitInv /\ [Next]_vars => WaitInv'
<1> SUFFICES ASSUME DiskInv, WaitInv, [Next]_vars PROVE WaitInv'
  OBVIOUS
<1>1. drive \in DriveState /\ module \in Modelled
  BY DEF DiskInv, DiskTypeOK
<1>2. CASE UNCHANGED vars
  BY <1>2 DEF vars, WaitInv, Hung
<1>3. CASE Drive
  <2>1. CASE DriveReady
    BY <1>1, <2>1 DEF DriveReady, driver, DriveState, WaitInv, Hung
  <2>2. CASE DriveFails
    BY <1>1, <2>2 DEF DriveFails, driver, DriveState, WaitInv, Hung
  <2>3. CASE DriveStops
    BY <1>1, <2>3 DEF DriveStops, driver, DriveState, WaitInv, Hung
  <2> QED BY <1>3, <2>1, <2>2, <2>3 DEF Drive
<1>4. CASE SendCommand
  BY <1>4 DEF SendCommand, WaitInv
<1>5. CASE Busy
  BY <1>1, <1>5 DEF Busy, WaitInv, Hung, DriveState
<1>6. CASE Ready \/ Dump \/ WriteData \/ InsWord \/ Return
  BY <1>6 DEF Ready, Dump, WriteData, InsWord, Return, WaitInv
<1>7. CASE InsDone
  BY <1>1, <1>7, NothingRemains DEF InsDone, WaitInv
<1>8. CASE \E m \in Modules : LoadModule(m)
  BY <1>8 DEF LoadModule, WaitInv
<1> QED BY <1>2, <1>3, <1>4, <1>5, <1>6, <1>7, <1>8 DEF Next, Driver

(* The work left is a natural number within the bound. *)
LEMMA LeftIs ==
  ASSUME DiskInv, WaitInv
  PROVE  /\ DriverLeft \in 0 .. LengthWords + OffsetWords + 7
         /\ pc # "idle" => DriverLeft > 0
         /\ DriveLeft \in 0 .. 2
         /\ LengthWords \in Nat /\ OffsetWords \in Nat
<1>1. LengthWords \in Nat /\ OffsetWords \in Nat
  BY ModuleWords DEF DiskInv, DiskTypeOK
<1>2. DriveLeft \in 0 .. 2
  BY DEF DriveLeft
<1>3. pc = "insw" => ecx \in 0 .. LengthWords
  BY <1>1 DEF DiskInv, LoopCounts, DiskTypeOK
<1>4. pc = "skip" => ecx \in 1 .. OffsetWords
  BY DEF DiskInv, LoopCounts
<1>5. pc \in {"idle", "command", "busy", "ready", "skip", "write", "insw", "return"}
  BY DEF DiskInv, DiskTypeOK, WaitInv
<1>6. DriverLeft \in 0 .. LengthWords + OffsetWords + 7 /\ (pc # "idle" => DriverLeft > 0)
  BY <1>1, <1>3, <1>4, <1>5 DEF DriverLeft
<1> QED BY <1>1, <1>2, <1>6

(* A step of the drive is one of at most two that it can take. *)
LEMMA DriveDecreases ==
  ASSUME drive \in DriveState, Drive
  PROVE  DriveLeft' < DriveLeft /\ DriverLeft' = DriverLeft
<1>1. UNCHANGED driver
  BY DEF Drive, DriveReady, DriveFails, DriveStops
<1>2. DriverLeft' = DriverLeft
  BY <1>1 DEF driver, DriverLeft, LengthWords, OffsetWords
<1>3. CASE DriveReady
  BY <1>2, <1>3 DEF DriveReady, DriveLeft, DriveState
<1>4. CASE DriveFails
  BY <1>2, <1>4 DEF DriveFails, DriveLeft, DriveState
<1>5. CASE DriveStops
  BY <1>2, <1>5 DEF DriveStops, DriveLeft, DriveState
<1> QED BY <1>2, <1>3, <1>4, <1>5 DEF Drive

(* A step of the driver reads a word or passes a stage. *)
LEMMA DriverDecreases ==
  ASSUME DiskInv, WaitInv, Driver
  PROVE  DriverLeft' < DriverLeft
<1>1. /\ LengthWords \in Nat /\ OffsetWords \in Nat /\ module \in Modelled /\ ecx \in Int
      /\ LengthWords' = LengthWords /\ OffsetWords' = OffsetWords
  BY LeftIs DEF DiskInv, DiskTypeOK, Driver, SendCommand, Busy, Ready, Dump, WriteData, InsWord,
     InsDone, Return, LengthWords, OffsetWords
<1>2. CASE SendCommand
  BY <1>1, <1>2 DEF SendCommand, DriverLeft
<1>3. CASE Busy
  BY <1>1, <1>3 DEF Busy, DriverLeft
<1>4. CASE Ready
  <2>1. ecx' = OffsetWords /\ pc' \in {"write", "skip"} /\ pc = "ready"
    BY <1>4 DEF Ready, OffsetWords
  <2> QED BY <1>1, <2>1 DEF DriverLeft
<1>5. CASE Dump
  <2>1. pc = "skip" /\ ecx \in 1 .. OffsetWords
    BY <1>5 DEF Dump, WaitInv, DiskInv, LoopCounts
  <2>2. module.offset < EcxRange /\ 2 * OffsetWords = module.offset
    BY <1>1, ModuleWords, DiskAssumption DEF Modelled
  <2>3. ecx' = ecx - 1
    BY <1>1, <1>5, <2>1, <2>2, DiskAssumption DEF Dump
  <2>4. pc' \in {"skip", "write"}
    BY <1>5, <2>1 DEF Dump
  <2> QED BY <1>1, <2>1, <2>3, <2>4 DEF DriverLeft
<1>6. CASE WriteData
  BY <1>1, <1>6 DEF WriteData, DriverLeft, LengthWords
<1>7. CASE InsWord
  BY <1>1, <1>7 DEF InsWord, DriverLeft
<1>8. CASE InsDone
  BY <1>1, <1>8, NothingRemains DEF InsDone, DriverLeft
<1>9. CASE Return
  BY <1>9 DEF Return, DriverLeft
<1> QED BY <1>2, <1>3, <1>4, <1>5, <1>6, <1>7, <1>8, <1>9 DEF Driver

(* The same measure after a step of the driver. *)
LEMMA DriverLeftAfter ==
  ASSUME DiskInv, DiskInv', WaitInv', Driver
  PROVE  DriverLeft' \in Int
<1>1. LengthWords' \in Int /\ OffsetWords' \in Int
  <2>1. module' = module
    BY DEF Driver, SendCommand, Busy, Ready, Dump, WriteData, InsWord, InsDone, Return
  <2> QED BY <2>1, ModuleWords DEF DiskInv, DiskTypeOK, LengthWords, OffsetWords
<1>2. /\ ecx' \in Int
      /\ pc' \in {"idle", "command", "busy", "ready", "skip", "write", "insw", "return"}
  BY DEF DiskInv, DiskTypeOK, WaitInv
<1> QED BY <1>1, <1>2 DEF DriverLeft

(* A step of the driver outweighs what the drive can do before the next.   *)
LEMMA LessLeft ==
  ASSUME NEW a \in Int, NEW b \in Int, NEW x \in 0 .. 2, NEW y \in 0 .. 2,
         b < a \/ (b = a /\ y < x)
  PROVE  3 * b + y < 3 * a + x
OBVIOUS

(* read_disk ends, or hangs with a drive that has failed: a call has less  *)
(* work left after every step of the driver and of the drive, and until it *)
(* has returned one of the two can go on.  The remainder of a sector is    *)
(* never drained.                                                          *)
THEOREM DiskProgress == Spec => [](WaitInv /\ CallBounded) /\ [][CallDecreases]_vars
<1>1. Init => WaitInv
  BY DEF Init, WaitInv
<1>2. DiskInv /\ WaitInv /\ [Next]_vars => WaitInv'
  BY WaitInvStep
<1>3. DiskInv /\ WaitInv => CallBounded
  <2> SUFFICES ASSUME DiskInv, WaitInv, pc # "idle"
               PROVE  /\ CallLeft \in 1 .. 3 * (LengthWords + OffsetWords + 7) + 2
                      /\ DriverGoesOn \/ drive.bsy \/ Hung
    BY DEF CallBounded
  <2>1. CallLeft \in 1 .. 3 * (LengthWords + OffsetWords + 7) + 2
    BY LeftIs DEF CallLeft
  <2>2. DriverGoesOn \/ drive.bsy \/ Hung
    BY DEF WaitInv, DriverGoesOn, DiskInv, DiskTypeOK
  <2> QED BY <2>1, <2>2
<1>4. DiskInv /\ WaitInv /\ DiskInv' /\ WaitInv' /\ [Next]_vars => [CallDecreases]_vars
  <2> SUFFICES ASSUME DiskInv, WaitInv, DiskInv', WaitInv', Next, pc # "idle"
               PROVE  CallLeft' < CallLeft
    BY DEF CallDecreases
  <2>0. CallLeft' = 3 * DriverLeft' + DriveLeft' /\ CallLeft = 3 * DriverLeft + DriveLeft
    BY DEF CallLeft
  <2>1. DriverLeft \in Int /\ DriveLeft \in 0 .. 2 /\ drive \in DriveState
    BY LeftIs DEF DiskInv, DiskTypeOK
  <2>2. DriveLeft' \in 0 .. 2
    BY DEF DriveLeft
  <2>3. CASE Drive
    <3>1. DriveLeft' < DriveLeft /\ DriverLeft' = DriverLeft
      BY <2>1, <2>3, DriveDecreases
    <3> QED BY <2>0, <2>1, <2>2, <3>1, LessLeft, Zenon
  <2>4. CASE Driver
    <3>1. DriverLeft' < DriverLeft
      BY <2>4, DriverDecreases
    <3>2. DriverLeft' \in Int
      BY <2>4, DriverLeftAfter
    <3> QED BY <2>0, <2>1, <2>2, <3>1, <3>2, LessLeft, Zenon
  <2>5. ~ \E m \in Modules : LoadModule(m)
    BY DEF LoadModule
  <2> QED BY <2>3, <2>4, <2>5 DEF Next
<1> QED BY <1>1, <1>2, <1>3, <1>4, DiskInvariance, PTL DEF Spec

(***************************************************************************)
(* What is left in the drive                                               *)
(***************************************************************************)

(* A drive with sectors left is busy or has data; and the driver has asked *)
(* for as many sectors as the register can say, of which a module within   *)
(* the first sector uses one at most.                                      *)
LeftOver ==
  /\ drive.left > 0 => drive.bsy \/ drive.drq
  /\ /\ pc \in {"busy", "ready", "skip", "write", "insw", "return"}
     /\ ~ignored /\ Bytes <= SectorBytes /\ ~drive.err
     => \/ drive.left = CountRange
        \/ drive.left = CountRange - 1 /\ (pc = "return" \/ WordsRead >= SectorWords)

(* The end of a call that has read a module of the first sector finds the  *)
(* drive busy, with data or failed, never at rest: the next command meets  *)
(* what is left of this one.                                               *)
LeavesData ==
  Complete /\ ~ignored /\ Bytes <= SectorBytes => drive.bsy \/ drive.drq \/ drive.err

(* The sector count register is always given 0, for CountRange sectors. *)
LEMMA AlwaysAllSectors ==
  ASSUME module \in Modelled
  PROVE  SectorCount = CountRange
<1>1. Bytes \in Nat /\ SectorBytes \in Nat /\ SectorBytes > 0 /\ CountRange \in Nat /\ CountRange > 0
  BY ModuleWords, DiskAssumption DEF Bytes
<1>2. Shifted = Bytes * SectorBytes
  BY <1>1, DivideProduct DEF Shifted
<1> DEFINE q == SectorBytes \div CountRange
<1>3. q \in Nat /\ SectorBytes = q * CountRange
  BY <1>1, DiskAssumption
<1>4. Bytes * q \in Nat /\ Bytes * (q * CountRange) = (Bytes * q) * CountRange
  <2> HIDE DEF q
  <2> QED BY <1>1, <1>3
<1>5. (Bytes * q) * CountRange % CountRange = 0
  <2> HIDE DEF q
  <2> QED BY <1>1, <1>4, DivideProduct
<1> QED BY <1>2, <1>3, <1>4, <1>5 DEF SectorCount

(* Reading a word takes a sector off only with the last word of it. *)
LEMMA ReadPortLeaves ==
  ASSUME drive \in DriveState, DriveConsistent, ReadPort,
         drive.left > 0 => drive.bsy \/ drive.drq
  PROVE  /\ drive'.left > 0 => drive'.bsy \/ drive'.drq
         /\ drive'.err = drive.err
         /\ drive.drq /\ drive.word + 1 < SectorWords => drive'.left = drive.left
         /\ drive.drq /\ ~(drive.word + 1 < SectorWords) /\ drive.left # 1 =>
              drive'.left = drive.left - 1
<1>1. CASE ~drive.drq
  BY <1>1 DEF ReadPort, Delivered
<1>2. CASE drive.drq /\ drive.word + 1 < SectorWords
  <2>1. drive' = [drive EXCEPT !.word = @ + 1]
    BY <1>2 DEF ReadPort, Delivered
  <2> QED BY <1>2, <2>1 DEF DriveState
<1>3. CASE drive.drq /\ ~(drive.word + 1 < SectorWords) /\ drive.left = 1
  <2>1. drive' = [drive EXCEPT !.drq = FALSE, !.left = 0]
    BY <1>3 DEF ReadPort, Delivered
  <2> QED BY <1>3, <2>1 DEF DriveState
<1>4. CASE drive.drq /\ ~(drive.word + 1 < SectorWords) /\ drive.left # 1
  <2>1. PICK busy \in BOOLEAN :
          drive' = [drive EXCEPT !.sector = @ + 1, !.word = 0, !.left = @ - 1,
                                 !.bsy = busy, !.drq = ~busy]
    BY <1>4 DEF ReadPort, Delivered
  <2>2. CASE busy = TRUE
    <3>1. drive' = [drive EXCEPT !.sector = @ + 1, !.word = 0, !.left = @ - 1,
                                 !.bsy = TRUE, !.drq = FALSE]
      BY <2>1, <2>2, Zenon
    <3> QED BY <1>4, <3>1 DEF DriveState
  <2>3. CASE busy = FALSE
    <3>1. drive' = [drive EXCEPT !.sector = @ + 1, !.word = 0, !.left = @ - 1,
                                 !.bsy = FALSE, !.drq = TRUE]
      BY <2>1, <2>3, Zenon
    <3> QED BY <1>4, <3>1 DEF DriveState
  <2> QED BY <2>2, <2>3
<1> QED BY <1>1, <1>2, <1>3, <1>4

(* A word that the driver reads of such a module is in the first sector.   *)
LEMMA ReadLeaves ==
  ASSUME DiskInv, LeftOver, ReadPort, UNCHANGED <<module, ignored>>,
         pc \in {"skip", "insw"}, pc' \in {"skip", "write", "insw"},
         WordsRead \in Int, WordsRead' = WordsRead + 1,
         WordsRead < OffsetWords + LengthWords
  PROVE  LeftOver'
<1>1. drive \in DriveState /\ DriveConsistent /\ module \in Modelled /\ Bytes' = Bytes
  BY DEF DiskInv, DiskTypeOK, Bytes
<1>2. /\ drive'.left > 0 => drive'.bsy \/ drive'.drq
      /\ drive'.err = drive.err
      /\ drive.drq /\ drive.word + 1 < SectorWords => drive'.left = drive.left
      /\ drive.drq /\ ~(drive.word + 1 < SectorWords) /\ drive.left # 1 =>
           drive'.left = drive.left - 1
  BY <1>1, ReadPortLeaves DEF LeftOver
<1>3. ASSUME ~ignored, Bytes <= SectorBytes, ~drive.err
      PROVE  \/ drive'.left = CountRange
             \/ drive'.left = CountRange - 1 /\ WordsRead' >= SectorWords
  <2>1. OffsetWords + LengthWords <= SectorWords
    BY <1>1, <1>3, WordsInSector
  <2>2. OffsetWords + LengthWords \in Int /\ SectorWords \in Int
    BY <1>1, ModuleWords, SectorWordsPositive
  <2>3. WordsRead < SectorWords
    BY <2>1, <2>2
  <2>4. drive.drq /\ drive.word = WordsRead
    <3>1. start.word = 0
      BY <1>3 DEF DiskInv, Started
    <3> QED BY <2>3, <3>1 DEF DiskInv, FirstSectorReady, Reading
  <2>5. drive.left = CountRange /\ drive.left # 1
    BY <1>3, <2>2, <2>3, DiskAssumption DEF LeftOver
  <2> QED BY <1>2, <2>2, <2>4, <2>5
<1> QED BY <1>1, <1>2, <1>3 DEF LeftOver

(* Every step of the driver and of the drive keeps it. *)
LEMMA LeftOverStep ==
  ASSUME DiskInv, WaitInv, WaitInv', LeftOver, [Next]_vars
  PROVE  LeftOver'
<1>1. drive \in DriveState /\ module \in Modelled
  BY DEF DiskInv, DiskTypeOK
<1>2. CASE UNCHANGED vars
  BY <1>2 DEF vars, LeftOver, Bytes, WordsRead, OffsetWords
<1>3. CASE Drive
  <2>1. UNCHANGED driver
    BY <1>3 DEF Drive, DriveReady, DriveFails, DriveStops
  <2>2. UNCHANGED <<pc, ignored>> /\ Bytes' = Bytes /\ WordsRead' = WordsRead
    BY <2>1 DEF driver, Bytes, WordsRead, OffsetWords
  <2>3. CASE DriveReady
    BY <1>1, <2>2, <2>3 DEF DriveReady, DriveState, LeftOver
  <2>4. CASE DriveFails
    BY <1>1, <2>2, <2>4 DEF DriveFails, DriveState, LeftOver
  <2>5. CASE DriveStops
    BY <1>1, <2>2, <2>5 DEF DriveStops, DriveState, LeftOver
  <2> QED BY <1>3, <2>3, <2>4, <2>5 DEF Drive
<1>4. CASE SendCommand
  <2>1. CASE ignored' = TRUE /\ UNCHANGED drive
    BY <2>1 DEF LeftOver
  <2>2. CASE drive' = [bsy |-> TRUE, drq |-> FALSE, err |-> FALSE, word |-> 0,
                       sector |-> module.offset \div SectorBytes, left |-> SectorCount]
    BY <1>1, <2>2, AlwaysAllSectors DEF LeftOver
  <2> QED BY <1>4, <2>1, <2>2 DEF SendCommand
<1>5. CASE Busy \/ Ready \/ WriteData \/ InsDone \/ Return
  <2>1. UNCHANGED <<drive, ignored, module, block>> /\ Bytes' = Bytes /\ pc' # "drain"
    BY <1>5 DEF Busy, Ready, WriteData, InsDone, Return, Bytes, WaitInv
  <2>2. CASE Busy \/ Ready
    <3>1. WordsRead = 0 /\ pc \in {"busy", "ready"}
      BY <2>2 DEF WordsRead, Busy, Ready
    <3> QED BY <2>1, <3>1, SectorWordsPositive DEF LeftOver
  <2>3. CASE WriteData
    <3>1. WordsRead' = WordsRead /\ pc = "write" /\ pc' = "insw"
      BY <2>1, <2>3 DEF WriteData, WordsRead, OffsetWords
    <3> QED BY <2>1, <3>1 DEF LeftOver
  <2>4. CASE InsDone
    <3>1. pc = "insw" /\ pc' = "return"
      BY <2>1, <2>4 DEF InsDone
    <3> QED BY <2>1, <3>1 DEF LeftOver
  <2>5. CASE Return
    BY <2>1, <2>5 DEF Return, LeftOver
  <2> QED BY <1>5, <2>2, <2>3, <2>4, <2>5
<1>6. CASE Dump
  <2>1. pc = "skip" /\ ecx \in 1 .. OffsetWords /\ block = <<>>
    BY <1>6 DEF Dump, WaitInv, DiskInv, LoopCounts
  <2>2. /\ OffsetWords \in Nat /\ LengthWords \in Nat /\ OffsetWords' = OffsetWords
        /\ 2 * OffsetWords = module.offset /\ module.offset < EcxRange
    BY <1>1, <1>6, ModuleWords, DiskAssumption DEF Modelled, Dump, OffsetWords
  <2>3. ecx' = ecx - 1
    BY <1>6, <2>1, <2>2, DiskAssumption DEF Dump
  <2>4. pc' = IF ecx' = 0 THEN "write" ELSE "skip"
    BY <1>6, <2>1 DEF Dump
  <2>5. WordsRead \in Int /\ WordsRead' = WordsRead + 1 /\ WordsRead < OffsetWords + LengthWords
    BY <1>6, <2>1, <2>2, <2>3, <2>4 DEF WordsRead, Dump
  <2> QED BY <1>6, <2>1, <2>4, <2>5, ReadLeaves DEF Dump
<1>7. CASE InsWord
  <2>1. /\ pc = "insw" /\ pc' = "insw" /\ ecx > 0 /\ ecx \in Int /\ Len(block) + ecx = LengthWords
        /\ OffsetWords' = OffsetWords /\ block' = Append(block, DataWord)
    BY <1>7 DEF InsWord, DiskInv, DiskTypeOK, LoopCounts, OffsetWords
  <2>2. OffsetWords \in Nat /\ LengthWords \in Nat /\ Len(block) \in Nat /\ block \in Seq(Int)
    BY <1>1, ModuleWords DEF DiskInv, DiskTypeOK
  <2>3. DataWord \in Int
    BY <1>1, SectorWordsPositive DEF DataWord, Position, DriveState, junk
  <2>4. Len(block') = Len(block) + 1
    BY <2>1, <2>2, <2>3
  <2>5. WordsRead \in Int /\ WordsRead' = WordsRead + 1 /\ WordsRead < OffsetWords + LengthWords
    BY <2>1, <2>2, <2>4 DEF WordsRead
  <2> QED BY <1>7, <2>1, <2>5, ReadLeaves DEF InsWord
<1>8. CASE \E m \in Modules : LoadModule(m)
  BY <1>8 DEF LoadModule, LeftOver
<1> QED BY <1>2, <1>3, <1>4, <1>5, <1>6, <1>7, <1>8 DEF Next, Driver

(* Every load of a module in the first sector leaves data in the drive,    *)
(* whatever the size of a sector, the register and the module: read_disk   *)
(* asks for all sectors the register can say and drains none of them, so   *)
(* the command of the next load meets a drive that may ignore it, unless   *)
(* the drive has failed.                                                   *)
THEOREM DiskLeavesData == Spec => []LeavesData
<1>1. Init => WaitInv /\ LeftOver
  BY DEF Init, WaitInv, LeftOver
<1>2. DiskInv /\ WaitInv /\ [Next]_vars => WaitInv'
  BY WaitInvStep
<1>3. DiskInv /\ WaitInv /\ WaitInv' /\ LeftOver /\ [Next]_vars => LeftOver'
  BY LeftOverStep
<1>4. DiskInv /\ LeftOver => LeavesData
  BY DiskAssumption DEF LeftOver, LeavesData, Complete
<1> QED BY <1>1, <1>2, <1>3, <1>4, DiskInvariance, PTL DEF Spec
============================================================================
