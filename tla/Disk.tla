-------------------------------- MODULE Disk -------------------------------
(***************************************************************************)
(* Loading modules: load_module of core/kernel/modules.c and read_disk of  *)
(* core/drivers/disk.asm, which polls an ATA drive and reads its data port *)
(* word by word while the drive works on its own.                          *)
(*                                                                         *)
(* The drive is external.  The word at position p of the disk is p itself; *)
(* junk is what the data port yields when the drive has no data.  A drive  *)
(* that is given a command while it is busy or has data to deliver may     *)
(* ignore it.                                                              *)
(***************************************************************************)
EXTENDS Integers, Sequences

CONSTANTS
  SectorBytes,  (* bytes of a sector: 512                                  *)
  CountRange,   (* values of the sector count register: 256                *)
  EcxRange,     (* values of ecx: 2^32                                     *)
  Modules,      (* offsets and lengths, both even, of modules on the disk  *)
  MaxReads      (* calls of load_module, to bound the run                  *)

ASSUME DiskAssumption ==
  /\ CountRange \in Nat \ {0, 1} /\ CountRange % 2 = 0
  /\ SectorBytes \in Nat \ {0} /\ SectorBytes % CountRange = 0
  /\ EcxRange \in Nat \ {0}
  /\ \A m \in Modules : /\ m.offset \in Nat /\ m.offset % 2 = 0
                        /\ m.length \in Nat /\ m.length % 2 = 0
                        /\ m.offset + m.length < EcxRange

VARIABLES
  pc,      (* where read_disk is                                           *)
  module,  (* the parameters of load_module                                *)
  ecx,     (* words that the current loop has left                         *)
  ax,      (* what ax holds: "junk", "ok" or "error"                       *)
  block,   (* words written to the block of the module, in order           *)
  res,     (* what read_disk has returned                                  *)
  drive,   (* the drive: its status flags, the sector and the word it      *)
           (* delivers next, and the sectors it has left                   *)
  reads,   (* calls made                                                   *)
  start,   (* history: the drive when this call had sent its command       *)
  late,    (* history: this call has read the port when it had no data     *)
  ignored  (* history: the drive has ignored the command of this call      *)

vars == <<pc, module, ecx, ax, block, res, drive, reads, start, late, ignored>>
driver == <<pc, module, ecx, ax, block, res, reads, start, late, ignored>>

junk == -1
SectorWords == SectorBytes \div 2

Init ==
  /\ pc = "idle" /\ module = [offset |-> 0, length |-> 0]
  /\ ecx = 0 /\ ax = "junk" /\ block = <<>> /\ res = "caller"
  /\ drive = [bsy |-> FALSE, drq |-> FALSE, err |-> FALSE,
              sector |-> 0, word |-> 0, left |-> 0]
  /\ reads = 0 /\ start = drive /\ late = FALSE /\ ignored = FALSE

(***************************************************************************)
(* The drive                                                               *)
(***************************************************************************)

DriveReady ==
  /\ drive.bsy /\ ~drive.err
  /\ drive' = [drive EXCEPT !.bsy = FALSE, !.drq = TRUE]
  /\ UNCHANGED driver

(* The error flag, or the drive fault flag, is up before the busy flag is  *)
(* down.                                                                   *)
DriveFails ==
  /\ drive.bsy /\ ~drive.err
  /\ drive' = [drive EXCEPT !.err = TRUE]
  /\ UNCHANGED driver

DriveStops ==
  /\ drive.bsy /\ drive.err
  /\ drive' = [drive EXCEPT !.bsy = FALSE, !.left = 0]
  /\ UNCHANGED driver

(* What the data port yields, and what reading it does to the drive: after *)
(* the last word of a sector it has the next one at once or is busy.       *)
Position(d) == d.sector * SectorWords + d.word

DataWord == IF drive.drq THEN Position(drive) ELSE junk

Delivered ==
  IF ~drive.drq THEN {drive}
  ELSE IF drive.word + 1 < SectorWords THEN {[drive EXCEPT !.word = @ + 1]}
  ELSE IF drive.left = 1 THEN {[drive EXCEPT !.drq = FALSE, !.left = 0]}
  ELSE {[drive EXCEPT !.sector = @ + 1, !.word = 0, !.left = @ - 1, !.bsy = busy, !.drq = ~busy] :
          busy \in BOOLEAN}

ReadPort == drive' \in Delivered /\ late' = (late \/ ~drive.drq)

(***************************************************************************)
(* read_disk                                                               *)
(***************************************************************************)

Bytes == module.length + module.offset

(* ebx: shifted left where it should be shifted right, so the remainder is *)
(* always 0.                                                               *)
Shifted == LET ebx == Bytes * SectorBytes
           IN  IF ebx % SectorBytes = 0 THEN ebx ELSE ebx + 1

(* The low byte goes to the drive, for which 0 means CountRange. *)
SectorCount == IF Shifted % CountRange = 0 THEN CountRange ELSE Shifted % CountRange

(* Words behind the data that are left to drain. *)
Remaining == (Shifted \div SectorBytes - module.length - module.offset) \div 2

(* load_module allocates a block of length bytes and passes both the       *)
(* sector and the whole offset.  A ralloc that finds no room does not come *)
(* back (Heap), and the two lines that load_module prints touch nothing    *)
(* that read_disk uses: both are left out.                                 *)
LoadModule(m) ==
  /\ pc = "idle" /\ reads < MaxReads
  /\ module' = m /\ block' = <<>> /\ reads' = reads + 1
  /\ ax' = "junk" /\ late' = FALSE /\ pc' = "command"
  /\ UNCHANGED <<ecx, res, drive, start, ignored>>

SendCommand ==
  /\ pc = "command"
  /\ \/ /\ drive' = [bsy |-> TRUE, drq |-> FALSE, err |-> FALSE, word |-> 0,
                     sector |-> module.offset \div SectorBytes, left |-> SectorCount]
        /\ ignored' = FALSE
     \/ /\ drive.bsy \/ drive.drq
        /\ ignored' = TRUE /\ UNCHANGED drive
  /\ start' = drive' /\ pc' = "busy"
  /\ UNCHANGED <<module, ecx, ax, block, res, reads, late>>

(* Mutant: the busy flag is tested the other way round. *)
BusyInverted ==
  /\ pc = "busy"
  /\ \/ drive.bsy /\ pc' = "ready" /\ UNCHANGED ax
     \/ ~drive.bsy /\ drive.err /\ pc' = "return" /\ ax' = "error"
  /\ UNCHANGED <<module, ecx, block, res, drive, reads, start, late, ignored>>

(* The error flags are tested only while the drive is busy. *)
Busy ==
  /\ pc = "busy"
  /\ \/ ~drive.bsy /\ pc' = "ready" /\ UNCHANGED ax
     \/ drive.bsy /\ drive.err /\ pc' = "return" /\ ax' = "error"
  /\ UNCHANGED <<module, ecx, block, res, drive, reads, start, late, ignored>>

(* Mutant: an offset of 0 enters the loop. *)
ReadyUnguarded ==
  /\ pc = "ready" /\ drive.drq
  /\ ecx' = module.offset \div 2 /\ pc' = "skip"
  /\ UNCHANGED <<module, ax, block, res, drive, reads, start, late, ignored>>

(* Mutant: the offset is not halved. *)
ReadyBytes ==
  /\ pc = "ready" /\ drive.drq
  /\ ecx' = module.offset
  /\ pc' = IF ecx' = 0 THEN "write" ELSE "skip"
  /\ UNCHANGED <<module, ax, block, res, drive, reads, start, late, ignored>>

Ready ==
  /\ pc = "ready" /\ drive.drq
  /\ ecx' = module.offset \div 2
  /\ pc' = IF ecx' = 0 THEN "write" ELSE "skip"
  /\ UNCHANGED <<module, ax, block, res, drive, reads, start, late, ignored>>

(* .dump_offset and .dump_remains: loop decrements before it tests. *)
Dump ==
  /\ pc \in {"skip", "drain"}
  /\ ReadPort
  /\ ecx' = (ecx - 1) % EcxRange
  /\ pc' = IF ecx' # 0 THEN pc ELSE IF pc = "skip" THEN "write" ELSE "return"
  /\ ax' = IF pc' = "return" THEN "ok" ELSE "junk"
  /\ UNCHANGED <<module, block, res, reads, start, ignored>>

WriteData ==
  /\ pc = "write"
  /\ ecx' = module.length \div 2 /\ pc' = "insw"
  /\ UNCHANGED <<module, ax, block, res, drive, reads, start, late, ignored>>

(* rep insw: the port is not polled between sectors. *)
InsWord ==
  /\ pc = "insw" /\ ecx > 0
  /\ ReadPort
  /\ block' = Append(block, DataWord) /\ ecx' = ecx - 1
  /\ UNCHANGED <<pc, module, ax, res, reads, start, ignored>>

InsDone ==
  /\ pc = "insw" /\ ecx = 0
  /\ ecx' = Remaining % EcxRange
  /\ pc' = IF ecx' = 0 THEN "return" ELSE "drain"
  /\ UNCHANGED <<module, ax, block, res, drive, reads, start, late, ignored>>

(* Words of the registers that pusha has saved, from esp: eax is at byte   *)
(* 28 and ax is stored at byte 14, which popa discards.                    *)
Return ==
  /\ pc = "return"
  /\ LET saved == [[w \in 0 .. 15 |-> "caller"] EXCEPT ![14 \div 2] = ax]
     IN  res' = saved[28 \div 2]
  /\ pc' = "idle"
  /\ UNCHANGED <<module, ecx, ax, block, drive, reads, start, late, ignored>>

(***************************************************************************)
(* Specification                                                           *)
(***************************************************************************)

Drive  == DriveReady \/ DriveFails \/ DriveStops
Driver == SendCommand \/ Busy \/ Ready \/ Dump \/ WriteData \/ InsWord \/ InsDone \/ Return

Next == Drive \/ Driver \/ \E m \in Modules : LoadModule(m)

Spec == Init /\ [][Next]_vars

(* The CPU executes, and a drive that is busy comes to an end. *)
FairSpec == Spec /\ WF_vars(Driver) /\ WF_vars(Drive)

(***************************************************************************)
(* Properties                                                              *)
(***************************************************************************)

Complete == pc = "return" /\ ax # "error"

(* What the block holds when its words are those of the disk from word w   *)
(* on.                                                                     *)
WordsFrom(w) == [k \in 1 .. module.length \div 2 |-> w + k - 1]

(* A module that lies in the first sector is loaded word by word, however  *)
(* slow the drive, by every call whose command the drive takes: nothing of *)
(* it is read before the drive has it.                                     *)
ModuleLoaded ==
  Complete /\ ~ignored /\ Bytes <= SectorBytes => block = WordsFrom(module.offset \div 2)

(* The block holds the words behind the offset, counted from the word at   *)
(* which the drive stood when it had the command: the first one of the     *)
(* sector that the offset lies in, or, if the drive has ignored the        *)
(* command, wherever an earlier call has left it.  A drive that pauses     *)
(* spoils none of them up to the end of the sector in which it stood.      *)
DataInOrder ==
  Complete =>
    /\ Len(block) = module.length \div 2
    /\ \A k \in DOMAIN block :
         ~late \/ start.word + module.offset \div 2 + k <= SectorWords =>
           block[k] = Position(start) + module.offset \div 2 + k - 1

(* The driver waits forever only for a drive that failed and was no longer *)
(* busy when it was polled; every other call of load_module returns.       *)
Hung == pc = "ready" /\ drive.err /\ ~drive.bsy
ReadEnds == pc # "idle" ~> pc = "idle" \/ Hung

(* What load_module is for: the block holds the module, whenever read_disk *)
(* has come to its end without an error.  It does not, for three reasons:  *)
(* the sector count is wrong, so a call leaves data in the drive, and the  *)
(* drive may ignore the command of the next one; rep insw reads on while   *)
(* the drive is busy between two sectors; and behind the first sector      *)
(* load_module passes the sector and the whole offset, which are added up. *)
LoadsModule == Complete => block = WordsFrom(module.offset \div 2)
============================================================================
