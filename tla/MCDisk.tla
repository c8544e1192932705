------------------------------- MODULE MCDisk ------------------------------
(***************************************************************************)
(* Disk with modules that start and end at every even byte of the first    *)
(* two sectors and just behind them, empty ones included.                  *)
(***************************************************************************)
EXTENDS Disk

Even(S) == {n \in S : n % 2 = 0}
SomeModules == [offset : Even(0 .. SectorBytes + 2), length : Even(0 .. 2 * SectorBytes + 2)]

(* Modules that need one sector only. *)
ShortModules == {m \in SomeModules : m.offset + m.length <= SectorBytes}
============================================================================
