------------------------------- MODULE Transfer -------------------------------
(***************************************************************************)
(* The disk driver (src/drivers/ata.c): lread_sector and lwrite_sector     *)
(* move any number of sectors by commands of Chunk at most, and read_      *)
(* sector and write_sector move the sectors of one command, each when the  *)
(* device says that it is ready. On an error they return, and nothing      *)
(* tells the caller: the next command goes on as if nothing had happened.  *)
(***************************************************************************)
EXTENDS Integers, Sequences, FiniteSetsExt

CONSTANT Chunk      \* 256: sectors of a command; as a byte that is 0

ASSUME TransferAssumption == Chunk \in Nat \ {0}

VARIABLES
    platter,        \* address -> contents of the sector
    buffer,         \* of the caller, by sectors
    io,             \* the running call
    before,         \* history: platter and buffer when it began
    missed          \* history: sectors of it that an error has skipped

driverVars == <<platter, buffer, io, before, missed>>

NoIo == [op |-> "none", lba |-> 0, sectors |-> 0, pos |-> 0, count |-> 0, s |-> 0]

NoCall == [platter |-> <<>>, buffer |-> <<>>]

Resting == io.op = "none"
Between == ~Resting /\ io.count = 0
Returning == Between /\ io.pos = io.sectors

(* A call of lread_sector or lwrite_sector with a buffer.                  *)
Request(op, lba, contents) ==
    /\ Resting
    /\ io' = [NoIo EXCEPT !.op = op, !.lba = lba, !.sectors = Len(contents)]
    /\ buffer' = contents
    /\ before' = [platter |-> platter, buffer |-> contents]
    /\ missed' = {}
    /\ UNCHANGED platter

(* The sectors of the next command. The byte given is 0 for a whole chunk, *)
(* which the device and the loops of read_sector take for Chunk.           *)
CommandCount(left) ==
    LET register == IF left >= Chunk THEN 0 ELSE left % Chunk
    IN  IF register = 0 THEN Chunk ELSE register

(* The next command is written to the device.                              *)
Command ==
    /\ Between /\ io.pos < io.sectors
    /\ io' = [io EXCEPT !.count = CommandCount(io.sectors - io.pos), !.s = 0]
    /\ UNCHANGED <<platter, buffer, before, missed>>

(* All sectors have been asked for: the caller has its buffer.             *)
Return ==
    /\ Returning
    /\ io' = NoIo /\ buffer' = <<>> /\ before' = NoCall /\ missed' = {}
    /\ UNCHANGED platter

(* Mutant of MoveSector: the buffer starts again with every command.       *)
MoveSectorSame ==
    LET at == io.lba + io.pos + io.s
        part == io.s + 1
    IN  IF io.op = "write"
        THEN platter' = [platter EXCEPT ![at] = buffer[part]] /\ UNCHANGED buffer
        ELSE buffer' = [buffer EXCEPT ![part] = platter[at]] /\ UNCHANGED platter

(* The words of one sector.                                                *)
MoveSector ==
    LET at == io.lba + io.pos + io.s
        part == io.pos + io.s + 1
    IN  IF io.op = "write"
        THEN platter' = [platter EXCEPT ![at] = buffer[part]] /\ UNCHANGED buffer
        ELSE buffer' = [buffer EXCEPT ![part] = platter[at]] /\ UNCHANGED platter

(* buffer and lba advance by the sectors of the command.                   *)
Advanced == [io EXCEPT !.pos = @ + io.count, !.count = 0, !.s = 0]

(* The device is ready for a sector that it has, and after the words of it *)
(* have passed the sector is where it belongs. After the last one the      *)
(* command ends.                                                           *)
Sector ==
    /\ io.count > 0 /\ io.lba + io.pos + io.s \in DOMAIN platter
    /\ MoveSector
    /\ io' = IF io.s + 1 = io.count THEN Advanced ELSE [io EXCEPT !.s = @ + 1]
    /\ UNCHANGED <<before, missed>>

(* An error concerns the sector instead, and what is behind it in this     *)
(* command is not moved. Of a read the device reports it before the words. *)
(* Of a write it may also have taken the words and not put them down: then *)
(* it says so when it is asked about the next sector, or is not asked any  *)
(* more, after the last one. What it keeps in a cache of its own and loses *)
(* later is not modelled.                                                  *)
Fail ==
    /\ io.count > 0
    /\ missed' = missed \cup (io.pos + io.s)..(io.pos + io.count - 1)
    /\ io' = Advanced
    /\ UNCHANGED <<platter, buffer, before>>

Drive == Command \/ Sector \/ Fail

-----------------------------------------------------------------------------
(* After a call, and at every moment of it, a sector holds what it held    *)
(* before or its own part of the buffer (the other way round for a read),  *)
(* no other sector has changed, and the parts passed that are not there    *)
(* are those from an error to the end of its command.                      *)
Moved(k) == k < io.pos + io.s /\ k \notin missed
Placed ==
    /\ io.op = "write" => platter = [a \in DOMAIN before.platter |->
            LET k == a - io.lba
            IN  IF k \in 0..(io.sectors - 1) /\ Moved(k) THEN before.buffer[k + 1]
                ELSE before.platter[a]]
    /\ io.op = "read" => buffer = [p \in 1..io.sectors |->
            IF Moved(p - 1) THEN before.platter[io.lba + p - 1] ELSE before.buffer[p]]
=============================================================================
