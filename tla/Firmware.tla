--------------------------------- MODULE Firmware ------------------------------
(***************************************************************************)
(* What a program does with the chip: the clocks are set up and a driver   *)
(* computes its dividers from them; drivers come and go; the flash is      *)
(* written; tasks sleep in the queue of the SysTick driver; a task feeds a *)
(* ring buffer that the DMA controller empties.  These share no state      *)
(* beyond the clock frequencies, and a behaviour follows one of them.      *)
(***************************************************************************)
EXTENDS Drivers, Chip, Flash, SysTick, DmaWriter

VARIABLE story    \* what the behaviour follows

firmwareVars == <<story, vars, chipVars, flashVars, tickVars, writerVars>>

FirstConfig == CHOOSE c \in Config("f002b") : c.sys = "HSI"

FirmwareInit ==
  /\ story \in {"clocks", "drivers", "flash", "sleepers", "stream"}
  /\ Init
  /\ IF story = "clocks" THEN ChipInit
     ELSE ClockInitWith("f002b", FirstConfig) /\ setting = Unset
  /\ FlashInit /\ (story # "flash" => protected = {})
  /\ TickInit /\ WriterInit

FirmwareNext ==
  /\ story' = story
  /\ \/ /\ story = "clocks" /\ ChipNext
        /\ UNCHANGED <<vars, flashVars, tickVars, writerVars>>
     \/ /\ story = "drivers" /\ Next
        /\ UNCHANGED <<chipVars, flashVars, tickVars, writerVars>>
     \/ /\ story = "flash" /\ FlashNext
        /\ UNCHANGED <<vars, chipVars, tickVars, writerVars>>
     \/ /\ story = "sleepers" /\ TickNext
        /\ UNCHANGED <<vars, chipVars, flashVars, writerVars>>
     \/ /\ story = "stream" /\ WriterNext
        /\ UNCHANGED <<vars, chipVars, flashVars, tickVars>>

FirmwareSpec == FirmwareInit /\ [][FirmwareNext]_firmwareVars

================================================================================
