---------------------------------- MODULE Flash --------------------------------
(***************************************************************************)
(* The blocking flash driver.  A call is checked and split into pages or   *)
(* sectors, each programmed or erased in a critical section of its own     *)
(* with the controller unlocked.  Offsets are in half pages, so that an    *)
(* unaligned one can be asked for.                                         *)
(***************************************************************************)
EXTENDS Integers

CONSTANTS
  PageCount,     \* FLASH_SIZE
  SectorPages    \* SECTOR_SIZE

ASSUME FlashAssumption ==
  /\ SectorPages \in Nat \ {0}
  /\ PageCount \in Nat /\ PageCount % SectorPages = 0

VARIABLES
  mem,        \* each page: "erased", programmed with "data", or "mixed": not known
  protected,  \* write-protected pages, whole sectors, by the option bytes
  fcr, fsr,   \* CR and SR
  call,       \* the call in progress, or the last one
  from,       \* the next page of its loop
  fresult,    \* its result, or Running
  before,     \* ghost: the memory when it was called
  clean       \* ghost: it found no erase bit set in CR but its own

flashVars == <<mem, protected, fcr, fsr, call, from, fresult, before, clean>>

Pages == 0 .. PageCount - 1
SectorOf(p) == {q \in Pages : q \div SectorPages = p \div SectorPages}
Running == "running"

-------------------------------------------------------------------------------
(* The controller: a unit is erased or a page programmed; write protection *)
(* raises WRPERR.  What programming with an erase bit set does, or erasing *)
(* with both, is not defined: the sector may hold anything after it, and   *)
(* the operation may end in any way.                                       *)

NoFlags == [eop |-> FALSE, wrperr |-> FALSE]
Done(cr) == [NoFlags EXCEPT !.eop = cr.eopie]
Refuses == [NoFlags EXCEPT !.wrperr = TRUE]

ErasedIn(units) == [p \in Pages |-> IF p \in units THEN "erased" ELSE mem[p]]
Programmed(p) == [mem EXCEPT ![p] = IF @ = "erased" THEN "data" ELSE "mixed"]

Spoilt(units) == [p \in Pages |-> IF p \in units THEN "mixed" ELSE mem[p]]

Outcomes(page, cr) ==
  IF cr.pg + cr.per + cr.ser # 1
  THEN {mem, Spoilt(SectorOf(page))} \X {Done(cr), Refuses, NoFlags}
  ELSE LET units == IF cr.ser = 1 THEN SectorOf(page) ELSE {page} IN
       IF units \cap protected # {} THEN {<<mem, Refuses>>}
       ELSE {<<IF cr.pg = 1 THEN Programmed(page) ELSE ErasedIn(units), Done(cr)>>}

\* A flag raised is kept until it is cleared.
With(sr, raised) == [f \in DOMAIN sr |-> sr[f] \/ raised[f]]

\* Mutant: the flags are left as they are.
clear_all_err_not(sr) == sr

clear_all_err(sr) == NoFlags

\* wait_ready_blocking, and the check of EOP.
Outcome(sr) ==
  CASE sr.wrperr -> "Protected" [] ~sr.wrperr /\ ~sr.eop -> "Prog" [] OTHER -> "ok"

-------------------------------------------------------------------------------
Returns(result) == fresult' = result /\ UNCHANGED <<mem, protected, fcr, fsr>>

\* The erase bits an earlier call has left set are those this one sets itself.
FindsClean(kind) ==
  (kind # "pages" => fcr.per = 0) /\ (kind # "sectors" => fcr.ser = 0)

blocking_write(offset, len) ==
  /\ fresult # Running
  /\ call' = [kind |-> "write", from |-> offset \div 2, to |-> (offset + len) \div 2]
  /\ from' = offset \div 2 /\ before' = mem /\ clean' = FindsClean(call'.kind)
  /\ Returns(CASE offset + len > 2 * PageCount -> "Size"
               [] offset + len <= 2 * PageCount /\ (offset % 2 # 0 \/ len % 2 # 0) -> "Unaligned"
               [] OTHER -> Running)

Aligned(start, end, size) == end = start \/ (start < end /\ start % size = 0 /\ end % size = 0)

\* An empty range is aligned with anything.  The range is not compared with
\* the size of the flash.
blocking_erase(start, end) ==
  /\ fresult # Running
  /\ call' = [kind |-> IF Aligned(start, end, 2 * SectorPages) THEN "sectors" ELSE "pages",
              from |-> start \div 2, to |-> end \div 2]
  /\ from' = start \div 2 /\ before' = mem /\ clean' = FindsClean(call'.kind)
  /\ Returns(IF Aligned(start, end, 2) THEN Running ELSE "Unaligned")

\* The loop goes on with the next unit, or returns the error.
Continue(result, next) ==
  /\ fresult' = IF result = "ok" THEN Running ELSE result
  /\ from' = IF result = "ok" THEN next ELSE from
  /\ UNCHANGED <<protected, call, before, clean>>

\* A wrong flag of before ends the operation before it begins.
write_chunk ==
  /\ fresult = Running /\ call.kind = "write" /\ from < call.to
  /\ LET sr == clear_all_err(fsr)
         cr == [fcr EXCEPT !.lock = FALSE, !.pg = 1, !.eopie = TRUE]
     IN /\ \E o \in IF sr.wrperr THEN {<<mem, sr>>} ELSE Outcomes(from, cr) :
             LET result == Outcome(With(sr, o[2])) IN
             /\ mem' = o[1]
             /\ fsr' = [With(sr, o[2]) EXCEPT !.eop = @ /\ result # "ok"]
             /\ Continue(result, from + 1)
        /\ fcr' = [cr EXCEPT !.pg = 0, !.lock = TRUE]

\* An early return leaves PER or SER set.
erase_unit ==
  /\ fresult = Running /\ call.kind \in {"pages", "sectors"} /\ from < call.to
  /\ LET sector == call.kind = "sectors"
         sr == clear_all_err(fsr)
         cr == IF sector THEN [fcr EXCEPT !.lock = FALSE, !.ser = 1, !.eopie = TRUE]
                         ELSE [fcr EXCEPT !.lock = FALSE, !.per = 1, !.eopie = TRUE]
     IN \E o \in IF sr.wrperr THEN {<<mem, sr>>} ELSE Outcomes(from, cr) :
          LET result == Outcome(With(sr, o[2])) IN
          /\ mem' = o[1]
          /\ fsr' = IF result = "ok" THEN clear_all_err(With(sr, o[2])) ELSE With(sr, o[2])
          /\ fcr' = IF result # "ok" THEN [cr EXCEPT !.lock = TRUE]
                    ELSE IF sector THEN [cr EXCEPT !.lock = TRUE, !.ser = 0]
                                   ELSE [cr EXCEPT !.lock = TRUE, !.per = 0]
          /\ Continue(result, from + (IF sector THEN SectorPages ELSE 1))

flash_returns ==
  /\ fresult = Running /\ from >= call.to
  /\ Returns("ok") /\ UNCHANGED <<call, from, before, clean>>

-------------------------------------------------------------------------------
FlashInit ==
  /\ mem = [p \in Pages |-> "data"]
  /\ protected \in {UNION {SectorOf(p) : p \in S} : S \in SUBSET Pages}
  /\ fcr = [lock |-> TRUE, pg |-> 0, per |-> 0, ser |-> 0, eopie |-> FALSE]
  /\ fsr = NoFlags
  /\ call = [kind |-> "write", from |-> 0, to |-> 0] /\ from = 0
  /\ fresult = "ok" /\ before = mem /\ clean = TRUE

FlashNext ==
  \/ \E offset \in 0 .. 2 * PageCount, len \in 0 .. 4 : blocking_write(offset, len)
  \/ \E start, end \in 0 .. 2 * PageCount : blocking_erase(start, end)
  \/ write_chunk \/ erase_unit \/ flash_returns

-------------------------------------------------------------------------------
\* What a call of the driver promises.  Between calls the controller is locked and
\* programs nothing, and a call that is refused changes nothing.  A call that found
\* no erase bit left by another kind of call promises more: Ok means that every page
\* of its range was erased, or programmed over what it held, and none was protected;
\* an error names a true cause; no other page changes; and it leaves an erase bit
\* behind only if it was an erase that failed, or had nothing to do.
FlashContract ==
  fresult # Running =>
    /\ fcr.lock /\ fcr.pg = 0
    /\ fresult \in {"Size", "Unaligned"} => mem = before
    /\ clean =>
         LET range == call.from .. call.to - 1 IN
         /\ \A p \in Pages \ range : mem[p] = before[p]
         /\ fresult = "ok" => range \cap protected = {}
         /\ fresult = "Protected" => range \cap protected # {}
         /\ fresult # "Prog"
         /\ fresult = "ok" => \A p \in range : mem[p] =
              IF call.kind # "write" THEN "erased"
              ELSE IF before[p] = "erased" THEN "data" ELSE "mixed"
         /\ call.kind = "write" \/ (fresult = "ok" /\ range # {}) => fcr.per = 0 /\ fcr.ser = 0

================================================================================
