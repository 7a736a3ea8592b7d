---------------------------- MODULE FirmwareProofs ----------------------------
(***************************************************************************)
(* Proofs about the components of Firmware, each an invariant of the       *)
(* composition: a behaviour follows one component and leaves the others    *)
(* in their initial states.                                                *)
(***************************************************************************)
EXTENDS Firmware, DmaWriterProofs, FiniteSetTheorems, WellFoundedInduction

-------------------------------------------------------------------------------
(* SysTick: the next expiration is the least time in the queue.            *)

\* Min is the least element of a set of naturals, by well-foundedness of <.
LEMMA MinIsLeast ==
  ASSUME NEW S \in SUBSET Nat, S # {}
  PROVE  Min(S) \in S /\ \A y \in S : Min(S) <= y
<1>1. PICK x \in S : \A y \in S : ~ (<<y, x>> \in OpToRel(<, Nat))
  BY NatLessThanWellFounded, WFMin
<1>2. ASSUME NEW y \in S PROVE x <= y
  <2>1. y < x => <<y, x>> \in OpToRel(<, Nat)
    BY DEF OpToRel
  <2>2. ~ (y < x)
    BY <1>1, <2>1
  <2>3. x \in Nat /\ y \in Nat
    OBVIOUS
  <2> QED
    BY <2>2, <2>3
<1> QED
  BY <1>1, <1>2 DEF Min

LEMMA NextExpirationIsLeast ==
  ASSUME NEW queue \in [Sleepers -> 0 .. Never]
  PROVE  /\ NextExpiration(queue) \in 0 .. Never
         /\ \A t \in Sleepers : NextExpiration(queue) <= queue[t]
<1> DEFINE times == {queue[t] : t \in Sleepers} \cup {Never}
<1>1. Never \in Nat
  BY SysTickAssumption DEF Never
<1>2. times \subseteq 0 .. Never /\ times \subseteq Nat /\ times # {}
  BY <1>1
<1>3. Min(times) \in times /\ \A y \in times : Min(times) <= y
  BY <1>2, MinIsLeast
<1> QED
  BY <1>2, <1>3 DEF NextExpiration

-------------------------------------------------------------------------------
(* The queue after an expiration.                                          *)

LEMMA LeftType ==
  ASSUME NEW queue \in [Sleepers -> 0 .. Never], NEW now \in Nat
  PROVE  Left(queue, now) \in [Sleepers -> 0 .. Never]
  BY SysTickAssumption DEF Left, Never

\* Setting the alarm leaves no task in the queue whose time is over, and wakes none
\* before its time.
LEMMA SetAlarmInTime ==
  ASSUME NEW queue \in [Sleepers -> 0 .. Never],
         NEW at \in Nat, NEW now \in 0 .. LastTick, at <= now, now <= at + 1,
         SetAlarm(queue, at, now)
  PROVE  /\ wakes' \in [Sleepers -> 0 .. Never]
         /\ \A t \in Sleepers : wakes'[t] >= now
         /\ \A n \in late' : n >= 0
         /\ alarm' = NextExpiration(wakes')
<1> DEFINE first == Left(queue, at)
           rest == IF NextExpiration(first) <= now THEN Left(first, now) ELSE first
<1>1. first \in [Sleepers -> 0 .. Never] /\ Left(first, now) \in [Sleepers -> 0 .. Never]
  BY LeftType, SysTickAssumption
<1>2. wakes' = rest /\ alarm' = NextExpiration(rest)
      /\ late' = {now - queue[t] : t \in {s \in Sleepers : queue[s] # rest[s]}}
  BY DEF SetAlarm
<1>3. ASSUME NEW t \in Sleepers
      PROVE  first[t] >= now /\ Left(first, now)[t] >= now
  BY <1>1, SysTickAssumption DEF Left, Never
<1>4. ASSUME NEW t \in Sleepers, queue[t] # rest[t] PROVE queue[t] <= now
  <2>1. first[t] = (IF queue[t] <= at THEN Never ELSE queue[t])
    BY DEF Left
  <2>2. Left(first, now)[t] = (IF first[t] <= now THEN Never ELSE first[t])
    BY DEF Left
  <2> QED
    BY <1>4, <2>1, <2>2, SysTickAssumption DEF Never
<1>5. \A n \in late' : n >= 0
  BY <1>2, <1>4, SysTickAssumption DEF Never
<1> QED
  BY <1>1, <1>2, <1>3, <1>5

-------------------------------------------------------------------------------
\* The inductive invariant adds the types: the alarm is the least time in the queue,
\* so a tick that does not reach the alarm reaches no task's time.
TickInv ==
  /\ ticks \in 0 .. LastTick
  /\ wakes \in [Sleepers -> 0 .. Never]
  /\ WokenInTime

LEMMA TickInvInit == TickInit => TickInv
<1> SUFFICES ASSUME TickInit PROVE TickInv
  OBVIOUS
<1>1. ticks \in 0 .. LastTick /\ wakes \in [Sleepers -> 0 .. Never]
      /\ \A t \in Sleepers : wakes[t] = Never
  BY SysTickAssumption DEF TickInit, Never
<1>2. NextExpiration(wakes) = Never
  <2>1. {wakes[t] : t \in Sleepers} \cup {Never} = {Never}
    BY <1>1
  <2> QED
    BY <2>1, SysTickAssumption, MinIsLeast DEF NextExpiration, Never
<1> QED
  BY <1>1, <1>2, SysTickAssumption DEF TickInit, TickInv, WokenInTime, Never

LEMMA TickInvTick == TickInv /\ on_systick => TickInv'
<1> SUFFICES ASSUME TickInv, on_systick PROVE TickInv'
  OBVIOUS
<1>1. ticks \in Nat /\ ticks' = ticks + 1 /\ ticks' \in 0 .. LastTick
  BY SysTickAssumption DEF TickInv, on_systick
<1>2. CASE alarm # Never /\ ticks >= alarm
  <2>1. SetAlarm(wakes, ticks, ticks + 1)
    BY <1>2 DEF on_systick
  <2> QED
    BY <1>1, <2>1, SetAlarmInTime DEF TickInv, WokenInTime
<1>3. CASE ~(alarm # Never /\ ticks >= alarm)
  <2>1. late' = {} /\ alarm' = alarm /\ wakes' = wakes
    BY <1>3 DEF on_systick
  <2>2. alarm \in 0 .. Never /\ \A t \in Sleepers : alarm <= wakes[t]
    BY NextExpirationIsLeast DEF TickInv, WokenInTime
  <2>3. \A t \in Sleepers : wakes[t] >= ticks + 1
    BY <1>1, <1>3, <2>2, SysTickAssumption DEF TickInv, Never
  <2> QED
    BY <1>1, <2>1, <2>3 DEF TickInv, WokenInTime, NextExpiration
<1> QED
  BY <1>2, <1>3

LEMMA TickInvSchedule ==
  ASSUME NEW t \in Sleepers, NEW at \in 0 .. LastTick, TickInv, schedule_wake(t, at)
  PROVE  TickInv'
<1>1. CASE at <= wakes[t]
  <2>1. [wakes EXCEPT ![t] = at] \in [Sleepers -> 0 .. Never]
    BY SysTickAssumption DEF TickInv, Never
  <2>2. SetAlarm([wakes EXCEPT ![t] = at], ticks, ticks) /\ ticks' = ticks
    BY <1>1 DEF schedule_wake
  <2>3. ticks \in Nat /\ ticks \in 0 .. LastTick /\ ticks <= ticks /\ ticks <= ticks + 1
    BY SysTickAssumption DEF TickInv
  <2>4. /\ wakes' \in [Sleepers -> 0 .. Never]
        /\ \A s \in Sleepers : wakes'[s] >= ticks
        /\ \A n \in late' : n >= 0
        /\ alarm' = NextExpiration(wakes')
    BY <2>1, <2>2, <2>3, SetAlarmInTime
  <2> QED
    BY <2>2, <2>3, <2>4 DEF TickInv, WokenInTime, NextExpiration
<1>2. CASE ~(at <= wakes[t])
  BY <1>2 DEF schedule_wake, TickInv, WokenInTime, NextExpiration
<1> QED
  BY <1>1, <1>2

LEMMA TickInvStep == TickInv /\ [TickNext]_tickVars => TickInv'
<1>1. TickInv /\ UNCHANGED tickVars => TickInv'
  BY DEF TickInv, WokenInTime, NextExpiration, tickVars
<1> QED
  BY <1>1, TickInvTick, TickInvSchedule DEF TickNext

-------------------------------------------------------------------------------
(***************************************************************************)
(* The flash: what is done of a range is done, and nothing else is.        *)
(***************************************************************************)

Contents == {"erased", "data", "mixed"}

FlashTypes ==
  /\ {mem, before} \subseteq [Pages -> Contents]
  /\ protected \subseteq Pages
  /\ fcr \in [lock : BOOLEAN, pg : {0, 1}, per : {0, 1}, ser : {0, 1}, eopie : BOOLEAN]
  /\ call \in [kind : {"write", "pages", "sectors"}, from : Nat, to : Nat]
  /\ from \in Nat
  /\ clean \in BOOLEAN

\* The bits of CR that select an operation are set in critical sections only, but for
\* the one a failed erase leaves.
CleanControl ==
  /\ fcr.lock /\ fcr.pg = 0
  /\ clean => FindsClean(call.kind)

\* What a page holds when the call is done with it.
Final(p) ==
  IF call.kind # "write" THEN "erased" ELSE IF before[p] = "erased" THEN "data" ELSE "mixed"

Multiple(n) == \E k \in Nat : n = k * SectorPages

\* A loop that began with CR clean: the pages before the next one are done, the others untouched.
LoopInv ==
  fresult = Running /\ clean =>
    /\ call.from <= from /\ from <= call.to /\ call.to <= PageCount
    /\ call.from < from => fcr.per = 0 /\ fcr.ser = 0
    /\ call.kind = "sectors" /\ from < call.to => Multiple(from) /\ Multiple(call.to)
    /\ \A p \in Pages : mem[p] = IF p \in call.from .. from - 1 THEN Final(p) ELSE before[p]
    /\ \A p \in call.from .. from - 1 : p \notin protected

FlashInv == FlashTypes /\ CleanControl /\ LoopInv /\ FlashContract

-------------------------------------------------------------------------------
(* Sectors. *)

\* The next multiple.
LEMMA NextMultiple ==
  ASSUME NEW a \in Nat, NEW b \in Nat, Multiple(a), Multiple(b), a < b
  PROVE  a + SectorPages <= b /\ Multiple(a + SectorPages)
<1>1. SectorPages \in Nat /\ SectorPages >= 1
  BY FlashAssumption
<1>2. PICK k \in Nat, l \in Nat : a = k * SectorPages /\ b = l * SectorPages
  BY DEF Multiple
<1>3. k < l
  <2>1. l <= k => l * SectorPages <= k * SectorPages
    BY <1>1, SMT
  <2> QED
    BY <1>2, <2>1
<1>4. (k + 1) * SectorPages = k * SectorPages + SectorPages
  BY <1>1, SMT
<1>5. (k + 1) * SectorPages <= l * SectorPages
  BY <1>1, <1>3, SMT
<1> QED
  BY <1>2, <1>4, <1>5 DEF Multiple

\* A sector is the pages from a multiple of its size on.
LEMMA SectorRange ==
  ASSUME NEW a \in Nat, Multiple(a), a + SectorPages <= PageCount
  PROVE  SectorOf(a) = a .. a + SectorPages - 1
<1>1. SectorPages \in Nat /\ SectorPages >= 1 /\ PageCount \in Nat
  BY FlashAssumption
<1>2. PICK k \in Nat : a = k * SectorPages
  BY DEF Multiple
<1>3. a \div SectorPages = k
  BY <1>1, <1>2, SMT
<1>4. ASSUME NEW q \in Nat
      PROVE  q \div SectorPages = k <=> q \in a .. a + SectorPages - 1
  <2>1. /\ q \div SectorPages \in Nat /\ q % SectorPages \in 0 .. SectorPages - 1
        /\ q = (q \div SectorPages) * SectorPages + (q % SectorPages)
    BY <1>1, SMT
  <2> DEFINE d == q \div SectorPages
  <2>2. d < k => (d + 1) * SectorPages <= k * SectorPages
    BY <1>1, <2>1, SMT
  <2>3. d > k => (k + 1) * SectorPages <= d * SectorPages
    BY <1>1, <2>1, SMT
  <2>4. /\ (d + 1) * SectorPages = d * SectorPages + SectorPages
        /\ (k + 1) * SectorPages = k * SectorPages + SectorPages
    BY <1>1, <2>1, SMT
  <2>5. d * SectorPages \in Int /\ k * SectorPages \in Int
    BY <1>1, <2>1
  <2> QED
    BY <1>1, <1>2, <2>1, <2>2, <2>3, <2>4, <2>5
<1>5. SectorOf(a) = {q \in Pages : q \div SectorPages = k}
  BY <1>3 DEF SectorOf
<1> QED
  BY <1>1, <1>4, <1>5 DEF Pages

LEMMA HalfOfMultiple ==
  ASSUME NEW n \in Nat, n % (2 * SectorPages) = 0
  PROVE  Multiple(n \div 2)
<1>1. SectorPages \in Nat /\ SectorPages >= 1
  BY FlashAssumption
<1> DEFINE k == n \div (2 * SectorPages)
<1>2. k \in Nat /\ n = k * (2 * SectorPages)
  BY <1>1, SMT
<1>3. n = 2 * (k * SectorPages) /\ k * SectorPages \in Nat
  BY <1>1, <1>2, SMT
<1>4. n \div 2 = k * SectorPages
  BY <1>3, SMT
<1> QED
  BY <1>2, <1>4 DEF Multiple

-------------------------------------------------------------------------------
(* One page or sector. *)

Units(page, reg) == IF reg.ser = 1 THEN SectorOf(page) ELSE {page}

\* A single operation selected in CR is refused and changes nothing, or is done.
LEMMA OneUnit ==
  ASSUME NEW page \in Pages, NEW reg,
         reg.pg + reg.per + reg.ser = 1, reg.eopie = TRUE,
         NEW o \in Outcomes(page, reg)
  PROVE  \/ /\ Units(page, reg) \cap protected # {} /\ o[1] = mem
            /\ Outcome(With(NoFlags, o[2])) = "Protected"
         \/ /\ Units(page, reg) \cap protected = {}
            /\ o[1] = IF reg.pg = 1 THEN Programmed(page) ELSE ErasedIn(Units(page, reg))
            /\ Outcome(With(NoFlags, o[2])) = "ok"
<1> DEFINE units == Units(page, reg)
           new == IF reg.pg = 1 THEN Programmed(page) ELSE ErasedIn(units)
<1>1. o \in IF units \cap protected # {} THEN {<<mem, Refuses>>} ELSE {<<new, Done(reg)>>}
  BY DEF Outcomes, Units
<1>2. Outcome(With(NoFlags, Refuses)) = "Protected"
  BY DEF Outcome, With, NoFlags, Refuses
<1>3. Outcome(With(NoFlags, Done(reg))) = "ok"
  BY DEF Outcome, With, NoFlags, Done
<1> HIDE DEF units, new
<1>4. CASE units \cap protected # {}
  <2>1. o = <<mem, Refuses>>
    BY <1>1, <1>4
  <2> QED
    BY <1>2, <1>4, <2>1 DEF units
<1>5. CASE units \cap protected = {}
  <2>1. o = <<new, Done(reg)>>
    BY <1>1, <1>5
  <2> QED
    BY <1>3, <1>5, <2>1 DEF units, new
<1> QED
  BY <1>4, <1>5

\* The flags are cleared before an operation is started, so an old one cannot end it.
LEMMA Cleared == clear_all_err(fsr) = NoFlags /\ ~NoFlags.wrperr
  BY DEF clear_all_err, NoFlags

\* What a loop's step does when its unit is the pages from the next one on, n of them.
LEMMA LoopStep ==
  ASSUME FlashInv, fresult = Running, clean, from < call.to,
         NEW n \in Nat \ {0}, from + n <= call.to,
         call.kind = "sectors" /\ from + n < call.to => Multiple(from + n),
         UNCHANGED <<protected, call, before, clean>>,
         \/ /\ mem' = mem /\ fresult' = "Protected" /\ from' = from
            /\ (from .. from + n - 1) \cap protected # {}
         \/ /\ mem' = [p \in Pages |-> IF p \in from .. from + n - 1 THEN Final(p) ELSE mem[p]]
            /\ fresult' = Running /\ from' = from + n
            /\ (from .. from + n - 1) \cap protected = {}
            /\ fcr'.per = 0 /\ fcr'.ser = 0,
         (FlashTypes /\ CleanControl)'
  PROVE  FlashInv'
<1> DEFINE unit == from .. from + n - 1
<1>1. /\ call.from \in Nat /\ call.to \in Nat /\ from \in Nat /\ PageCount \in Nat
      /\ call.from <= from /\ call.to <= PageCount
      /\ call.kind = "sectors" => Multiple(call.to)
      /\ \A p \in Pages : mem[p] = IF p \in call.from .. from - 1 THEN Final(p) ELSE before[p]
      /\ \A p \in call.from .. from - 1 : p \notin protected
  BY FlashAssumption DEF FlashInv, FlashTypes, LoopInv
<1>2. unit \subseteq call.from .. call.to - 1 /\ unit \subseteq Pages
  BY <1>1 DEF Pages
<1>3. \A p : Final(p)' = Final(p)
  BY DEF Final
<1>4. CASE mem' = mem /\ fresult' = "Protected" /\ from' = from /\ unit \cap protected # {}
  <2>1. LoopInv'
    BY <1>4 DEF LoopInv, Running
  <2>2. \A p \in Pages \ (call.from .. call.to - 1) : mem[p] = before[p]
    BY <1>1
  <2>3. (call.from .. call.to - 1) \cap protected # {}
    BY <1>2, <1>4
  <2>4. /\ (fcr.lock /\ fcr.pg = 0)'
        /\ call.kind = "write" => fcr'.per = 0 /\ fcr'.ser = 0
    BY DEF CleanControl, FindsClean
  <2>5. FlashContract'
    BY <1>4, <2>2, <2>3, <2>4 DEF FlashContract, Running
  <2> QED
    BY <2>1, <2>5 DEF FlashInv
<1>5. CASE /\ mem' = [p \in Pages |-> IF p \in unit THEN Final(p) ELSE mem[p]]
           /\ fresult' = Running /\ from' = from + n /\ unit \cap protected = {}
           /\ fcr'.per = 0 /\ fcr'.ser = 0
  <2>1. call.from .. from' - 1 = (call.from .. from - 1) \cup unit
    BY <1>1, <1>5
  <2>2. \A p \in Pages : mem'[p] = IF p \in call.from .. from' - 1 THEN Final(p) ELSE before[p]
    BY <1>1, <1>5, <2>1
  <2>3. \A p \in call.from .. from' - 1 : p \notin protected
    BY <1>1, <1>5, <2>1
  <2>4. LoopInv'
    BY <1>1, <1>3, <1>5, <2>2, <2>3 DEF LoopInv, Multiple
  <2> QED
    BY <1>5, <2>4 DEF FlashInv, FlashContract
<1> QED
  BY <1>4, <1>5

\* A loop that found an erase bit of another kind of call promises nothing of the pages.
LEMMA UncleanStep ==
  ASSUME FlashInv, ~clean,
         UNCHANGED <<protected, call, before, clean>>,
         mem' \in [Pages -> Contents], from' \in Nat,
         fcr' \in [lock : BOOLEAN, pg : {0, 1}, per : {0, 1}, ser : {0, 1}, eopie : BOOLEAN],
         fcr'.lock, fcr'.pg = 0,
         fresult' \in {Running, "Protected", "Prog"}
  PROVE  FlashInv'
<1>1. (FlashTypes /\ CleanControl /\ LoopInv)'
  BY DEF FlashInv, FlashTypes, CleanControl, LoopInv
<1>2. FlashContract'
  BY DEF FlashContract
<1> QED
  BY <1>1, <1>2 DEF FlashInv

\* Whatever is selected in CR, what an operation leaves is some contents of each page.
LEMMA OutcomeTypes ==
  ASSUME mem \in [Pages -> Contents], NEW page, NEW reg, NEW o \in Outcomes(page, reg)
  PROVE  o[1] \in [Pages -> Contents]
<1>1. /\ \A units : Spoilt(units) \in [Pages -> Contents]
      /\ \A units : ErasedIn(units) \in [Pages -> Contents]
      /\ Programmed(page) \in [Pages -> Contents]
  BY DEF Spoilt, ErasedIn, Programmed, Contents
<1>2. CASE reg.pg + reg.per + reg.ser # 1
  BY <1>1, <1>2 DEF Outcomes
<1>3. CASE reg.pg + reg.per + reg.ser = 1
  <2> DEFINE units == IF reg.ser = 1 THEN SectorOf(page) ELSE {page}
             new == IF reg.pg = 1 THEN Programmed(page) ELSE ErasedIn(units)
  <2>1. o \in IF units \cap protected # {} THEN {<<mem, Refuses>>} ELSE {<<new, Done(reg)>>}
    BY <1>3 DEF Outcomes
  <2>2. new \in [Pages -> Contents]
    BY <1>1
  <2> HIDE DEF new, units
  <2> QED
    BY <2>1, <2>2
<1> QED
  BY <1>2, <1>3

LEMMA OutcomeResults == \A sr : Outcome(sr) \in {"Protected", "Prog", "ok"}
  BY DEF Outcome

LEMMA WriteLoop == FlashInv /\ write_chunk => FlashInv'
<1> SUFFICES ASSUME FlashInv, write_chunk PROVE FlashInv'
  OBVIOUS
<1> DEFINE reg == [fcr EXCEPT !.lock = FALSE, !.pg = 1, !.eopie = TRUE]
<1>1. /\ fresult = Running /\ call.kind = "write" /\ from < call.to
      /\ from \in Nat /\ call.to \in Nat
      /\ mem \in [Pages -> Contents]
      /\ fcr \in [lock : BOOLEAN, pg : {0, 1}, per : {0, 1}, ser : {0, 1}, eopie : BOOLEAN]
  BY DEF write_chunk, FlashInv, FlashTypes
<1>2. /\ reg \in [lock : BOOLEAN, pg : {0, 1}, per : {0, 1}, ser : {0, 1}, eopie : BOOLEAN]
      /\ reg.pg = 1 /\ reg.per = fcr.per /\ reg.ser = fcr.ser /\ reg.eopie = TRUE
  BY <1>1
<1>3. PICK o \in Outcomes(from, reg) :
        /\ mem' = o[1]
        /\ Continue(Outcome(With(NoFlags, o[2])), from + 1)
  BY Cleared DEF write_chunk
<1> HIDE DEF reg
<1>4. fcr' = [reg EXCEPT !.pg = 0, !.lock = TRUE]
  BY DEF write_chunk, reg
<1>5. /\ fcr' \in [lock : BOOLEAN, pg : {0, 1}, per : {0, 1}, ser : {0, 1}, eopie : BOOLEAN]
      /\ fcr'.lock /\ fcr'.pg = 0 /\ fcr'.per = fcr.per /\ fcr'.ser = fcr.ser
  BY <1>2, <1>4
<1>6. UNCHANGED <<protected, call, before, clean>>
  BY <1>3 DEF Continue
<1>7. mem' \in [Pages -> Contents] /\ from' \in Nat
  BY <1>1, <1>3, OutcomeTypes DEF Continue
<1>8. CASE ~clean
  <2>1. fresult' \in {Running, "Protected", "Prog"}
    BY <1>3, OutcomeResults DEF Continue
  <2> QED
    BY <1>5, <1>6, <1>7, <1>8, <2>1, UncleanStep
<1>9. CASE clean
  <2>1. from \in Pages /\ mem[from] = before[from]
    BY <1>1, <1>9, FlashAssumption DEF FlashInv, LoopInv, Pages
  <2>2. fcr.per = 0 /\ fcr.ser = 0
    BY <1>1, <1>9 DEF FlashInv, CleanControl, FindsClean
  <2>3. Units(from, reg) = {from} /\ from .. from + 1 - 1 = {from}
    BY <1>1, <1>2, <2>2 DEF Units
  <2>4. reg.pg + reg.per + reg.ser = 1
    BY <1>2, <2>2
  <2>5. \/ /\ mem' = mem /\ fresult' = "Protected" /\ from' = from /\ {from} \cap protected # {}
        \/ /\ mem' = Programmed(from) /\ fresult' = Running /\ from' = from + 1
           /\ {from} \cap protected = {}
    <3>1. \/ /\ Units(from, reg) \cap protected # {} /\ o[1] = mem
             /\ Outcome(With(NoFlags, o[2])) = "Protected"
          \/ /\ Units(from, reg) \cap protected = {}
             /\ o[1] = Programmed(from)
             /\ Outcome(With(NoFlags, o[2])) = "ok"
      <4>1. \/ /\ Units(from, reg) \cap protected # {} /\ o[1] = mem
               /\ Outcome(With(NoFlags, o[2])) = "Protected"
            \/ /\ Units(from, reg) \cap protected = {}
               /\ o[1] = IF reg.pg = 1 THEN Programmed(from) ELSE ErasedIn(Units(from, reg))
               /\ Outcome(With(NoFlags, o[2])) = "ok"
        <5>1. from \in Pages /\ reg.eopie = TRUE /\ o \in Outcomes(from, reg)
          BY <1>2, <1>3, <2>1
        <5> QED
          BY <2>4, <5>1, OneUnit
      <4> QED
        BY <1>2, <4>1
    <3> QED
      BY <1>3, <2>3, <3>1 DEF Continue
  <2>6. Programmed(from) =
          [p \in Pages |-> IF p \in from .. from + 1 - 1 THEN Final(p) ELSE mem[p]]
    BY <1>1, <2>1, <2>3 DEF Programmed, Final
  <2>7. (FlashTypes /\ CleanControl)'
    BY <1>1, <1>5, <1>6, <1>7, <2>2 DEF FlashInv, FlashTypes, CleanControl, FindsClean
  <2>8. fcr'.per = 0 /\ fcr'.ser = 0
    BY <1>5, <2>2
  <2> QED
    BY <1>1, <1>6, <1>9, <2>3, <2>5, <2>6, <2>7, <2>8, LoopStep
<1> QED
  BY <1>8, <1>9

LEMMA EraseLoop == FlashInv /\ erase_unit => FlashInv'
<1> SUFFICES ASSUME FlashInv, erase_unit PROVE FlashInv'
  OBVIOUS
<1> DEFINE sector == call.kind = "sectors"
           n == IF sector THEN SectorPages ELSE 1
           reg == IF sector THEN [fcr EXCEPT !.lock = FALSE, !.ser = 1, !.eopie = TRUE]
                           ELSE [fcr EXCEPT !.lock = FALSE, !.per = 1, !.eopie = TRUE]
<1>1. /\ fresult = Running /\ call.kind \in {"pages", "sectors"} /\ from < call.to
      /\ from \in Nat /\ call.to \in Nat
      /\ PageCount \in Nat /\ SectorPages \in Nat \ {0}
      /\ mem \in [Pages -> Contents]
      /\ fcr \in [lock : BOOLEAN, pg : {0, 1}, per : {0, 1}, ser : {0, 1}, eopie : BOOLEAN] /\ fcr.pg = 0
  BY FlashAssumption DEF erase_unit, FlashInv, FlashTypes, CleanControl
<1>2. /\ reg \in [lock : BOOLEAN, pg : {0, 1}, per : {0, 1}, ser : {0, 1}, eopie : BOOLEAN]
      /\ reg.eopie = TRUE /\ reg.pg = 0
      /\ reg.ser = IF sector THEN 1 ELSE fcr.ser
      /\ reg.per = IF sector THEN fcr.per ELSE 1
  <2>1. CASE sector
    <3>1. reg = [fcr EXCEPT !.lock = FALSE, !.ser = 1, !.eopie = TRUE]
      BY <2>1
    <3> HIDE DEF reg
    <3> QED
      BY <1>1, <2>1, <3>1
  <2>2. CASE ~sector
    <3>1. reg = [fcr EXCEPT !.lock = FALSE, !.per = 1, !.eopie = TRUE]
      BY <2>2
    <3> HIDE DEF reg
    <3> QED
      BY <1>1, <2>2, <3>1
  <2> QED
    BY <2>1, <2>2
<1>3. PICK o \in Outcomes(from, reg) :
        LET result == Outcome(With(NoFlags, o[2])) IN
        /\ mem' = o[1]
        /\ fcr' = IF result # "ok" THEN [reg EXCEPT !.lock = TRUE]
                  ELSE IF sector THEN [reg EXCEPT !.lock = TRUE, !.ser = 0]
                                 ELSE [reg EXCEPT !.lock = TRUE, !.per = 0]
        /\ Continue(result, from + n)
  BY Cleared DEF erase_unit
<1>4. UNCHANGED <<protected, call, before, clean>>
  BY <1>3 DEF Continue
<1>5. n \in Nat \ {0}
  BY <1>1
<1> HIDE DEF reg, n
<1>6. mem' \in [Pages -> Contents] /\ from' \in Nat
  BY <1>1, <1>3, <1>5, OutcomeTypes DEF Continue
<1>7. /\ fcr' \in [lock : BOOLEAN, pg : {0, 1}, per : {0, 1}, ser : {0, 1}, eopie : BOOLEAN]
      /\ fcr'.lock /\ fcr'.pg = 0
      /\ sector => fcr'.per = fcr.per
      /\ ~sector => fcr'.ser = fcr.ser
  BY <1>1, <1>2, <1>3
<1>8. CASE ~clean
  <2>1. fresult' \in {Running, "Protected", "Prog"}
    BY <1>3, OutcomeResults DEF Continue
  <2> QED
    BY <1>4, <1>6, <1>7, <1>8, <2>1, UncleanStep
<1>9. CASE clean
  <2>1. /\ sector => fcr.per = 0
        /\ ~sector => fcr.ser = 0
    BY <1>1, <1>9 DEF FlashInv, CleanControl, FindsClean
  <2>2. reg.pg + reg.per + reg.ser = 1 /\ reg.ser = IF sector THEN 1 ELSE 0
    BY <1>2, <2>1
  <2>3. /\ from \in Pages /\ call.to <= PageCount
        /\ sector => Multiple(from) /\ Multiple(call.to)
    BY <1>1, <1>9 DEF FlashInv, LoopInv, Pages
  <2>4. /\ from + n <= call.to
        /\ sector => Multiple(from + n)
    BY <1>1, <2>3, NextMultiple DEF n
  <2>5. Units(from, reg) = from .. from + n - 1
    <3>1. CASE sector
      BY <1>1, <2>2, <2>3, <2>4, <3>1, SectorRange DEF Units, n
    <3>2. CASE ~sector
      <4>1. from .. from + 1 - 1 = {from}
        BY <1>1
      <4>2. Units(from, reg) = {from}
        BY <2>2, <3>2 DEF Units
      <4> QED
        BY <3>2, <4>1, <4>2 DEF n
    <3> QED
      BY <3>1, <3>2
  <2>6. \/ /\ mem' = mem /\ fresult' = "Protected" /\ from' = from
           /\ (from .. from + n - 1) \cap protected # {}
        \/ /\ mem' = ErasedIn(from .. from + n - 1) /\ fresult' = Running /\ from' = from + n
           /\ (from .. from + n - 1) \cap protected = {}
           /\ fcr' = IF sector THEN [reg EXCEPT !.lock = TRUE, !.ser = 0]
                               ELSE [reg EXCEPT !.lock = TRUE, !.per = 0]
    <3>1. \/ /\ Units(from, reg) \cap protected # {} /\ o[1] = mem
             /\ Outcome(With(NoFlags, o[2])) = "Protected"
          \/ /\ Units(from, reg) \cap protected = {}
             /\ o[1] = ErasedIn(Units(from, reg))
             /\ Outcome(With(NoFlags, o[2])) = "ok"
      <4>1. reg.pg # 1
        BY <1>2
      <4>2. \/ /\ Units(from, reg) \cap protected # {} /\ o[1] = mem
               /\ Outcome(With(NoFlags, o[2])) = "Protected"
            \/ /\ Units(from, reg) \cap protected = {}
               /\ o[1] = IF reg.pg = 1 THEN Programmed(from) ELSE ErasedIn(Units(from, reg))
               /\ Outcome(With(NoFlags, o[2])) = "ok"
        <5>1. from \in Pages /\ reg.eopie = TRUE /\ o \in Outcomes(from, reg)
          BY <1>2, <1>3, <2>3
        <5> QED
          BY <2>2, <5>1, OneUnit
      <4> QED
        BY <4>1, <4>2
    <3> QED
      BY <1>3, <2>5, <3>1 DEF Continue
  <2>7. ErasedIn(from .. from + n - 1) =
          [p \in Pages |-> IF p \in from .. from + n - 1 THEN Final(p) ELSE mem[p]]
    BY <1>1 DEF ErasedIn, Final
  <2>8. (FlashTypes /\ CleanControl)'
    BY <1>1, <1>4, <1>6, <1>7, <2>1 DEF FlashInv, FlashTypes, CleanControl, FindsClean
  <2>9. fresult' = Running => fcr'.per = 0 /\ fcr'.ser = 0
    BY <1>2, <2>1, <2>6 DEF Running
  <2> QED
    BY <1>1, <1>4, <1>5, <1>9, <2>3, <2>4, <2>6, <2>7, <2>8, <2>9, LoopStep
<1> QED
  BY <1>8, <1>9

-------------------------------------------------------------------------------
(* The calls. *)

\* A call that is refused, or that has nothing to do, promises nothing it did not find.
LEMMA Called ==
  ASSUME FlashInv, fresult # Running,
         UNCHANGED <<mem, protected, fcr, fsr>>, before' = mem,
         clean' = FindsClean(call'.kind),
         call' \in [kind : {"write", "pages", "sectors"}, from : Nat, to : Nat],
         from' = call'.from,
         fresult' \in {"Size", "Unaligned", Running},
         fresult' = Running =>
           /\ call'.from <= call'.to /\ call'.to <= PageCount
           /\ call'.kind = "sectors" /\ call'.from < call'.to =>
                Multiple(call'.from) /\ Multiple(call'.to)
  PROVE  FlashInv'
<1>1. FlashTypes'
  BY DEF FlashInv, FlashTypes, FindsClean
<1>2. CleanControl'
  BY DEF FlashInv, CleanControl, FindsClean
<1>3. (call.from .. from - 1)' = {}
  BY <1>1 DEF FlashTypes
<1>4. LoopInv'
  BY <1>1, <1>3 DEF LoopInv, FlashTypes, Multiple
<1>5. FlashContract'
  BY <1>1, <1>2 DEF FlashContract, FlashTypes, CleanControl, FindsClean, Running
<1> QED
  BY <1>1, <1>2, <1>4, <1>5 DEF FlashInv

LEMMA WriteCalled ==
  ASSUME FlashInv, NEW offset \in 0 .. 2 * PageCount, NEW len \in 0 .. 4,
         blocking_write(offset, len)
  PROVE  FlashInv'
<1>1. offset \div 2 \in Nat /\ (offset + len) \div 2 \in Nat
      /\ offset \div 2 <= (offset + len) \div 2
  BY FlashAssumption, SMT
<1>2. offset + len <= 2 * PageCount => (offset + len) \div 2 <= PageCount
  BY FlashAssumption, SMT
<1>3. /\ fresult # Running
      /\ call' = [kind |-> "write", from |-> offset \div 2, to |-> (offset + len) \div 2]
      /\ from' = offset \div 2 /\ before' = mem /\ clean' = FindsClean(call'.kind)
      /\ UNCHANGED <<mem, protected, fcr, fsr>>
      /\ fresult' \in {"Size", "Unaligned", Running}
      /\ fresult' = Running => offset + len <= 2 * PageCount
  BY FlashAssumption DEF blocking_write, Returns, Running
<1> QED
  BY <1>1, <1>2, <1>3, Called

LEMMA EraseCalled ==
  ASSUME FlashInv, NEW first \in 0 .. 2 * PageCount, NEW last \in 0 .. 2 * PageCount,
         blocking_erase(first, last)
  PROVE  FlashInv'
<1>1. /\ first \div 2 \in Nat /\ last \div 2 \in Nat /\ last \div 2 <= PageCount
      /\ first <= last => first \div 2 <= last \div 2
  BY FlashAssumption, SMT
<1>2. /\ fresult # Running
      /\ call' = [kind |-> IF Aligned(first, last, 2 * SectorPages) THEN "sectors" ELSE "pages",
                  from |-> first \div 2, to |-> last \div 2]
      /\ from' = first \div 2 /\ before' = mem /\ clean' = FindsClean(call'.kind)
      /\ UNCHANGED <<mem, protected, fcr, fsr>>
      /\ fresult' \in {"Unaligned", Running}
      /\ fresult' = Running => first <= last
  BY FlashAssumption DEF blocking_erase, Returns, Running, Aligned
<1>3. ASSUME Aligned(first, last, 2 * SectorPages), first \div 2 < last \div 2
      PROVE  Multiple(first \div 2) /\ Multiple(last \div 2)
  <2>1. first % (2 * SectorPages) = 0 /\ last % (2 * SectorPages) = 0
    BY <1>3, FlashAssumption DEF Aligned
  <2> QED
    BY <2>1, HalfOfMultiple, FlashAssumption
<1> QED
  BY <1>1, <1>2, <1>3, Called

LEMMA FlashReturns == FlashInv /\ flash_returns => FlashInv'
<1> SUFFICES ASSUME FlashInv, flash_returns PROVE FlashInv'
  OBVIOUS
<1>1. /\ fresult = Running /\ fresult' = "ok" /\ from >= call.to
      /\ UNCHANGED <<mem, protected, fcr, fsr, call, from, before, clean>>
  BY DEF flash_returns, Returns
<1>2. FlashTypes' /\ CleanControl' /\ LoopInv'
  BY <1>1 DEF FlashInv, FlashTypes, CleanControl, FindsClean, LoopInv, Running
<1>3. ASSUME clean
      PROVE  /\ \A p \in Pages : mem[p] = IF p \in call.from .. call.to - 1 THEN Final(p) ELSE before[p]
             /\ \A p \in call.from .. call.to - 1 : p \notin protected /\ p \in Pages
             /\ call.kind = "write" \/ call.from .. call.to - 1 # {} => fcr.per = 0 /\ fcr.ser = 0
  <2>1. /\ call.to = from /\ call.from \in Nat
        /\ call.to \in Nat /\ call.to <= PageCount
        /\ call.from < call.to => fcr.per = 0 /\ fcr.ser = 0
        /\ call.kind = "write" => fcr.per = 0 /\ fcr.ser = 0
    BY <1>1, <1>3 DEF FlashInv, FlashTypes, LoopInv, CleanControl, FindsClean
  <2>2. /\ \A p \in Pages : mem[p] = IF p \in call.from .. from - 1 THEN Final(p) ELSE before[p]
        /\ \A p \in call.from .. from - 1 : p \notin protected
    BY <1>1, <1>3 DEF FlashInv, LoopInv
  <2>3. call.from .. call.to - 1 \subseteq Pages
    BY <2>1, FlashAssumption DEF Pages
  <2>4. call.from .. call.to - 1 # {} => call.from < call.to
    BY <2>1
  <2> QED
    BY <2>1, <2>2, <2>3, <2>4
<1>4. FlashContract'
  BY <1>1, <1>2, <1>3 DEF FlashContract, CleanControl, Final, Running
<1> QED
  BY <1>2, <1>4 DEF FlashInv

LEMMA FlashInvInit == FlashInit => FlashInv
<1> SUFFICES ASSUME FlashInit PROVE FlashInv
  OBVIOUS
<1>0. protected \subseteq Pages
  BY DEF FlashInit, SectorOf
<1>1. FlashTypes /\ CleanControl /\ LoopInv
  BY <1>0 DEF FlashInit, FlashTypes, CleanControl, FindsClean, LoopInv, Contents, Running
<1>2. FlashContract
  BY DEF FlashInit, FlashContract, Running
<1> QED
  BY <1>1, <1>2 DEF FlashInv

LEMMA FlashInvStep == FlashInv /\ [FlashNext]_flashVars => FlashInv'
<1>1. FlashInv /\ UNCHANGED flashVars => FlashInv'
  BY DEF FlashInv, FlashTypes, CleanControl, FindsClean, LoopInv, FlashContract, Final,
         Multiple, flashVars
<1> QED
  BY <1>1, WriteLoop, EraseLoop, WriteCalled, EraseCalled, FlashReturns DEF FlashNext

-------------------------------------------------------------------------------
(* The clock tree.                                                         *)

\* What the board gives to the HSE pins is no faster than the flash of the smallest
\* chip: there init neither checks the frequency nor stops at a faster one.
HseWithinFlash == \A f \in HseFreqs : f <= 48 * MHz

BeforeSwitch ==
  {"hsi_on", "hsi_ready", "to_hsi", "on_hsi", "hse", "hse_ready", "pll", "pll_on", "pll_ready",
   "latency", "prescalers", "switch", "panic"}

AfterSwitch == {"switched", "freeze", "done"}
Prescaled == {"switch"} \cup AfterSwitch
Waited == {"prescalers"} \cup Prescaled
PllChosen == {"latency"} \cup Waited
HseChosen == {"pll", "pll_on", "pll_ready"} \cup PllChosen
Divided == {"hse", "hse_ready"} \cup HseChosen

Registers ==
  [hsion : BOOLEAN, hsi : 1 .. 24 * MHz, hsidiv : Nat \ {0}, hseon : BOOLEAN, pllon : BOOLEAN,
   pllsrc : {"HSI", "HSE"}, pllmul : {2, 3}, sw : {"HSI", "HSE", "PLL"},
   hpre : Nat \ {0}, ppre : Nat \ {0}, latency : {0, 1, 2}]

ClockTypes ==
  /\ chip \in {"f002b", "f030", "f072"}
  /\ config \in Config(chip)
  /\ creg \in Registers
  /\ step \in BeforeSwitch \cup AfterSwitch
  /\ sws \in {"HSI", "HSE", "PLL"}

\* The system runs from HSI until init switches, and from what was asked for after it
\* waited for the switch.
SwitchInv ==
  /\ sws \in {"HSI", creg.sw}
  /\ creg.sw = IF step \in AfterSwitch THEN config.sys ELSE "HSI"
  /\ step \in {"freeze", "done"} => sws = config.sys

\* No oscillator is stopped once it may be in use.
SourceInv ==
  /\ step \in {"freeze", "done"} => config.hsi # None \/ config.sys # "HSI"
  /\ step \notin {"freeze", "done"} \/ config.hsi # None => creg.hsion /\ "HSI" \in ready
  /\ "HSI" \in ready => creg.hsion
  /\ "HSE" \in ready => creg.hseon
  /\ "PLL" \in ready => creg.pllon /\ creg.pllsrc \in ready
  /\ step \notin {"pll_ready", "panic"} \cup PllChosen \/ config.pll = "none" => ~creg.pllon
  /\ sws \in ready

\* What each register holds once init wrote it.
WrittenInv ==
  /\ step # "hsi_on" /\ config.hsi # None => creg.hsi = config.hsi
  /\ step \in Divided => creg.hsidiv = config.hsidiv
  /\ step \in HseChosen /\ config.hse # None => creg.hseon /\ (chip = "f002b" \/ HseInRange)
  /\ step = "hse_ready" => HseInRange
  /\ step \in {"pll_on", "pll_ready"} => config.pll # "none"
  /\ step \in {"pll_on", "pll_ready"} \cup PllChosen /\ config.pll # "none" =>
       PllIn \in 16 * MHz .. 24 * MHz
  /\ step \in {"pll_ready"} \cup PllChosen /\ config.pll # "none" =>
       creg.pllon /\ creg.pllsrc = config.pll /\ creg.pllmul = config.mul
  /\ step \in PllChosen /\ config.pll # "none" => "PLL" \in ready
  /\ step \in Waited => creg.latency = latency /\ sys # None
  /\ step \in Prescaled => creg.hpre = config.ahb_pre /\ creg.ppre = config.apb1_pre
  /\ step = "done" =>
       LET apb == calc_pclk(hclk1, config.apb1_pre) IN
       freqs = [hclk1 |-> hclk1, pclk1 |-> apb.pclk, pclk1_tim |-> apb.pclk_tim,
                sys |-> sys, hsi |-> config.hsi, pll |-> pll, lse |-> None]

ClockInv == ClockTypes /\ SwitchInv /\ SourceInv /\ WrittenInv

LEMMA Quotient ==
  ASSUME NEW a \in Nat, NEW b \in Nat \ {0}
  PROVE  /\ a \div b \in Nat /\ a \div b <= a
         /\ b = 1 => a \div b = a
         /\ b # 1 /\ a # 0 => a \div b # a
<1> DEFINE q == a \div b
<1>1. q \in Nat /\ q * b <= a
  BY SMT
<1>2. q * b >= q /\ (b # 1 /\ q # 0 => q * b > q)
  <2> HIDE DEF q
  <2> QED
    BY <1>1, SMT
<1>3. b = 1 => q = a
  BY SMT
<1>4. q <= a /\ (b # 1 /\ a # 0 => q # a)
  <2> DEFINE p == q * b
  <2>1. p \in Nat /\ q \in Nat /\ p <= a /\ p >= q /\ (b # 1 /\ q # 0 => p > q)
    BY <1>1, <1>2, SMT
  <2> HIDE DEF p, q
  <2> QED
    BY <2>1
<1> QED
  BY <1>1, <1>3, <1>4 DEF q

LEMMA MHzPositive == MHz \in Nat /\ MHz > 0 /\ 22120000 \in Nat /\ 22120000 <= 24 * MHz
  BY DEF MHz

LEMMA HsiIsLow == \A c : HsiFreqs(c) \subseteq 1 .. 24 * MHz /\ HsiAtReset(c) \in 1 .. 24 * MHz
  BY MHzPositive DEF HsiFreqs, HsiAtReset

ConfigFacts ==
  /\ config.hsi \in 0 .. 24 * MHz /\ config.hsidiv \in Nat \ {0}
  /\ config.hse \in Nat /\ (config.hse # None => config.hse \in HseFreqs)
  /\ config.bypass \in BOOLEAN /\ config.sys \in {"HSI", "HSE", "PLL"}
  /\ config.pll \in {"none", "HSI", "HSE"} /\ config.mul \in {2, 3}
  /\ chip = "f030" => config.mul = 2
  /\ chip = "f002b" => config.sys # "PLL" /\ config.pll = "none"
  /\ config.ahb_pre \in Nat \ {0} /\ config.apb1_pre \in Nat \ {0}

LEMMA ConfigTypes == ASSUME ClockTypes PROVE ConfigFacts
<1>1. /\ chip \in {"f002b", "f030", "f072"}
      /\ config.hsi \in HsiFreqs(chip) \cup {None} /\ config.hsidiv \in HsiDivs
      /\ config.hse \in HseFreqs \cup {None} /\ config.bypass \in BOOLEAN
      /\ config.sys \in {"HSI", "HSE"} \cup (IF chip = "f002b" THEN {} ELSE {"PLL"})
      /\ config.pll \in {"none"} \cup (IF chip = "f002b" THEN {} ELSE {"HSI", "HSE"})
      /\ config.mul \in PllMul(chip) /\ config.ahb_pre \in Prescalers
      /\ config.apb1_pre \in Prescalers
  BY DEF ClockTypes, Config
<1>2. config.hsi \in 0 .. 24 * MHz
  BY <1>1, HsiIsLow, MHzPositive DEF None
<1>3. config.hse \in Nat /\ (config.hse # None => config.hse \in HseFreqs)
  <2>1. HseFreqs \subseteq Nat /\ None \in Nat
    BY ClockTreeAssumption DEF None
  <2> QED
    BY <1>1, <2>1
<1>4. /\ config.hsidiv \in Nat \ {0}
      /\ config.ahb_pre \in Nat \ {0} /\ config.apb1_pre \in Nat \ {0}
  BY <1>1, ClockTreeAssumption
<1> QED
  <2>1. config.sys \in {"HSI", "HSE", "PLL"} /\ config.pll \in {"none", "HSI", "HSE"}
    BY <1>1
  <2>2. chip = "f002b" => config.sys # "PLL" /\ config.pll = "none"
    BY <1>1
  <2>3. config.mul \in {2, 3} /\ (chip = "f030" => config.mul = 2)
    BY <1>1 DEF PllMul
  <2> QED
    BY <1>1, <1>2, <1>3, <1>4, <2>1, <2>2, <2>3 DEF ConfigFacts

LEMMA ClockInvInit ==
  ASSUME NEW c \in {"f002b", "f030", "f072"}, NEW asked \in Config(c), ClockInitWith(c, asked)
  PROVE  ClockInv
<1> USE DEF ClockInitWith
<1>1. ClockTypes
  BY ClockTreeAssumption, HsiIsLow DEF ClockTypes, Registers, BeforeSwitch
<1>2. SwitchInv /\ SourceInv
  BY DEF SwitchInv, SourceInv, BeforeSwitch, AfterSwitch, PllChosen, Waited, Prescaled
<1>3. WrittenInv
  BY DEF WrittenInv, Divided, HseChosen, PllChosen, Waited, Prescaled, AfterSwitch
<1> QED
  BY <1>1, <1>2, <1>3 DEF ClockInv

LEMMA RegisterWrites ==
  ASSUME creg \in Registers, ConfigFacts
  PROVE  /\ \A on \in BOOLEAN : [creg EXCEPT !.hsion = on] \in Registers
         /\ [creg EXCEPT !.hsion = TRUE, !.hsi = IF config.hsi = None THEN @ ELSE config.hsi]
              \in Registers
         /\ [creg EXCEPT !.hsidiv = config.hsidiv] \in Registers
         /\ \A on \in BOOLEAN : [creg EXCEPT !.hseon = on] \in Registers
         /\ [creg EXCEPT !.pllon = FALSE] \in Registers
         /\ config.pll # "none" =>
              [creg EXCEPT !.pllsrc = config.pll, !.pllmul = config.mul, !.pllon = TRUE]
                \in Registers
         /\ [creg EXCEPT !.latency = latency] \in Registers
         /\ [creg EXCEPT !.hpre = config.ahb_pre, !.ppre = config.apb1_pre] \in Registers
         /\ \A s \in {"HSI", "HSE", "PLL"} : [creg EXCEPT !.sw = s] \in Registers
<1>1. latency \in {0, 1, 2}
  BY DEF latency
<1>2. (IF config.hsi = None THEN creg.hsi ELSE config.hsi) \in 1 .. 24 * MHz
  BY MHzPositive DEF Registers, ConfigFacts, None
<1> HIDE DEF latency
<1>3. \A on \in BOOLEAN :
        [creg EXCEPT !.hsion = on] \in Registers /\ [creg EXCEPT !.hseon = on] \in Registers
  BY DEF Registers
<1>4. [creg EXCEPT !.hsion = TRUE, !.hsi = IF config.hsi = None THEN @ ELSE config.hsi]
        \in Registers
  BY <1>2 DEF Registers
<1>5. [creg EXCEPT !.hsidiv = config.hsidiv] \in Registers
  BY DEF Registers, ConfigFacts
<1>6. [creg EXCEPT !.pllon = FALSE] \in Registers
  BY DEF Registers
<1>7. config.pll # "none" =>
        [creg EXCEPT !.pllsrc = config.pll, !.pllmul = config.mul, !.pllon = TRUE] \in Registers
  BY DEF Registers, ConfigFacts
<1>8. [creg EXCEPT !.latency = latency] \in Registers
  BY <1>1 DEF Registers
<1>9. [creg EXCEPT !.hpre = config.ahb_pre, !.ppre = config.apb1_pre] \in Registers
  BY DEF Registers, ConfigFacts
<1>10. \A s \in {"HSI", "HSE", "PLL"} : [creg EXCEPT !.sw = s] \in Registers
  BY DEF Registers
<1> QED
  BY <1>3, <1>4, <1>5, <1>6, <1>7, <1>8, <1>9, <1>10

LEMMA SameConfig == ASSUME ClockNext PROVE chip' = chip /\ config' = config
  BY DEF ClockNext, Stabilises, Switches,
         hsi_on, hsi_ready, to_hsi, on_hsi, hse_off, hse_on, hse_ready, pll_off, pll_on, pll_ready, no_pll, set_latency, set_prescalers, set_sw, hsi_off, set_freqs, Writes,
         NoWrite, panics

LEMMA ClockKeepsTypes ==
  ASSUME ClockInv, ConfigFacts, ClockNext PROVE ClockTypes'
<1> USE DEF ClockTypes
<1>1. creg \in Registers
  BY DEF ClockInv
<1>2. chip' = chip /\ config' = config
  BY SameConfig
<1>3. sws' \in {"HSI", "HSE", "PLL"}
  BY <1>1 DEF ClockNext, Stabilises, Switches, hsi_on, hsi_ready, to_hsi, on_hsi, hse_off, hse_on, hse_ready, pll_off, pll_on, pll_ready, no_pll, set_latency, set_prescalers, set_sw, hsi_off, set_freqs, Writes, NoWrite, panics, ClockInv, Registers
<1>4. step' \in BeforeSwitch \cup AfterSwitch
  BY DEF ClockNext, Stabilises, Switches, hsi_on, hsi_ready, to_hsi, on_hsi, hse_off, hse_on, hse_ready, pll_off, pll_on, pll_ready, no_pll, set_latency, set_prescalers, set_sw, hsi_off, set_freqs, Writes, NoWrite, panics, ClockInv, BeforeSwitch, AfterSwitch
<1>5. creg' \in Registers
  <2> USE DEF Writes, NoWrite, panics
  <2>1. CASE \E s \in {"HSI", "HSE", "PLL"} : Stabilises(s)
    BY <1>1, <2>1 DEF Stabilises
  <2>2. CASE Switches \/ hsi_ready \/ hse_ready \/ pll_ready \/ no_pll \/ set_freqs
    BY <1>1, <2>2 DEF Switches, hsi_ready, hse_ready, pll_ready, no_pll, set_freqs
  <2>3. CASE hsi_on
    BY <1>1, <2>3, RegisterWrites DEF hsi_on
  <2>4. CASE to_hsi
    BY <1>1, <2>4, RegisterWrites DEF to_hsi
  <2>5. CASE on_hsi
    BY <1>1, <2>5, RegisterWrites DEF on_hsi
  <2>6. CASE hse_off
    BY <1>1, <2>6, RegisterWrites DEF hse_off
  <2>7. CASE hse_on
    BY <1>1, <2>7, RegisterWrites DEF hse_on
  <2>8. CASE pll_off
    BY <1>1, <2>8, RegisterWrites DEF pll_off
  <2>9. CASE pll_on
    BY <1>1, <2>9, RegisterWrites DEF pll_on, ClockInv, WrittenInv
  <2>10. CASE set_latency
    BY <1>1, <2>10, RegisterWrites DEF set_latency
  <2>11. CASE set_prescalers
    BY <1>1, <2>11, RegisterWrites DEF set_prescalers
  <2>12. CASE set_sw
    BY <1>1, <2>12, RegisterWrites DEF set_sw, ConfigFacts
  <2>13. CASE hsi_off
    BY <1>1, <2>13, RegisterWrites DEF hsi_off
  <2> QED
    BY <2>1, <2>2, <2>3, <2>4, <2>5, <2>6, <2>7, <2>8, <2>9, <2>10, <2>11, <2>12, <2>13 DEF ClockNext
<1> QED
  BY <1>2, <1>3, <1>4, <1>5 DEF ClockInv

LEMMA PanicKeeps ==
  ASSUME ClockInv, panics, step \in {"hse", "pll", "latency"}
  PROVE  SwitchInv' /\ SourceInv' /\ WrittenInv'
<1> USE DEF ClockInv, panics, NoWrite
<1>1. SwitchInv'
  BY DEF SwitchInv, AfterSwitch
<1>2. SourceInv'
  BY DEF SourceInv, PllChosen, Waited, Prescaled, AfterSwitch
<1>3. WrittenInv'
  BY DEF WrittenInv, Divided, HseChosen, PllChosen, Waited, Prescaled, AfterSwitch
<1> QED
  BY <1>1, <1>2, <1>3

\* What the steps that may panic do where they do not.
LEMMA HseOn ==
  ASSUME ClockTypes, hse_on, ~panics
  PROVE  /\ step = "hse" /\ config.hse # None /\ (chip = "f002b" \/ HseInRange)
         /\ creg' = [creg EXCEPT !.hseon = TRUE] /\ ready' = ready
         /\ UNCHANGED <<chip, config, sws, freqs>>
         /\ step' = IF chip = "f002b" THEN "pll" ELSE "hse_ready"
  BY DEF hse_on, Writes

LEMMA PllOff ==
  ASSUME ClockTypes, pll_off, ~panics
  PROVE  /\ step = "pll" /\ config.pll # "none" /\ PllIn # None
         /\ PllIn \in 16 * MHz .. 24 * MHz
         /\ creg' = [creg EXCEPT !.pllon = FALSE] /\ ready' = ready \ {"PLL"}
         /\ UNCHANGED <<chip, config, sws, freqs>>
         /\ step' = "pll_on"
  BY DEF pll_off

LEMMA LatencySet ==
  ASSUME ClockTypes, set_latency, ~panics
  PROVE  /\ step = "latency" /\ sys # None
         /\ creg' = [creg EXCEPT !.latency = latency] /\ ready' = ready
         /\ UNCHANGED <<chip, config, sws, freqs>>
         /\ step' = "prescalers"
  BY DEF set_latency, Writes

LEMMA ClockKeepsSwitch ==
  ASSUME ClockInv, ConfigFacts, ClockNext PROVE SwitchInv'
<1> USE DEF ClockInv, SwitchInv, BeforeSwitch, AfterSwitch
<1>1. ASSUME NEW s \in {"HSI", "HSE", "PLL"}, Stabilises(s) PROVE SwitchInv'
  BY <1>1 DEF Stabilises, IsOn
<1>2. CASE Switches
  BY <1>2 DEF Switches
<1>3. CASE hsi_on
  BY <1>3 DEF hsi_on, Writes, NoWrite, ClockTypes, Registers
<1>4. CASE hsi_ready
  BY <1>4 DEF hsi_ready, Writes, NoWrite, ClockTypes, Registers
<1>5. CASE to_hsi
  BY <1>5 DEF to_hsi, Writes, NoWrite, ClockTypes, Registers
<1>6. CASE on_hsi
  BY <1>6 DEF on_hsi, Writes, NoWrite, ClockTypes, Registers
<1>7. CASE hse_off
  BY <1>7 DEF hse_off, Writes, NoWrite, ClockTypes, Registers
<1>8. CASE hse_on
  <2>1. CASE panics
    BY <1>8, <2>1, PanicKeeps DEF hse_on
  <2>2. CASE ~panics
    BY <1>8, <2>2, HseOn DEF ClockTypes, Registers
  <2> QED
    BY <2>1, <2>2
<1>9. CASE hse_ready
  BY <1>9 DEF hse_ready, Writes, NoWrite, ClockTypes, Registers
<1>10. CASE pll_off
  <2>1. CASE panics
    BY <1>10, <2>1, PanicKeeps DEF pll_off
  <2>2. CASE ~panics
    BY <1>10, <2>2, PllOff DEF ClockTypes, Registers
  <2> QED
    BY <2>1, <2>2
<1>11. CASE pll_on
  BY <1>11 DEF pll_on, Writes, NoWrite, ClockTypes, Registers
<1>12. CASE pll_ready
  BY <1>12 DEF pll_ready, Writes, NoWrite, ClockTypes, Registers
<1>13. CASE no_pll
  BY <1>13 DEF no_pll, Writes, NoWrite, ClockTypes, Registers
<1>14. CASE set_latency
  <2>1. CASE panics
    BY <1>14, <2>1, PanicKeeps DEF set_latency
  <2>2. CASE ~panics
    BY <1>14, <2>2, LatencySet DEF ClockTypes, Registers
  <2> QED
    BY <2>1, <2>2
<1>15. CASE set_prescalers
  BY <1>15 DEF set_prescalers, Writes, NoWrite, ClockTypes, Registers
<1>16. CASE set_sw
  BY <1>16 DEF set_sw, Writes, NoWrite, ClockTypes, Registers
<1>17. CASE hsi_off
  <2>1. CASE config.hsi = None
    BY <1>17, <2>1 DEF hsi_off, ClockTypes, Registers
  <2>2. CASE config.hsi # None
    BY <1>17, <2>2 DEF hsi_off, NoWrite
  <2> QED
    BY <2>1, <2>2
<1>18. CASE set_freqs
  BY <1>18 DEF set_freqs, Writes, NoWrite, ClockTypes, Registers
<1> QED
  BY <1>1, <1>2, <1>3, <1>4, <1>5, <1>6, <1>7, <1>8, <1>9, <1>10, <1>11, <1>12, <1>13, <1>14, <1>15, <1>16, <1>17, <1>18 DEF ClockNext

LEMMA ClockKeepsSource ==
  ASSUME ClockInv, ConfigFacts, ClockNext PROVE SourceInv'
<1> USE DEF ClockInv, SourceInv, SwitchInv, PllChosen, Waited, Prescaled, AfterSwitch, BeforeSwitch
<1>1. ASSUME NEW s \in {"HSI", "HSE", "PLL"}, Stabilises(s) PROVE SourceInv'
  BY <1>1 DEF Stabilises, IsOn
<1>2. CASE Switches
  BY <1>2 DEF Switches
<1>3. CASE hsi_on
  BY <1>3 DEF hsi_on, Writes, NoWrite, ClockTypes, Registers
<1>4. CASE hsi_ready
  BY <1>4 DEF hsi_ready, Writes, NoWrite, ClockTypes, Registers
<1>5. CASE to_hsi
  BY <1>5 DEF to_hsi, Writes, NoWrite, ClockTypes, Registers
<1>6. CASE on_hsi
  BY <1>6 DEF on_hsi, Writes, NoWrite, ClockTypes, Registers
<1>7. CASE hse_off
  BY <1>7 DEF hse_off, Writes, NoWrite, ClockTypes, Registers
<1>8. CASE hse_on
  <2>1. CASE panics
    BY <1>8, <2>1, PanicKeeps DEF hse_on
  <2>2. CASE ~panics
    BY <1>8, <2>2, HseOn DEF ClockTypes, Registers
  <2> QED
    BY <2>1, <2>2
<1>9. CASE hse_ready
  BY <1>9 DEF hse_ready, Writes, NoWrite, ClockTypes, Registers
<1>10. CASE pll_off
  <2>1. CASE panics
    BY <1>10, <2>1, PanicKeeps DEF pll_off
  <2>2. CASE ~panics
    BY <1>10, <2>2, PllOff DEF ClockTypes, Registers
  <2> QED
    BY <2>1, <2>2
<1>11. CASE pll_on
  <2>1. config.pll # "none"
    BY <1>11 DEF pll_on, WrittenInv
  <2> QED
    BY <1>11, <2>1 DEF pll_on, Writes, ClockTypes, Registers
<1>12. CASE pll_ready
  BY <1>12 DEF pll_ready, Writes, NoWrite, ClockTypes, Registers
<1>13. CASE no_pll
  BY <1>13 DEF no_pll, Writes, NoWrite, ClockTypes, Registers
<1>14. CASE set_latency
  <2>1. CASE panics
    BY <1>14, <2>1, PanicKeeps DEF set_latency
  <2>2. CASE ~panics
    BY <1>14, <2>2, LatencySet DEF ClockTypes, Registers
  <2> QED
    BY <2>1, <2>2
<1>15. CASE set_prescalers
  BY <1>15 DEF set_prescalers, Writes, NoWrite, ClockTypes, Registers
<1>16. CASE set_sw
  BY <1>16 DEF set_sw, Writes, NoWrite, ClockTypes, Registers
<1>17. CASE hsi_off
  <2>1. CASE config.hsi = None
    <3>1. step = "switched" /\ sys # None
      BY <1>17 DEF hsi_off, WrittenInv, Waited, Prescaled, AfterSwitch
    <3>2. 0 \div 1 = 0 /\ 0 \div 2 = 0
      OBVIOUS
    <3>3. config.sys # "HSI"
      BY <2>1, <3>1, <3>2 DEF sys, ConfigFacts, None
    <3>4. config.pll # "HSI"
      <4>1. ASSUME config.pll = "HSI" PROVE 0 \in 16 * MHz .. 24 * MHz
        BY <2>1, <3>1, <4>1 DEF WrittenInv, PllIn, PllChosen, Waited, Prescaled, AfterSwitch, None
      <4> QED
        BY <4>1, MHzPositive
    <3>5. "PLL" \in ready => creg.pllsrc = "HSE" /\ creg.pllon
      BY <3>1, <3>4 DEF WrittenInv, ClockTypes, Registers, ConfigFacts
    <3> QED
      BY <1>17, <2>1, <3>1, <3>3, <3>5 DEF hsi_off, ClockTypes, Registers
  <2>2. CASE config.hsi # None
    BY <1>17, <2>2 DEF hsi_off, NoWrite
  <2> QED
    BY <2>1, <2>2
<1>18. CASE set_freqs
  BY <1>18 DEF set_freqs, Writes, NoWrite, ClockTypes, Registers
<1> QED
  BY <1>1, <1>2, <1>3, <1>4, <1>5, <1>6, <1>7, <1>8, <1>9, <1>10, <1>11, <1>12, <1>13, <1>14, <1>15, <1>16, <1>17, <1>18 DEF ClockNext

\* What init computes depends on the configuration alone, which does not change.
LEMMA SameResults ==
  ASSUME chip' = chip, config' = config
  PROVE  /\ PllIn' = PllIn /\ (HseInRange' <=> HseInRange) /\ sys' = sys /\ pll' = pll
         /\ hclk1' = hclk1 /\ latency' = latency
         /\ calc_pclk(hclk1, config.apb1_pre)' = calc_pclk(hclk1, config.apb1_pre)
  BY DEF PllIn, HseInRange, sys, pll, hclk1, latency, calc_pclk

LEMMA ClockKeepsWritten ==
  ASSUME ClockInv, ConfigFacts, ClockNext PROVE WrittenInv'
<1> USE SameConfig, SameResults DEF ClockInv, WrittenInv, Divided, HseChosen, PllChosen, Waited, Prescaled, AfterSwitch, BeforeSwitch
<1>1. ASSUME NEW s \in {"HSI", "HSE", "PLL"}, Stabilises(s) PROVE WrittenInv'
  BY <1>1 DEF Stabilises
<1>2. CASE Switches
  BY <1>2 DEF Switches
<1>3. CASE hsi_on
  BY <1>3 DEF hsi_on, Writes, NoWrite, ClockTypes, Registers
<1>4. CASE hsi_ready
  BY <1>4 DEF hsi_ready, Writes, NoWrite, ClockTypes, Registers
<1>5. CASE to_hsi
  BY <1>5 DEF to_hsi, Writes, NoWrite, ClockTypes, Registers
<1>6. CASE on_hsi
  BY <1>6 DEF on_hsi, Writes, NoWrite, ClockTypes, Registers
<1>7. CASE hse_off
  BY <1>7 DEF hse_off, Writes, NoWrite, ClockTypes, Registers
<1>8. CASE hse_on
  <2>1. CASE panics
    BY <1>8, <2>1, PanicKeeps DEF hse_on
  <2>2. CASE ~panics
    BY <1>8, <2>2, HseOn DEF ClockTypes, Registers
  <2> QED
    BY <2>1, <2>2
<1>9. CASE hse_ready
  BY <1>9 DEF hse_ready, NoWrite, ClockTypes, Registers, SourceInv
<1>10. CASE pll_off
  <2>1. CASE panics
    BY <1>10, <2>1, PanicKeeps DEF pll_off
  <2>2. CASE ~panics
    BY <1>10, <2>2, PllOff DEF ClockTypes, Registers
  <2> QED
    BY <2>1, <2>2
<1>11. CASE pll_on
  BY <1>11 DEF pll_on, Writes, NoWrite, ClockTypes, Registers
<1>12. CASE pll_ready
  BY <1>12 DEF pll_ready, Writes, NoWrite, ClockTypes, Registers
<1>13. CASE no_pll
  BY <1>13 DEF no_pll, Writes, NoWrite, ClockTypes, Registers
<1>14. CASE set_latency
  <2>1. CASE panics
    BY <1>14, <2>1, PanicKeeps DEF set_latency
  <2>2. CASE ~panics
    BY <1>14, <2>2, LatencySet DEF ClockTypes, Registers
  <2> QED
    BY <2>1, <2>2
<1>15. CASE set_prescalers
  BY <1>15 DEF set_prescalers, Writes, NoWrite, ClockTypes, Registers
<1>16. CASE set_sw
  BY <1>16 DEF set_sw, Writes, NoWrite, ClockTypes, Registers
<1>17. CASE hsi_off
  <2>1. CASE config.hsi = None
    BY <1>17, <2>1 DEF hsi_off, ClockTypes, Registers
  <2>2. CASE config.hsi # None
    BY <1>17, <2>2 DEF hsi_off, NoWrite
  <2> QED
    BY <2>1, <2>2
<1>18. CASE set_freqs
  BY <1>18 DEF set_freqs, Writes, NoWrite, ClockTypes, Registers
<1> QED
  BY <1>1, <1>2, <1>3, <1>4, <1>5, <1>6, <1>7, <1>8, <1>9, <1>10, <1>11, <1>12, <1>13, <1>14, <1>15, <1>16, <1>17, <1>18 DEF ClockNext

LEMMA ClockInvStep == ClockInv /\ [ClockNext]_clockVars => ClockInv'
<1> SUFFICES ASSUME ClockInv, [ClockNext]_clockVars PROVE ClockInv'
  OBVIOUS
<1>1. CASE ClockNext
  BY <1>1, ConfigTypes, ClockKeepsTypes, ClockKeepsSwitch, ClockKeepsSource, ClockKeepsWritten
  DEF ClockInv
<1>2. CASE UNCHANGED clockVars
  <2>1. ClockTypes' /\ SwitchInv' /\ SourceInv'
    BY <1>2 DEF ClockInv, ClockTypes, SwitchInv, SourceInv, clockVars
  <2>2. WrittenInv'
    BY <1>2, SameResults DEF ClockInv, WrittenInv, clockVars
  <2> QED
    BY <2>1, <2>2 DEF ClockInv
<1> QED
  BY <1>1, <1>2

\* What the system runs from, and how fast, where it is not HSI before the switch.
LEMMA SystemClock ==
  ASSUME ClockInv, ConfigFacts
  PROVE  /\ creg.hsi \div creg.hsidiv \in 0 .. 24 * MHz
         /\ sws # "HSI" \/ step \in {"freeze", "done"} => ActualSys = sys /\ step \in AfterSwitch
         /\ step \in {"freeze", "done"} => OutputOf(config.sys) = sys
<1>1. creg.hsi \in Nat /\ creg.hsi <= 24 * MHz /\ creg.hsidiv \in Nat \ {0}
  BY MHzPositive DEF ClockInv, ClockTypes, Registers
<1>2. creg.hsi \div creg.hsidiv \in 0 .. 24 * MHz
  BY <1>1, Quotient, MHzPositive
<1>3. ASSUME step \in AfterSwitch, sws = config.sys PROVE ActualSys = sys
  <2>1. sys # None
    BY <1>3 DEF ClockInv, WrittenInv, Waited, Prescaled
  <2>2. CASE config.sys = "HSI"
    <3>1. config.hsi # None
      <4>1. 0 \div 1 = 0 /\ 0 \div 2 = 0
        OBVIOUS
      <4> QED
        BY <2>1, <2>2, <4>1 DEF sys, ConfigFacts, None
    <3>2. creg.hsi = config.hsi /\ creg.hsidiv = config.hsidiv
      BY <1>3, <3>1 DEF ClockInv, WrittenInv, Divided, HseChosen, PllChosen, Waited, Prescaled, AfterSwitch
    <3> QED
      BY <1>3, <2>2, <3>2 DEF ActualSys, OutputOf, sys
  <2>3. CASE config.sys = "HSE"
    BY <1>3, <2>3 DEF ActualSys, OutputOf, sys
  <2>4. CASE config.sys = "PLL"
    <3>1. config.pll # "none"
      BY <2>1, <2>4 DEF sys, pll
    <3>2. creg.pllsrc = config.pll /\ creg.pllmul = config.mul /\ PllIn \in 16 * MHz .. 24 * MHz
      BY <1>3, <3>1 DEF ClockInv, WrittenInv, PllChosen, Waited, Prescaled, AfterSwitch
    <3>3. config.pll = "HSI" => creg.hsi = config.hsi
      <4>1. ASSUME config.hsi = None, config.pll = "HSI" PROVE FALSE
        BY <3>2, <4>1, MHzPositive DEF PllIn, None
      <4> QED
        BY <1>3, <4>1 DEF ClockInv, WrittenInv, AfterSwitch
    <3> QED
      BY <1>3, <2>4, <3>1, <3>2, <3>3 DEF ActualSys, OutputOf, sys, pll, PllIn
  <2> QED
    BY <2>2, <2>3, <2>4 DEF ConfigFacts
<1>4. sws # "HSI" \/ step \in {"freeze", "done"} => step \in AfterSwitch /\ sws = config.sys
  BY DEF ClockInv, SwitchInv, AfterSwitch
<1>5. step \in {"freeze", "done"} => OutputOf(config.sys) = sys
  BY <1>3, <1>4 DEF ActualSys
<1> QED
  BY <1>2, <1>3, <1>4, <1>5

\* The fastest AHB clock that init lets the chip have.
LEMMA SysBound ==
  ASSUME ClockInv, ConfigFacts, HseWithinFlash, step \in AfterSwitch
  PROVE  sys \in Nat /\ sys <= (IF chip = "f072" THEN 72 * MHz ELSE 48 * MHz)
<1>1. MHz \in Nat /\ MHz > 0
  BY MHzPositive
<1>2. CASE config.sys = "HSI"
  <2>1. config.hsi \in Nat /\ config.hsi <= 24 * MHz /\ config.hsidiv \in Nat \ {0}
    BY <1>1 DEF ConfigFacts
  <2>2. config.hsi \div config.hsidiv \in Nat /\ config.hsi \div config.hsidiv <= 24 * MHz
    BY <1>1, <2>1, Quotient
  <2> QED
    BY <1>1, <1>2, <2>2 DEF sys
<1>3. CASE config.sys = "HSE"
  <2>1. config.hse \in Nat /\ config.hse <= 48 * MHz
    BY <1>1 DEF ConfigFacts, HseWithinFlash, None
  <2> QED
    BY <1>1, <1>3, <2>1 DEF sys
<1>4. CASE config.sys = "PLL"
  <2>1. sys # None
    BY DEF ClockInv, WrittenInv, Waited, Prescaled
  <2>2. config.pll # "none"
    BY <1>4, <2>1 DEF sys, pll
  <2>3. PllIn \in 16 * MHz .. 24 * MHz
    BY <2>2 DEF ClockInv, WrittenInv, PllChosen, Waited, Prescaled, AfterSwitch
  <2>4. sys = PllIn * config.mul
    BY <1>4, <2>2 DEF sys, pll
  <2>5. chip # "f002b" /\ (config.mul = 2 \/ (config.mul = 3 /\ chip = "f072"))
    BY <2>2 DEF ConfigFacts, ClockInv, ClockTypes
  <2> HIDE DEF PllIn
  <2>6. CASE config.mul = 2
    BY <1>1, <2>3, <2>4, <2>6
  <2>7. CASE config.mul = 3
    BY <1>1, <2>3, <2>4, <2>5, <2>7
  <2> QED
    BY <2>5, <2>6, <2>7
<1> QED
  BY <1>2, <1>3, <1>4 DEF ConfigFacts

LEMMA ClockInvSafe == ASSUME ClockInv, HseWithinFlash PROVE ClockSafe
<1> ConfigFacts
  BY ConfigTypes DEF ClockInv
<1>1. sws \in ready /\ IsOn(sws) /\ (sws = "PLL" => IsOn(creg.pllsrc))
  BY DEF ClockInv, SourceInv, IsOn, ClockTypes, Registers
<1>2. MHz \in Nat /\ MHz > 0
  BY MHzPositive
<1>3. creg.hpre \in Nat \ {0} /\ creg.latency \in {0, 1, 2}
  BY DEF ClockInv, ClockTypes, Registers
<1>4. CASE ~(sws # "HSI" \/ step \in {"freeze", "done"})
  <2>1. ActualSys \in Nat /\ ActualSys <= 24 * MHz
    BY <1>2, <1>4, SystemClock DEF ActualSys, OutputOf
  <2>2. ActualHclk \in Nat /\ ActualHclk <= ActualSys
    BY <1>3, <2>1, Quotient DEF ActualHclk
  <2>3. 24 * MHz <= MaxHclk(creg.latency)
    BY <1>2, <1>3 DEF MaxHclk
  <2> HIDE DEF ActualHclk, ActualSys, MaxHclk
  <2>4. MaxHclk(creg.latency) \in Nat
    BY <1>2, <1>3 DEF MaxHclk
  <2>5. ActualHclk <= MaxHclk(creg.latency)
    BY <1>2, <2>1, <2>2, <2>3, <2>4
  <2> QED
    BY <1>1, <2>5 DEF ClockSafe
<1>5. CASE sws # "HSI" \/ step \in {"freeze", "done"}
  <2>1. ActualSys = sys /\ step \in AfterSwitch
    BY <1>5, SystemClock
  <2>2. creg.hpre = config.ahb_pre /\ creg.latency = latency
    BY <2>1 DEF ClockInv, WrittenInv, Waited, Prescaled
  <2>3. sys \in Nat /\ sys <= (IF chip = "f072" THEN 72 * MHz ELSE 48 * MHz)
    BY <2>1, SysBound
  <2>4. ActualHclk = hclk1
    BY <2>1, <2>2 DEF ActualHclk, hclk1
  <2> HIDE DEF sys
  <2>5. hclk1 \in Nat /\ hclk1 <= sys
    BY <1>3, <2>2, <2>3, Quotient DEF hclk1
  <2> HIDE DEF hclk1
  <2>6. hclk1 <= MaxHclk(latency)
    BY <1>2, <2>3, <2>5 DEF MaxHclk, latency
  <2> QED
    BY <1>1, <2>2, <2>4, <2>6 DEF ClockSafe
<1> QED
  BY <1>4, <1>5

LEMMA SysInNat == ASSUME ConfigFacts PROVE sys \in Nat
<1>1. config.hsi \in Nat /\ config.hsidiv \in Nat \ {0} /\ config.hse \in Nat
      /\ config.mul \in Nat /\ None \in Nat
  BY MHzPositive DEF ConfigFacts, None
<1>2. config.hsi \div config.hsidiv \in Nat
  BY <1>1, Quotient
<1>3. pll \in Nat
  BY <1>1 DEF pll, PllIn
<1> QED
  BY <1>1, <1>2, <1>3 DEF sys, ConfigFacts

LEMMA ClockInvFrozen == ASSUME ClockInv PROVE FrozenFrequencies
<1> SUFFICES ASSUME step = "done" PROVE FrozenFrequencies
  BY DEF FrozenFrequencies
<1> ConfigFacts
  BY ConfigTypes DEF ClockInv
<1> DEFINE apb == calc_pclk(hclk1, config.apb1_pre)
<1>1. freqs = [hclk1 |-> hclk1, pclk1 |-> apb.pclk, pclk1_tim |-> apb.pclk_tim,
               sys |-> sys, hsi |-> config.hsi, pll |-> pll, lse |-> None]
  BY DEF ClockInv, WrittenInv
<1>2. ActualSys = sys /\ creg.hpre = config.ahb_pre /\ creg.ppre = config.apb1_pre
  BY SystemClock DEF ClockInv, WrittenInv, Prescaled, AfterSwitch
<1>3. ActualHclk = hclk1
  BY <1>2 DEF ActualHclk, hclk1
<1>4. sys \in Nat
  BY SysInNat
<1>5. hclk1 \in Nat
  BY <1>4, Quotient DEF hclk1, ConfigFacts
<1>6. ActualPclk = apb.pclk /\ ActualTimerClock = apb.pclk_tim
  <2> HIDE DEF hclk1
  <2> DEFINE p == hclk1 \div config.apb1_pre
  <2>1. config.apb1_pre \in Nat \ {0}
    BY DEF ConfigFacts
  <2>2. /\ p \in Nat /\ (config.apb1_pre = 1 => p = hclk1)
        /\ config.apb1_pre # 1 /\ hclk1 # 0 => p # hclk1
        /\ hclk1 = 0 => p = 0
    BY <1>5, <2>1, Quotient
  <2>3. ActualPclk = p /\ ActualTimerClock = IF config.apb1_pre = 1 THEN p ELSE 2 * p
    BY <1>2, <1>3 DEF ActualPclk, ActualTimerClock
  <2>4. apb.pclk = p /\ apb.pclk_tim = IF hclk1 = p THEN p ELSE p * 2
    BY DEF calc_pclk
  <2> HIDE DEF p, apb
  <2> QED
    BY <1>5, <2>1, <2>2, <2>3, <2>4
<1>7. config.hsi # None => IsOn("HSI") /\ config.hsi = creg.hsi
  BY DEF ClockInv, SourceInv, WrittenInv, IsOn
<1>8. pll # None => "PLL" \in ready /\ pll = OutputOf("PLL")
  <2> SUFFICES ASSUME pll # None PROVE "PLL" \in ready /\ pll = OutputOf("PLL")
    OBVIOUS
  <2>1. config.pll # "none"
    BY DEF pll
  <2>2. /\ "PLL" \in ready /\ creg.pllsrc = config.pll /\ creg.pllmul = config.mul
        /\ PllIn \in 16 * MHz .. 24 * MHz
    BY <2>1 DEF ClockInv, WrittenInv, PllChosen, Waited, Prescaled, AfterSwitch
  <2>3. config.pll = "HSI" => config.hsi # None
    <3>1. ASSUME config.hsi = None, config.pll = "HSI" PROVE FALSE
      BY <2>2, <3>1, MHzPositive DEF PllIn, None
    <3> QED
      BY <3>1
  <2> QED
    BY <1>7, <2>1, <2>2, <2>3 DEF pll, PllIn, OutputOf
<1> HIDE DEF apb
<1> QED
  BY <1>1, <1>2, <1>3, <1>6, <1>7, <1>8 DEF FrozenFrequencies

-------------------------------------------------------------------------------
(* Dividers.                                                               *)

\* Whole multiples and what is left.
LEMMA DivMod ==
  ASSUME NEW a \in Nat, NEW b \in Nat \ {0}
  PROVE  /\ a \div b \in Nat
         /\ a % b \in 0 .. b - 1
         /\ a = (a \div b) * b + (a % b)
  BY SMT

LEMMA U16Facts == U16 \in Nat /\ U16 > 4096
  BY DEF U16

\* The divider is the nearest to clock / baud.
LEMMA BrrIsNearest ==
  ASSUME NEW c \in Nat, NEW b \in Nat \ {0}
  PROVE  /\ calculate_brr(b, c) \in Nat
         /\ calculate_brr(b, c) * b - c \in Int
         /\ 2 * (calculate_brr(b, c) * b - c) <= b + 1
         /\ 2 * (c - calculate_brr(b, c) * b) <= b + 1
<1> DEFINE q == c \div b
           r == c % b
           h == b \div 2
           u == (r + h) \div b
<1>1. q \in Nat /\ r \in 0 .. b - 1 /\ c = q * b + r
  BY DivMod
<1>2. h \in Nat /\ 2 * h <= b /\ b <= 2 * h + 1
  BY SMT
<1> HIDE DEF q, r, h
<1>3. r + h \in Nat /\ r + h < 2 * b
  BY <1>1, <1>2
<1>4. /\ r + h < b => u = 0
      /\ r + h >= b => u = 1
  <2> DEFINE s == r + h
  <2>1. s \in Nat /\ s < 2 * b
    BY <1>3
  <2> HIDE DEF s
  <2>2. /\ s < b => s \div b = 0
        /\ s >= b => s \div b = 1
    BY <2>1, SMT
  <2> QED
    BY <2>2 DEF s
<1>5. calculate_brr(b, c) = q + u
  BY DEF calculate_brr, q, r, h
<1> HIDE DEF u
<1>6. CASE r + h < b
  <2>1. calculate_brr(b, c) = q
    BY <1>1, <1>4, <1>5, <1>6
  <2> DEFINE p == q * b
  <2>2. p \in Int /\ c = p + r
    BY <1>1
  <2> HIDE DEF p
  <2>3. p - c \in Int /\ 2 * (p - c) <= b + 1 /\ 2 * (c - p) <= b + 1
    BY <1>1, <1>2, <1>6, <2>2
  <2> QED
    BY <1>1, <2>1, <2>3 DEF p
<1>7. CASE r + h >= b
  <2>1. calculate_brr(b, c) = q + 1
    BY <1>1, <1>4, <1>5, <1>7
  <2> DEFINE p == q * b
             t == (q + 1) * b
  <2>2. p \in Int /\ c = p + r /\ t = p + b
    BY <1>1
  <2> HIDE DEF p, t
  <2>3. t - c \in Int /\ 2 * (t - c) <= b + 1 /\ 2 * (c - t) <= b + 1
    BY <1>1, <1>2, <1>7, <2>2
  <2> QED
    BY <1>1, <2>1, <2>3 DEF t
<1> QED
  BY <1>1, <1>3, <1>6, <1>7

LEMMA BaudFits ==
  ASSUME NEW c \in Nat, NEW b \in Nat \ {0}, configure_brr(b, c).ok
  PROVE  BaudAsAsked(configure_brr(b, c), b, c)
<1> DEFINE d == calculate_brr(b, c)
           s == configure_brr(b, c)
<1>1. /\ d \in Nat /\ d * b - c \in Int
      /\ 2 * (d * b - c) <= b + 1 /\ 2 * (c - d * b) <= b + 1
  BY BrrIsNearest
<1>2. Divider(s) = d /\ Fits(s.brr, U16)
  <2> HIDE DEF d
  <2>1. CASE d < 8
    BY <1>1, <2>1, U16Facts DEF configure_brr, Refused, d
  <2>2. CASE d \in 8 .. 15
    <3>1. s = [ok |-> TRUE, over8 |-> TRUE, brr |-> 16 * (d \div 8) + (d % 8)]
      BY <1>1, <2>2, U16Facts DEF configure_brr, d
    <3>2. d \div 8 = 1 /\ d % 8 = d - 8
      BY <2>2
    <3>3. s.brr = d + 8 /\ s.over8
      BY <2>2, <3>1, <3>2
    <3>4. (d + 8) \div 16 = 1 /\ (d + 8) % 8 = d - 8
      BY <2>2
    <3> HIDE DEF s
    <3> QED
      BY <2>2, <3>3, <3>4, U16Facts DEF Divider, Fits
  <2>3. CASE d \in 16 .. U16 - 1
    <3>1. s = [ok |-> TRUE, over8 |-> FALSE, brr |-> d]
      BY <1>1, <2>3, U16Facts DEF configure_brr, d
    <3> QED
      BY <2>3, <3>1, U16Facts DEF Divider, Fits
  <2>4. CASE d >= U16
    BY <1>1, <2>4, U16Facts DEF configure_brr, Refused, d
  <2> QED
    BY <1>1, <2>1, <2>2, <2>3, <2>4, U16Facts
<1> DEFINE e == d * b - c
<1>3. e \in Int /\ 2 * e <= b + 1 /\ 2 * (-e) <= b + 1
  BY <1>1
<1> HIDE DEF d, s, e
<1>4. 2 * Abs(e) <= b + 1
  BY <1>3 DEF Abs
<1> QED
  BY <1>2, <1>4 DEF BaudAsAsked, e, s

LEMMA PeriodIsLongest ==
  ASSUME NEW bits \in {16, 32}, NEW c \in Nat, NEW f \in Nat \ {0}, set_frequency(bits, c, f).ok
  PROVE  LET s == set_frequency(bits, c, f) IN
         /\ s.psc \in Nat /\ s.arr \in Nat
         /\ PeriodFits((s.psc + 1) * (s.arr + 1), s.psc, c, f)
         /\ s.psc < U16 /\ s.arr < IF bits = 16 THEN U16 ELSE c
         /\ bits = 32 => s.psc = 0
<1> DEFINE total == c \div f
           psc == IF bits = 16 THEN (total - 1) \div U16 ELSE 0
           m == psc + 1
           q == total \div m
           r == total % m
<1>1. total \in Nat
  BY DivMod
<1>2. total # 0
  BY DEF set_frequency, Refused
<1>3. set_frequency(bits, c, f) = [ok |-> psc < U16, psc |-> psc, arr |-> q - 1]
  BY <1>2 DEF set_frequency
<1> HIDE DEF total
<1>4. psc \in Nat /\ psc < total
  <2>1. total - 1 \in Nat /\ U16 \in Nat \ {0}
    BY <1>1, <1>2, U16Facts
  <2>2. (total - 1) \div U16 \in Nat /\ (total - 1) \div U16 <= total - 1
    BY <2>1, Quotient
  <2> QED
    BY <1>1, <1>2, <2>2
<1> HIDE DEF psc
<1>5. m \in Nat \ {0} /\ m <= total
  BY <1>1, <1>4
<1> HIDE DEF m
<1>6. q \in Nat /\ r \in 0 .. m - 1 /\ total = q * m + r
  BY <1>1, <1>5, DivMod
<1> HIDE DEF q, r
<1>7. q >= 1
  <2>1. ASSUME q = 0 PROVE FALSE
    <3>1. total = r
      BY <1>5, <1>6, <2>1
    <3> QED
      BY <1>1, <1>5, <1>6, <3>1
  <2> QED
    BY <1>6, <2>1
<1>8. m * q = q * m
  BY <1>5, <1>6
<1>9. m * q <= total /\ total < m * q + m
  <2> DEFINE p == q * m
  <2>1. p \in Int /\ r \in 0 .. m - 1 /\ total = p + r
    BY <1>5, <1>6
  <2> HIDE DEF p
  <2>2. p <= total /\ total < p + m
    BY <1>1, <1>5, <2>1
  <2> QED
    BY <1>8, <2>2 DEF p
<1>10. (q - 1) + 1 = q /\ q - 1 \in Nat
  BY <1>6, <1>7
<1>11. m * q + psc + 1 = m * q + m /\ m * q \in Nat
  BY <1>4, <1>5, <1>6 DEF m
<1>12. psc < U16 /\ (bits = 32 => psc = 0)
  <2>1. psc < U16
    <3> DEFINE b == psc < U16
    <3>1. set_frequency(bits, c, f) = [ok |-> b, psc |-> psc, arr |-> q - 1]
      BY <1>3
    <3> HIDE DEF b
    <3>2. set_frequency(bits, c, f).ok = b
      BY <3>1
    <3> QED
      BY <3>2, Zenon DEF b
  <2>2. bits = 32 => psc = 0
    BY DEF psc
  <2> QED
    BY <2>1, <2>2
<1>13. bits = 16 => q <= U16
  <2> SUFFICES ASSUME bits = 16 PROVE q <= U16
    OBVIOUS
  <2>1. psc = (total - 1) \div U16
    BY DEF psc
  <2>2. total - 1 < (psc + 1) * U16
    BY <1>1, <1>2, <2>1, SMT DEF U16
  <2>3. total <= m * U16
    BY <1>1, <1>4, <2>2 DEF m, U16
  <2>4. ASSUME q >= U16 + 1 PROVE FALSE
    <3>1. m * q >= m * (U16 + 1)
      BY <1>5, <1>6, <2>4, SMT DEF U16
    <3>2. m * (U16 + 1) = m * U16 + m /\ m * U16 \in Nat
      BY <1>5 DEF U16
    <3> DEFINE mq == m * q
               mu == m * U16
               mx == m * (U16 + 1)
    <3>3. mq \in Nat /\ mq <= total /\ total <= mu /\ mx = mu + m /\ mu \in Nat /\ mq >= mx
      BY <1>5, <1>6, <1>9, <2>3, <3>1, <3>2
    <3> HIDE DEF mq, mu, mx
    <3> QED
      BY <1>1, <1>5, <3>3
  <2> QED
    BY <1>6, <2>4, U16Facts
<1>14. q <= c
  <2>1. total <= c
    BY Quotient DEF total
  <2>2. q <= total
    BY <1>1, <1>5, Quotient DEF q
  <2> QED
    BY <1>1, <1>6, <2>1, <2>2
<1>15. q - 1 < IF bits = 16 THEN U16 ELSE c
  BY <1>6, <1>13, <1>14, U16Facts
<1> QED
  BY <1>3, <1>4, <1>9, <1>10, <1>11, <1>12, <1>15 DEF PeriodFits, m, total

LEMMA TickFits ==
  ASSUME NEW c \in Nat, NEW f \in Nat \ {0}, set_tick_freq(c, f).ok
  PROVE  TickAsAsked(set_tick_freq(c, f), f, c)
<1> DEFINE total == c \div f
<1>1. total \in Nat
  BY DivMod
<1>2. set_tick_freq(c, f) = [ok |-> TRUE, psc |-> total - 1] /\ total \in 1 .. U16
  BY DEF set_tick_freq, Refused
<1> HIDE DEF total
<1>3. (total - 1) + 1 = total /\ total <= total /\ total < total + 0 + 1
  BY <1>1
<1>4. total - 1 \in Nat /\ total - 1 < U16
  BY <1>1, <1>2, U16Facts
<1> QED
  BY <1>2, <1>3, <1>4 DEF TickAsAsked, Fits, PeriodFits, total

LEMMA DutyFits ==
  ASSUME NEW n \in 0 .. 100, NEW max \in Nat
  PROVE  LET d == duty_cycle_fraction(n, 100, max) IN
         d * 100 <= n * max /\ n * max < (d + 1) * 100 /\ d <= max
<1> DEFINE p == n * max
           q == p \div 100
<1>1. p \in Nat /\ p <= 100 * max
  BY SMT
<1> HIDE DEF p
<1>2. q * 100 <= p /\ p < (q + 1) * 100 /\ q <= max
  BY <1>1
<1> QED
  BY <1>2 DEF duty_cycle_fraction, p

LEMMA AdcFits ==
  ASSUME NEW c \in Nat, Prescaler(c).ok PROVE AdcAsAsked(Prescaler(c), c)
<1> DEFINE raw == c \div 16000000
           half == raw \div 2
<1>1. raw \in Nat /\ c < 16000000 * (raw + 1) /\ raw <= 7
  BY DEF Prescaler, Refused
<1> HIDE DEF raw
<1>2. half \in Nat /\ raw <= 2 * half + 1 /\ half \in {0, 1, 2, 3}
  BY <1>1
<1> HIDE DEF half
<1>3. c <= 16000000 * (2 * half + 2)
  BY <1>1, <1>2
<1>4. Prescaler(c).div = 2 * half + 2
  BY DEF Prescaler, Refused, half, raw
<1>5. 16 * MHz = 16000000
  BY DEF MHz
<1>6. 2 * half + 2 \in {2, 4, 6, 8}
  BY <1>2
<1> QED
  BY <1>3, <1>4, <1>5, <1>6 DEF AdcAsAsked

\* What is cut to the width of CCR: the divider asked for, or the smallest allowed.
LEMMA CcrFits ==
  ASSUME NEW c \in Nat, NEW step2 \in Nat \ {0}, NEW low \in {1, 4}
  PROVE  LET ccr == AtLeast(c \div step2, low) % CcrLimit IN
         /\ Fits(ccr, CcrLimit)
         /\ c \div step2 < CcrLimit =>
              c < (ccr + 1) * step2 /\ (ccr * step2 <= c \/ ccr = low)
<1> DEFINE x == c \div step2
           a == AtLeast(x, low)
           p == x * step2
           px == (x + 1) * step2
<1>1. x \in Nat /\ p <= c /\ c < px
  <2> DEFINE r == c % step2
  <2>1. x \in Nat /\ r \in 0 .. step2 - 1 /\ c = x * step2 + r
    BY DivMod, Zenon
  <2> HIDE DEF x, r
  <2>2. p \in Nat /\ px = p + step2
    BY <2>1
  <2> QED
    BY <2>1, <2>2
<1> HIDE DEF x
<1>2. a \in Nat /\ a >= x /\ (a = x \/ a = low)
  BY <1>1 DEF AtLeast
<1>3. a % CcrLimit \in Nat /\ a % CcrLimit < CcrLimit
  BY <1>2 DEF CcrLimit
<1>4. ASSUME x < CcrLimit
      PROVE  c < ((a % CcrLimit) + 1) * step2 /\ ((a % CcrLimit) * step2 <= c \/ a % CcrLimit = low)
  <2>1. a < CcrLimit
    BY <1>1, <1>2, <1>4 DEF CcrLimit
  <2> HIDE DEF a
  <2>2. a % CcrLimit = a
    BY <1>2, <2>1 DEF CcrLimit
  <2>3. px <= (a + 1) * step2
    <3>1. x + 1 <= a + 1
      BY <1>1, <1>2
    <3> QED
      BY <1>1, <1>2, <3>1, SMT
  <2>4. (a + 1) * step2 \in Nat /\ px \in Nat
    BY <1>1, <1>2
  <2> HIDE DEF px
  <2>5. c < (a + 1) * step2
    BY <1>1, <2>3, <2>4
  <2>6. a * step2 <= c \/ a = low
    BY <1>1, <1>2
  <2> QED
    BY <2>2, <2>5, <2>6
<1> QED
  BY <1>3, <1>4 DEF Fits, x

LEMMA SclFits ==
  ASSUME NEW c \in Nat, NEW speed \in Nat \ {0}, Timings(c, speed).ok
  PROVE  SclAsAsked(Timings(c, speed), speed, c)
<1> DEFINE s == Timings(c, speed)
           F == speed > 100000
           f == c \div 1000000
           step2 == IF F THEN 3 * speed ELSE 2 * speed
           low == IF F THEN 1 ELSE 4
<1>1. f \in 2 .. 50
  BY DEF Timings, Refused
<1>2. speed * 3 = 3 * speed /\ speed * 2 = 2 * speed
  OBVIOUS
<1>3. /\ s.fast = F /\ s.freq = f
      /\ s.trise = IF F THEN (f * 300) \div 1000 + 1 ELSE f + 1
      /\ s.ccr = (IF F THEN AtLeast(c \div (3 * speed), 1)
                  ELSE AtLeast(c \div (2 * speed), 4)) % CcrLimit
  BY <1>1, <1>2 DEF Timings
<1> HIDE DEF s, f
<1>4. Fits(s.freq, 64) /\ Fits(s.trise, 64)
  BY <1>1, <1>3 DEF Fits
<1> HIDE DEF F
<1>5. s.ccr = AtLeast(c \div step2, low) % CcrLimit
  BY <1>3, Zenon
<1>6. step2 \in Nat \ {0} /\ low \in {1, 4}
  OBVIOUS
<1>7. /\ step2 = IF s.fast THEN 3 * speed ELSE 2 * speed
      /\ low = IF s.fast THEN 1 ELSE 4
  BY <1>3, Zenon
<1> HIDE DEF step2, low
<1>8. /\ Fits(s.ccr, CcrLimit)
      /\ c \div step2 < CcrLimit =>
           c < (s.ccr + 1) * step2 /\ (s.ccr * step2 <= c \/ s.ccr = low)
  BY <1>5, <1>6, CcrFits
<1>9. SclAsAsked(s, speed, c)
  BY <1>4, <1>7, <1>8, Zenon DEF SclAsAsked
<1> QED
  BY <1>9 DEF s

LEMMA DeadTimeBitsFit ==
  ASSUME NEW t \in Nat
  PROVE  /\ DeadTimeBits(t).bits \in 0 .. 255 /\ DeadTimeBits(t).result \in Int
         /\ t < 128 => DeadTimeBits(t).bits = t /\ DeadTimeBits(t).result = t
<1> DEFINE I(a, b) == a .. b
           A == t \in I(128, 254)
           B == t \in I(255, 507)
           C == t \in I(508, 1007)
           Encoded(d) == d.bits \in I(0, 255) /\ d.result \in Int
           d1 == [bits |-> t, result |-> t]
           d2 == [bits |-> 64 + t \div 2, result |-> t - (t % 2)]
           d3 == [bits |-> 32 + t \div 8, result |-> t - (t % 8)]
           d4 == [bits |-> 32 + t \div 16, result |-> t - (t % 16)]
           d5 == [bits |-> 255, result |-> 1008]
<1>1. \A x, a, b \in Int : x \in I(a, b) <=> a <= x /\ x <= b
  OBVIOUS
<1>2. DeadTimeBits(t) = CASE t < 128 -> d1 [] A -> d2 [] B -> d3 [] C -> d4 [] t >= 1008 -> d5
  BY Zenon DEF DeadTimeBits
<1> HIDE DEF I
<1>3. (A <=> 128 <= t /\ t <= 254) /\ (B <=> 255 <= t /\ t <= 507) /\ (C <=> 508 <= t /\ t <= 1007)
  BY <1>1
<1> HIDE DEF A, B, C
<1>4. /\ t < 128 => Encoded(d1)
      /\ A => Encoded(d2)
      /\ B => Encoded(d3)
      /\ C => Encoded(d4)
      /\ Encoded(d5)
  BY <1>1, <1>3
<1>5. ASSUME t < 128 PROVE DeadTimeBits(t) = d1
  <2>1. ~A /\ ~B /\ ~C /\ ~(t >= 1008)
    BY <1>3, <1>5
  <2> HIDE DEF d1, d2, d3, d4, d5
  <2> QED
    BY <1>2, <1>5, <2>1
<1>6. t < 128 => DeadTimeBits(t).bits = t /\ DeadTimeBits(t).result = t
  BY <1>5
<1> HIDE DEF d1, d2, d3, d4, d5, Encoded
<1>7. Encoded(DeadTimeBits(t))
  BY <1>2, <1>3, <1>4
<1> QED
  BY <1>6, <1>7 DEF Encoded, I

LEMMA DeadTimeFits ==
  ASSUME NEW v \in Nat
  PROVE  LET s == compute_dead_time_value(v) IN
         DeadTimeAsAsked([ok |-> TRUE, ckd |-> s.ckd, bits |-> s.bits], v)
<1> DEFINE Best(d) == \A e \in {1, 2, 4} :
             \/ DeadTimeError(v, d) < DeadTimeError(v, e)
             \/ DeadTimeError(v, d) = DeadTimeError(v, e) /\ d <= e
           div == CHOOSE d \in {1, 2, 4} : Best(d)
<1>1. ASSUME NEW d \in {1, 2, 4}
      PROVE  DeadTimeBits(v \div d).bits \in 0 .. 255 /\ DeadTimeError(v, d) \in Nat
  <2>1. v \div d \in Nat /\ d \in Int
    BY DivMod
  <2>2. DeadTimeBits(v \div d).bits \in 0 .. 255 /\ DeadTimeBits(v \div d).result \in Int
    BY <2>1, DeadTimeBitsFit
  <2> DEFINE res == DeadTimeBits(v \div d).result
  <2>3. DeadTimeError(v, d) = IF v - res * d < 0 THEN -(v - res * d) ELSE v - res * d
    BY DEF DeadTimeError
  <2> HIDE DEF res
  <2>4. res \in Int
    BY <2>2 DEF res
  <2>5. v - res * d \in Int
    BY <2>1, <2>4
  <2> DEFINE gap == v - res * d
  <2>6. DeadTimeError(v, d) \in Nat
    <3>1. DeadTimeError(v, d) = IF gap < 0 THEN -gap ELSE gap
      BY <2>3
    <3>2. gap \in Int
      BY <2>5
    <3> HIDE DEF gap
    <3> QED
      BY <3>1, <3>2
  <2> QED
    BY <2>2, <2>6
<1>2. \E d \in {1, 2, 4} : Best(d)
  <2> DEFINE e1 == DeadTimeError(v, 1)
             e2 == DeadTimeError(v, 2)
             e4 == DeadTimeError(v, 4)
  <2>1. e1 \in Int /\ e2 \in Int /\ e4 \in Int
    BY <1>1
  <2>2. /\ e1 <= e2 /\ e1 <= e4 => Best(1)
        /\ e2 < e1 /\ e2 <= e4 => Best(2)
        /\ e4 < e1 /\ e4 < e2 => Best(4)
    BY <2>1
  <2> HIDE DEF e1, e2, e4, Best
  <2> QED
    BY <2>1, <2>2
<1>3. div \in {1, 2, 4} /\ Best(div)
  <2> HIDE DEF Best
  <2> QED
    BY <1>2
<1>4. compute_dead_time_value(v) = [ckd |-> div, bits |-> DeadTimeBits(v \div div).bits]
  BY DEF compute_dead_time_value
<1>5. ASSUME v < 128 PROVE div = 1 /\ DeadTimeBits(v \div div).bits = v
  <2>1. v \div 1 = v
    OBVIOUS
  <2>2. DeadTimeBits(v).bits = v /\ DeadTimeBits(v).result = v
    BY <1>5, DeadTimeBitsFit
  <2>3. DeadTimeError(v, 1) = 0
    BY <2>1, <2>2 DEF DeadTimeError
  <2>4. DeadTimeError(v, div) < DeadTimeError(v, 1) \/ div <= 1
    BY <1>3
  <2>5. DeadTimeError(v, div) \in Nat
    BY <1>1, <1>3
  <2> HIDE DEF div
  <2>6. div = 1
    BY <1>3, <2>3, <2>4, <2>5
  <2> QED
    BY <2>1, <2>2, <2>6
<1> DEFINE bits == DeadTimeBits(v \div div).bits
           regs == [ok |-> TRUE, ckd |-> div, bits |-> bits]
<1>6. bits \in 0 .. 255
  BY <1>1, <1>3
<1>7. Fits(bits, 256)
  <2> HIDE DEF bits
  <2> QED
    BY <1>6 DEF Fits
<1> HIDE DEF div, bits
<1>8. v < 128 => DeadTime(regs) = v
  BY <1>5 DEF DeadTime, bits
<1>9. DeadTimeAsAsked(regs, v)
  BY <1>3, <1>7, <1>8 DEF DeadTimeAsAsked
<1>10. compute_dead_time_value(v).ckd = div /\ compute_dead_time_value(v).bits = bits
  BY <1>4 DEF bits
<1> QED
  BY <1>9, <1>10

-------------------------------------------------------------------------------
(* The dividers, from the clock the chip really runs at.                   *)

ChipInv ==
  /\ ClockInv
  /\ setting # Unset => step = "done"
  /\ SettingFits

LEMMA SameClock ==
  ASSUME UNCHANGED <<creg, config, sws>>
  PROVE  ActualPclk' = ActualPclk /\ ActualTimerClock' = ActualTimerClock
  BY DEF ActualPclk, ActualTimerClock, ActualHclk, ActualSys, OutputOf

LEMMA FrozenClock ==
  ASSUME ClockInv, step = "done"
  PROVE  /\ freqs.pclk1 = ActualPclk /\ freqs.pclk1_tim = ActualTimerClock
         /\ ActualPclk \in Nat /\ ActualTimerClock \in Nat
<1> ConfigFacts
  BY ConfigTypes DEF ClockInv
<1>1. freqs.pclk1 = ActualPclk /\ freqs.pclk1_tim = ActualTimerClock
  BY ClockInvFrozen DEF FrozenFrequencies
<1>2. ActualSys = sys /\ creg.hpre \in Nat \ {0} /\ creg.ppre \in Nat \ {0}
  BY SystemClock DEF ClockInv, ClockTypes, Registers
<1>3. sys \in Nat
  BY SysInNat
<1>4. ActualHclk \in Nat
  BY <1>2, <1>3, Quotient DEF ActualHclk
<1>5. ActualPclk \in Nat
  BY <1>2, <1>4, Quotient DEF ActualPclk
<1> HIDE DEF ActualPclk
<1>6. ActualTimerClock \in Nat
  BY <1>5 DEF ActualTimerClock
<1> QED
  BY <1>1, <1>5, <1>6

\* Once the clocks are frozen nothing changes them.
LEMMA ClocksStay ==
  ASSUME ClockInv, step = "done", [ClockNext]_clockVars
  PROVE  UNCHANGED <<creg, config, sws, step>>
<1>1. sws = creg.sw
  BY DEF ClockInv, SwitchInv, AfterSwitch
<1>2. ASSUME NEW s, Stabilises(s) PROVE UNCHANGED <<creg, config, sws, step>>
  BY <1>2 DEF Stabilises
<1>3. ~Switches
  BY <1>1 DEF Switches
<1> QED
  BY <1>2, <1>3 DEF ClockNext, clockVars, hsi_on, hsi_ready, to_hsi, on_hsi, hse_off, hse_on,
       hse_ready, pll_off, pll_on, pll_ready, no_pll, set_latency, set_prescalers, set_sw,
       hsi_off, set_freqs

LEMMA BaudSet ==
  ASSUME ClockInv, NEW b \in Bauds, usart_configure(b) PROVE SettingFits'
<1> DEFINE c == ActualPclk
           s == configure_brr(b, c)
<1>1. step = "done" /\ setting' = [kind |-> "baud", want |-> b, regs |-> configure_brr(b, freqs.pclk1)]
      /\ UNCHANGED clockVars
  BY DEF usart_configure, Sets
<1>2. setting' = [kind |-> "baud", want |-> b, regs |-> s] /\ c \in Nat /\ b \in Nat \ {0}
  BY <1>1, FrozenClock, ChipAssumption
<1>3. ActualPclk' = c
  BY <1>1, SameClock DEF clockVars
<1> HIDE DEF c
<1>4. s.ok => BaudAsAsked(s, b, c)
  BY <1>2, BaudFits
<1> HIDE DEF s
<1> QED
  BY <1>2, <1>3, <1>4 DEF SettingFits

LEMMA SclSet ==
  ASSUME ClockInv, NEW v \in Speeds, i2c_set_config(v) PROVE SettingFits'
<1> DEFINE c == ActualPclk
           s == Timings(c, v)
<1>1. step = "done" /\ setting' = [kind |-> "scl", want |-> v, regs |-> Timings(freqs.pclk1, v)]
      /\ UNCHANGED clockVars
  BY DEF i2c_set_config, Sets
<1>2. setting' = [kind |-> "scl", want |-> v, regs |-> s] /\ c \in Nat /\ v \in Nat \ {0}
  BY <1>1, FrozenClock, ChipAssumption
<1>3. ActualPclk' = c
  BY <1>1, SameClock DEF clockVars
<1> HIDE DEF c
<1>4. s.ok => SclAsAsked(s, v, c)
  BY <1>2, SclFits
<1> HIDE DEF s
<1> QED
  BY <1>2, <1>3, <1>4 DEF SettingFits

LEMMA PeriodSet ==
  ASSUME ClockInv, NEW f \in PwmFreqs, NEW center \in BOOLEAN, NEW bits \in {16, 32},
         timer_set_frequency(bits, f, center)
  PROVE  SettingFits'
<1> DEFINE c == ActualTimerClock
           asked == IF center THEN 2 * f ELSE f
           s == set_frequency(bits, c, asked)
<1>1. /\ step = "done" /\ UNCHANGED clockVars
      /\ setting' = [kind |-> "period", want |-> [bits |-> bits, f |-> f, center |-> center],
                     regs |-> set_frequency(bits, freqs.pclk1_tim, asked)]
  BY DEF timer_set_frequency, pwm_set_frequency, Sets
<1>2. /\ setting' = [kind |-> "period", want |-> [bits |-> bits, f |-> f, center |-> center], regs |-> s]
      /\ c \in Nat /\ asked \in Nat \ {0}
  BY <1>1, FrozenClock, ChipAssumption
<1>3. ActualTimerClock' = c
  BY <1>1, SameClock DEF clockVars
<1> HIDE DEF c
<1> DEFINE w == [bits |-> bits, f |-> f, center |-> center]
<1>4. s.ok => PeriodAsAsked(s, w, c)
  <2>1. w.bits = bits /\ asked = IF w.center THEN 2 * w.f ELSE w.f
    OBVIOUS
  <2> HIDE DEF w
  <2> QED
    BY <1>2, <2>1, PeriodIsLongest DEF PeriodAsAsked, Fits
<1> HIDE DEF s, w
<1> QED
  BY <1>2, <1>3, <1>4 DEF SettingFits, w

LEMMA TickSet ==
  ASSUME ClockInv, NEW f \in TickFreqs, timer_set_tick_freq(f) PROVE SettingFits'
<1> DEFINE c == ActualTimerClock
           s == set_tick_freq(c, f)
<1>1. step = "done" /\ setting' = [kind |-> "tick", want |-> f, regs |-> set_tick_freq(freqs.pclk1_tim, f)]
      /\ UNCHANGED clockVars
  BY DEF timer_set_tick_freq, Sets
<1>2. setting' = [kind |-> "tick", want |-> f, regs |-> s] /\ c \in Nat /\ f \in Nat \ {0}
  BY <1>1, FrozenClock, ChipAssumption
<1>3. ActualTimerClock' = c
  BY <1>1, SameClock DEF clockVars
<1> HIDE DEF c
<1>4. s.ok => TickAsAsked(s, f, c)
  BY <1>2, TickFits
<1> HIDE DEF s
<1> QED
  BY <1>2, <1>3, <1>4 DEF SettingFits

LEMMA DutySet ==
  ASSUME ClockInv, NEW f \in PwmFreqs, NEW percent \in Percents, pwm_set_duty_percent(f, percent)
  PROVE  SettingFits'
<1> DEFINE s == set_frequency(16, freqs.pclk1_tim, f)
           d == duty_cycle_fraction(percent, 100, s.arr + 1)
<1>1. /\ step = "done"
      /\ \/ setting' = [kind |-> "duty", want |-> percent, regs |-> Refused]
         \/ /\ s.ok /\ s.arr < U16 - 1
            /\ setting' = [kind |-> "duty", want |-> percent,
                           regs |-> [ok |-> TRUE, max |-> s.arr + 1, duty |-> d]]
  BY DEF pwm_set_duty_percent, max_duty_cycle, Sets, Refused
<1>2. f \in Nat \ {0} /\ freqs.pclk1_tim \in Nat /\ percent \in 0 .. 100
  BY <1>1, FrozenClock, ChipAssumption DEF Percents
<1>3. CASE setting'.regs = Refused
  BY <1>1, <1>3 DEF SettingFits, Refused
<1>4. CASE /\ s.ok /\ s.arr < U16 - 1
           /\ setting' = [kind |-> "duty", want |-> percent,
                          regs |-> [ok |-> TRUE, max |-> s.arr + 1, duty |-> d]]
  <2>1. s.arr \in Nat
    BY <1>2, <1>4, PeriodIsLongest
  <2> DEFINE max == s.arr + 1
  <2>2. max \in Nat /\ max < U16
    BY <1>4, <2>1, U16Facts
  <2>3. setting' = [kind |-> "duty", want |-> percent,
                    regs |-> [ok |-> TRUE, max |-> max, duty |-> d]]
    BY <1>4
  <2>4. d = duty_cycle_fraction(percent, 100, max)
    OBVIOUS
  <2> HIDE DEF s, max, d
  <2>5. d * 100 <= percent * max /\ percent * max < (d + 1) * 100 /\ d <= max
    BY <1>2, <2>2, <2>4, DutyFits
  <2> DEFINE regs == [ok |-> TRUE, max |-> max, duty |-> d]
  <2>6. DutyAsAsked(regs, percent)
    BY <2>2, <2>5 DEF DutyAsAsked, Fits
  <2> HIDE DEF regs
  <2> QED
    BY <2>3, <2>6 DEF SettingFits, regs
<1> QED
  BY <1>1, <1>3, <1>4

LEMMA AdcSet == ASSUME ClockInv, adc_new PROVE SettingFits'
<1> DEFINE c == ActualPclk
           s == Prescaler(c)
<1>1. step = "done" /\ setting' = [kind |-> "adc", want |-> None, regs |-> Prescaler(freqs.pclk1)]
      /\ UNCHANGED clockVars
  BY DEF adc_new, Sets
<1>2. setting' = [kind |-> "adc", want |-> None, regs |-> s] /\ c \in Nat
  BY <1>1, FrozenClock
<1>3. ActualPclk' = c
  BY <1>1, SameClock DEF clockVars
<1> HIDE DEF c
<1>4. s.ok => AdcAsAsked(s, c)
  BY <1>2, AdcFits
<1> HIDE DEF s
<1> QED
  BY <1>2, <1>3, <1>4 DEF SettingFits

LEMMA DeadTimeSet ==
  ASSUME NEW v \in DeadTimes, set_dead_time(v) PROVE SettingFits'
<1> DEFINE s == compute_dead_time_value(v)
           regs == [ok |-> TRUE, ckd |-> s.ckd, bits |-> s.bits]
<1>1. setting' = [kind |-> "dead_time", want |-> v, regs |-> regs]
  BY DEF set_dead_time, Sets
<1>2. DeadTimeAsAsked(regs, v)
  BY DeadTimeFits, ChipAssumption
<1> HIDE DEF regs
<1> QED
  BY <1>1, <1>2 DEF SettingFits

LEMMA ChipInvInit == ClockInv /\ setting = Unset => ChipInv
  BY DEF ChipInv, SettingFits

LEMMA ChipKeepsClocks == [ChipNext]_chipVars => [ClockNext]_clockVars
  BY DEF ChipNext, chipVars, usart_configure, i2c_set_config, timer_set_frequency,
         timer_set_tick_freq, pwm_set_duty_percent, adc_new, set_dead_time, Sets

LEMMA ChipInvStep == ChipInv /\ [ChipNext]_chipVars => ChipInv'
<1> SUFFICES ASSUME ChipInv, [ChipNext]_chipVars PROVE ChipInv'
  OBVIOUS
<1>1. [ClockNext]_clockVars
  BY ChipKeepsClocks
<1>2. ClockInv /\ ClockInv'
  BY <1>1, ClockInvStep DEF ChipInv
<1>3. CASE setting' = setting
  <2>1. CASE setting = Unset
    BY <1>2, <1>3, <2>1 DEF ChipInv, SettingFits
  <2>2. CASE setting # Unset
    <3>1. step' = "done" /\ ActualPclk' = ActualPclk /\ ActualTimerClock' = ActualTimerClock
      BY <1>1, <1>2, <2>2, ClocksStay, SameClock DEF ChipInv
    <3>2. SettingFits' <=> SettingFits
      BY <1>3, <3>1 DEF SettingFits
    <3> QED
      BY <1>2, <1>3, <3>1, <3>2 DEF ChipInv
  <2> QED
    BY <2>1, <2>2
<1>4. CASE setting' # setting
  <2>1. step' = "done"
    BY <1>4 DEF ChipNext, chipVars, usart_configure, i2c_set_config, timer_set_frequency,
         timer_set_tick_freq, pwm_set_duty_percent, adc_new, set_dead_time, Sets, clockVars
  <2>2. SettingFits'
    BY <1>2, <1>4, BaudSet, SclSet, PeriodSet, TickSet, DutySet, AdcSet, DeadTimeSet
       DEF ChipNext, chipVars
  <2> QED
    BY <1>2, <2>1, <2>2 DEF ChipInv
<1> QED
  BY <1>3, <1>4

-------------------------------------------------------------------------------
(* The constructors.                                                       *)

Halves == {"tx", "rx"}

LEMMA UartKindNames ==
  /\ DOMAIN UartKinds = {"uart_tx", "uart_tx_cts", "uart_rx", "uart_rx_rts", "uart", "uart_rtscts",
                         "half_duplex", "half_duplex_od"}
  /\ UartKinds["uart_tx"] = [tx |-> {"tx"}]
  /\ UartKinds["uart_tx_cts"] = [tx |-> {"tx", "cts"}]
  /\ UartKinds["uart_rx"] = [rx |-> {"rx"}]
  /\ UartKinds["uart_rx_rts"] = [rx |-> {"rx", "rts"}]
  /\ UartKinds["uart"] = [tx |-> {"tx"}, rx |-> {"rx"}]
  /\ UartKinds["uart_rtscts"] = [tx |-> {"tx", "cts"}, rx |-> {"rx", "rts"}]
  /\ UartKinds["half_duplex"] = [tx |-> {"hd"}, rx |-> {}]
  /\ UartKinds["half_duplex_od"] = [tx |-> {"hd_od"}, rx |-> {}]
  BY DEF UartKinds, Merge, TxKinds, RxKinds, BidirectionalKinds, HalfDuplexKinds

LEMMA OtherKindNames ==
  /\ DOMAIN OtherKinds = {"i2c", "adc", "simple_pwm", "complementary_pwm", "input_capture",
                          "pwm_input", "qei"}
  /\ OtherKinds["i2c"] = [i2c |-> {"scl", "sda"}]
  /\ OtherKinds["adc"] = [adc |-> {}]
  /\ OtherKinds["simple_pwm"] = [timer |-> {"ch1"}]
  /\ OtherKinds["complementary_pwm"] = [timer |-> {"ch1", "ch1n"}]
  /\ OtherKinds["input_capture"] = [timer |-> {"ch1"}]
  /\ OtherKinds["pwm_input"] = [timer |-> {"ch1"}]
  /\ OtherKinds["qei"] = [timer |-> {"ch1", "ch2"}]
<1>1. /\ DOMAIN TimerKinds = {"simple_pwm", "complementary_pwm", "input_capture", "pwm_input", "qei"}
      /\ TimerKinds["simple_pwm"] = [timer |-> {"ch1"}]
      /\ TimerKinds["complementary_pwm"] = [timer |-> {"ch1", "ch1n"}]
      /\ TimerKinds["input_capture"] = [timer |-> {"ch1"}]
      /\ TimerKinds["pwm_input"] = [timer |-> {"ch1"}]
      /\ TimerKinds["qei"] = [timer |-> {"ch1", "ch2"}]
  BY DEF TimerKinds, Merge, SimplePwmKinds, ComplementaryPwmKinds, InputCaptureKinds,
         PwmInputKinds, QeiKinds
<1> QED
  BY <1>1 DEF OtherKinds, Merge, I2cKinds, AdcKinds

LEMMA BufferedKindNames ==
  /\ DOMAIN BufferedKinds = {"buffered", "buffered_rtscts", "buffered_de", "buffered_rts"}
  /\ BufferedKinds["buffered"] = [tx |-> {"tx"}, rx |-> {"rx"}]
  /\ BufferedKinds["buffered_rtscts"] = [tx |-> {"tx", "cts"}, rx |-> {"rx", "rts"}]
  /\ BufferedKinds["buffered_de"] = [tx |-> {"tx", "de"}, rx |-> {"rx"}]
  /\ BufferedKinds["buffered_rts"] = [tx |-> {"tx"}, rx |-> {"rx", "rts"}]
  BY DEF BufferedKinds

LEMMA KindNames ==
  /\ DOMAIN Kinds = DOMAIN UartKinds \cup DOMAIN BufferedKinds \cup DOMAIN OtherKinds \cup {"mco"}
  /\ \A k \in DOMAIN UartKinds : Kinds[k] = UartKinds[k]
  /\ \A k \in DOMAIN BufferedKinds : Kinds[k] = BufferedKinds[k]
  /\ \A k \in DOMAIN OtherKinds : Kinds[k] = OtherKinds[k]
  /\ Kinds["mco"] = [mco |-> {"mco"}]
<1> HIDE DEF UartKinds, BufferedKinds, OtherKinds
<1>1. DOMAIN McoKinds = {"mco"} /\ McoKinds["mco"] = [mco |-> {"mco"}]
  BY DEF McoKinds
<1> QED
  BY <1>1, UartKindNames, BufferedKindNames, OtherKindNames DEF Kinds, Merge

\* The parts a constructor makes, and the roles it gives pins.
LEMMA KindFacts ==
  ASSUME NEW k \in DOMAIN Kinds
  PROVE  /\ k \in DOMAIN UartKinds \cup DOMAIN BufferedKinds =>
              DOMAIN Kinds[k] \in {{"tx"}, {"rx"}, {"tx", "rx"}}
         /\ k \in DOMAIN BufferedKinds => DOMAIN Kinds[k] = {"tx", "rx"}
         /\ k \in DOMAIN OtherKinds => DOMAIN Kinds[k] \in {{"i2c"}, {"adc"}, {"timer"}}
         /\ k = "simple_pwm" => DOMAIN Kinds[k] = {"timer"}
         /\ k = "mco" => DOMAIN Kinds[k] = {"mco"}
         /\ DOMAIN Kinds[k] \subseteq Parts
         /\ \A h \in DOMAIN Kinds[k] : Kinds[k][h] \subseteq Roles
         /\ k # "none"
<1>1. CASE k \in DOMAIN UartKinds
  BY <1>1, KindNames, UartKindNames, BufferedKindNames, OtherKindNames DEF Parts, Roles
<1>2. CASE k \in DOMAIN BufferedKinds
  BY <1>2, KindNames, UartKindNames, BufferedKindNames, OtherKindNames DEF Parts, Roles
<1>3. CASE k \in DOMAIN OtherKinds
  BY <1>3, KindNames, UartKindNames, BufferedKindNames, OtherKindNames DEF Parts, Roles
<1>4. CASE k = "mco"
  BY <1>4, KindNames, UartKindNames, BufferedKindNames, OtherKindNames DEF Parts, Roles
<1> QED
  BY <1>1, <1>2, <1>3, <1>4, KindNames

-------------------------------------------------------------------------------
(* Clocks: the enable bits are those of the parts in use, and the count of *)
(* a bit that is shared is the number of its users.                        *)

Clocks == [en : SUBSET Bits, refcount : [Bits -> Nat], fresh : SUBSET Peripheral]

Counts(r, used) ==
  /\ r \in Clocks
  /\ \A b \in Bits :
       r.refcount[b] = IF needs_refcount(b) THEN Cardinality(Sharing(b) \cap used) ELSE 0
  /\ r.en = {EnableBit[p] : p \in used}

LEMMA FinitePeripheral ==
  /\ IsFiniteSet(Peripheral)
  /\ \A S \in SUBSET Peripheral : IsFiniteSet(S) /\ Cardinality(S) \in Nat
<1>1. IsFiniteSet({"USART", "I2C", "ADC", "TIM", "TIMDRV", "DBGMCU", "FLASH"})
  <2>1. \A S, x : IsFiniteSet(S) => IsFiniteSet(S \cup {x})
    BY FS_AddElement
  <2>2. IsFiniteSet({} \cup {"USART"} \cup {"I2C"} \cup {"ADC"} \cup {"TIM"} \cup {"TIMDRV"}
                     \cup {"DBGMCU"} \cup {"FLASH"})
    BY <2>1, FS_EmptySet
  <2>3. {} \cup {"USART"} \cup {"I2C"} \cup {"ADC"} \cup {"TIM"} \cup {"TIMDRV"} \cup {"DBGMCU"}
        \cup {"FLASH"} = {"USART", "I2C", "ADC", "TIM", "TIMDRV", "DBGMCU", "FLASH"}
    OBVIOUS
  <2> QED
    BY <2>2, <2>3
<1>2. IsFiniteSet(Peripheral)
  BY <1>1, DriversAssumption
<1> QED
  BY <1>2, FS_Subset, FS_CardinalityType

LEMMA Sharers ==
  ASSUME NEW U \in SUBSET Peripheral, NEW p \in Peripheral
  PROVE  /\ EnableBit[p] \in Bits /\ p \in Sharing(EnableBit[p])
         /\ \A b \in Bits : Sharing(b) \subseteq Peripheral
         /\ \A b \in Bits \ {EnableBit[p]} :
              Sharing(b) \cap (U \cup {p}) = Sharing(b) \cap U /\ Sharing(b) \cap (U \ {p}) = Sharing(b) \cap U
         /\ ~needs_refcount(EnableBit[p]) => Sharing(EnableBit[p]) = {p}
<1> DEFINE b == EnableBit[p]
<1>1. b \in Bits /\ p \in Sharing(b) /\ (\A c \in Bits : Sharing(c) \subseteq Peripheral)
      /\ (\A c \in Bits \ {b} : p \notin Sharing(c))
  BY DEF Bits, Sharing
<1>2. ASSUME ~needs_refcount(b), NEW q \in Sharing(b), q # p PROVE FALSE
  <2>1. IsFiniteSet(Sharing(b)) /\ IsFiniteSet({p, q}) /\ {p, q} \subseteq Sharing(b)
        /\ {p, q} \in SUBSET Peripheral /\ Cardinality(Sharing(b)) \in Nat
    BY <1>1, <1>2, FinitePeripheral
  <2>2. Cardinality({p, q}) <= Cardinality(Sharing(b))
    BY <2>1, FS_Subset
  <2>3. Cardinality({p, q}) = 2
    <3>1. IsFiniteSet({p}) /\ Cardinality({p}) = 1
      BY FS_Singleton
    <3>2. {p, q} = {p} \cup {q} /\ q \notin {p}
      BY <1>2
    <3>3. Cardinality({p} \cup {q}) = Cardinality({p}) + 1
      BY <3>1, <3>2, FS_AddElement
    <3> QED
      BY <3>1, <3>2, <3>3
  <2> QED
    BY <1>2, <2>1, <2>2, <2>3 DEF needs_refcount, rcc_field_count
<1> QED
  BY <1>1, <1>2

LEMMA Users ==
  ASSUME NEW b \in Bits, NEW U \in SUBSET Peripheral
  PROVE  /\ Cardinality(Sharing(b) \cap U) \in Nat
         /\ Cardinality(Sharing(b) \cap U) = 0 <=> Sharing(b) \cap U = {}
         /\ b \in {EnableBit[p] : p \in U} <=> Sharing(b) \cap U # {}
<1>1. IsFiniteSet(Sharing(b) \cap U) /\ Cardinality(Sharing(b) \cap U) \in Nat
  BY FinitePeripheral
<1>2. Cardinality(Sharing(b) \cap U) = 0 <=> Sharing(b) \cap U = {}
  BY <1>1, FS_EmptySet
<1> QED
  BY <1>1, <1>2 DEF Sharing

\* A part that is switched on is counted, and resets no registers in use.
LEMMA Enables ==
  ASSUME NEW r, NEW U \in SUBSET Peripheral, NEW p \in Peripheral \ U, Counts(r, U)
  PROVE  /\ Counts(enable_and_reset(r, p), U \cup {p})
         /\ \/ enable_and_reset(r, p).fresh = r.fresh
            \/ /\ enable_and_reset(r, p).fresh = r.fresh \cup Sharing(EnableBit[p])
               /\ Sharing(EnableBit[p]) \cap U = {}
<1> DEFINE b == EnableBit[p]
           n == Cardinality(Sharing(b) \cap U)
           counted == [r EXCEPT !.refcount[b] = IF needs_refcount(b) THEN @ + 1 ELSE @]
           e == enable_and_reset(r, p)
<1>1. /\ b \in Bits /\ p \in Sharing(b)
      /\ \A c \in Bits \ {b} : Sharing(c) \cap (U \cup {p}) = Sharing(c) \cap U
      /\ ~needs_refcount(b) => Sharing(b) = {p}
      /\ Sharing(b) \subseteq Peripheral
  BY Sharers
<1>2. n \in Nat /\ (n = 0 <=> Sharing(b) \cap U = {})
      /\ (b \in {EnableBit[q] : q \in U} <=> Sharing(b) \cap U # {})
  BY <1>1, Users
<1>3. Cardinality(Sharing(b) \cap (U \cup {p})) = n + 1
  <2>1. Sharing(b) \cap (U \cup {p}) = (Sharing(b) \cap U) \cup {p} /\ p \notin Sharing(b) \cap U
    BY <1>1
  <2>2. IsFiniteSet(Sharing(b) \cap U)
    BY FinitePeripheral
  <2> QED
    BY <2>1, <2>2, FS_AddElement
<1>4. /\ r.en = {EnableBit[q] : q \in U} /\ r.en \subseteq Bits /\ r.fresh \subseteq Peripheral
      /\ r.refcount \in [Bits -> Nat]
      /\ \A c \in Bits : r.refcount[c] = IF needs_refcount(c) THEN Cardinality(Sharing(c) \cap U) ELSE 0
      /\ r = [en |-> r.en, refcount |-> r.refcount, fresh |-> r.fresh]
  BY DEF Counts, Clocks
<1>5. counted = [en |-> r.en, fresh |-> r.fresh,
                 refcount |-> [r.refcount EXCEPT ![b] = IF needs_refcount(b) THEN @ + 1 ELSE @]]
  <2> DEFINE x == [r.refcount EXCEPT ![b] = IF needs_refcount(b) THEN @ + 1 ELSE @]
  <2>1. counted = [r EXCEPT !.refcount = x]
    OBVIOUS
  <2> HIDE DEF x, counted
  <2>2. counted = [en |-> r.en, fresh |-> r.fresh, refcount |-> x]
    BY <1>4, <2>1
  <2> QED
    BY <2>2 DEF x
<1> HIDE DEF counted, n
<1>6. /\ counted.refcount \in [Bits -> Nat]
      /\ \A c \in Bits : counted.refcount[c] =
           IF needs_refcount(c) THEN Cardinality(Sharing(c) \cap (U \cup {p})) ELSE 0
      /\ counted.refcount[b] = IF needs_refcount(b) THEN n + 1 ELSE 0
  <2>1. r.refcount[b] = IF needs_refcount(b) THEN n ELSE 0
    BY <1>1, <1>4 DEF n
  <2>2. counted.refcount = [r.refcount EXCEPT ![b] = IF needs_refcount(b) THEN @ + 1 ELSE @]
    BY <1>5
  <2>3. counted.refcount[b] = IF needs_refcount(b) THEN n + 1 ELSE 0
    BY <1>1, <1>4, <2>1, <2>2
  <2>4. \A c \in Bits \ {b} : counted.refcount[c] = r.refcount[c]
    BY <1>4, <2>2
  <2>5. counted.refcount \in [Bits -> Nat]
    BY <1>1, <1>2, <1>4, <2>1, <2>2
  <2> QED
    BY <1>1, <1>3, <1>4, <2>3, <2>4, <2>5
<1>7. {EnableBit[q] : q \in U \cup {p}} = r.en \cup {b}
  <2>1. r.en = {EnableBit[q] : q \in U}
    BY <1>4
  <2> QED
    BY <2>1
<1>8. e = IF counted.refcount[b] > 1 THEN counted
          ELSE [counted EXCEPT !.en = @ \cup {b}, !.fresh = @ \cup Sharing(b)]
  BY DEF enable_and_reset, counted
<1> HIDE DEF e
<1>9. CASE counted.refcount[b] > 1
  <2>1. n > 0 /\ Sharing(b) \cap U # {}
    BY <1>2, <1>6, <1>9
  <2>2. r.en \cup {b} = r.en
    BY <1>2, <1>4, <2>1
  <2>3. e = counted
    BY <1>8, <1>9
  <2>4. e \in Clocks
    BY <1>4, <1>5, <1>6, <2>3 DEF Clocks
  <2>5. e.en = {EnableBit[q] : q \in U \cup {p}} /\ e.fresh = r.fresh
    BY <1>5, <1>7, <2>2, <2>3
  <2>6. Counts(e, U \cup {p})
    BY <1>6, <2>3, <2>4, <2>5 DEF Counts
  <2> QED
    BY <2>5, <2>6 DEF e
<1>10. CASE ~(counted.refcount[b] > 1)
  <2>1. Sharing(b) \cap U = {}
    BY <1>1, <1>2, <1>6, <1>10
  <2>2. e = [en |-> r.en \cup {b}, fresh |-> r.fresh \cup Sharing(b), refcount |-> counted.refcount]
    <3>1. e = [counted EXCEPT !.en = @ \cup {b}, !.fresh = @ \cup Sharing(b)]
      BY <1>8, <1>10
    <3> QED
      BY <1>5, <3>1
  <2>3. e \in Clocks
    BY <1>1, <1>4, <1>6, <2>2 DEF Clocks
  <2>4. Counts(e, U \cup {p})
    BY <1>6, <1>7, <2>2, <2>3 DEF Counts
  <2> QED
    BY <2>1, <2>2, <2>4 DEF e
<1> QED
  BY <1>9, <1>10

LEMMA Disables ==
  ASSUME NEW r, NEW U \in SUBSET Peripheral, NEW p \in U, Counts(r, U)
  PROVE  Counts(disable(r, p), U \ {p}) /\ disable(r, p).fresh = r.fresh
<1> DEFINE b == EnableBit[p]
           n == Cardinality(Sharing(b) \cap (U \ {p}))
           counted == [r EXCEPT !.refcount[b] = IF needs_refcount(b) THEN @ - 1 ELSE @]
           e == disable(r, p)
<1>1. /\ b \in Bits /\ p \in Sharing(b)
      /\ \A c \in Bits \ {b} : Sharing(c) \cap (U \ {p}) = Sharing(c) \cap U
      /\ ~needs_refcount(b) => Sharing(b) = {p}
      /\ Sharing(b) \subseteq Peripheral
  BY Sharers
<1>2. n \in Nat /\ (n = 0 <=> Sharing(b) \cap (U \ {p}) = {})
      /\ (b \in {EnableBit[q] : q \in U \ {p}} <=> Sharing(b) \cap (U \ {p}) # {})
  BY <1>1, Users
<1>3. Cardinality(Sharing(b) \cap U) = n + 1
  <2>1. Sharing(b) \cap U = (Sharing(b) \cap (U \ {p})) \cup {p} /\ p \notin Sharing(b) \cap (U \ {p})
    BY <1>1
  <2>2. IsFiniteSet(Sharing(b) \cap (U \ {p}))
    BY FinitePeripheral
  <2> QED
    BY <2>1, <2>2, FS_AddElement
<1>4. /\ r.en = {EnableBit[q] : q \in U} /\ r.en \subseteq Bits /\ r.fresh \subseteq Peripheral
      /\ r.refcount \in [Bits -> Nat]
      /\ \A c \in Bits : r.refcount[c] = IF needs_refcount(c) THEN Cardinality(Sharing(c) \cap U) ELSE 0
      /\ r = [en |-> r.en, refcount |-> r.refcount, fresh |-> r.fresh]
  BY DEF Counts, Clocks
<1>5. counted = [en |-> r.en, fresh |-> r.fresh,
                 refcount |-> [r.refcount EXCEPT ![b] = IF needs_refcount(b) THEN @ - 1 ELSE @]]
  <2> DEFINE x == [r.refcount EXCEPT ![b] = IF needs_refcount(b) THEN @ - 1 ELSE @]
  <2>1. counted = [r EXCEPT !.refcount = x]
    OBVIOUS
  <2> HIDE DEF x, counted
  <2>2. counted = [en |-> r.en, fresh |-> r.fresh, refcount |-> x]
    BY <1>4, <2>1
  <2> QED
    BY <2>2 DEF x
<1> HIDE DEF counted, n
<1>6. /\ counted.refcount \in [Bits -> Nat]
      /\ \A c \in Bits : counted.refcount[c] =
           IF needs_refcount(c) THEN Cardinality(Sharing(c) \cap (U \ {p})) ELSE 0
      /\ counted.refcount[b] = IF needs_refcount(b) THEN n ELSE 0
  <2>1. r.refcount[b] = IF needs_refcount(b) THEN n + 1 ELSE 0
    BY <1>1, <1>3, <1>4
  <2>2. counted.refcount = [r.refcount EXCEPT ![b] = IF needs_refcount(b) THEN @ - 1 ELSE @]
    BY <1>5
  <2>3. counted.refcount[b] = IF needs_refcount(b) THEN n ELSE 0
    BY <1>1, <1>2, <1>4, <2>1, <2>2
  <2>4. \A c \in Bits \ {b} : counted.refcount[c] = r.refcount[c]
    BY <1>4, <2>2
  <2>5. counted.refcount \in [Bits -> Nat]
    BY <1>1, <1>2, <1>4, <2>1, <2>2
  <2>6. n = Cardinality(Sharing(b) \cap (U \ {p}))
    BY DEF n
  <2> QED
    BY <1>1, <1>4, <2>3, <2>4, <2>5, <2>6
<1>7. {EnableBit[q] : q \in U \ {p}} = IF Sharing(b) \cap (U \ {p}) = {} THEN r.en \ {b} ELSE r.en
  BY <1>4 DEF Sharing
<1>8. e = IF counted.refcount[b] > 0 THEN counted ELSE [counted EXCEPT !.en = @ \ {b}]
  BY DEF disable, counted
<1> HIDE DEF e
<1>9. CASE counted.refcount[b] > 0
  <2>1. Sharing(b) \cap (U \ {p}) # {}
    BY <1>2, <1>6, <1>9
  <2>2. e = counted
    BY <1>8, <1>9
  <2>3. e \in Clocks
    BY <1>4, <1>5, <1>6, <2>2 DEF Clocks
  <2>4. e.en = {EnableBit[q] : q \in U \ {p}} /\ e.fresh = r.fresh
    BY <1>5, <1>7, <2>1, <2>2
  <2>5. Counts(e, U \ {p})
    BY <1>6, <2>2, <2>3, <2>4 DEF Counts
  <2> QED
    BY <2>4, <2>5 DEF e
<1>10. CASE ~(counted.refcount[b] > 0)
  <2>1. Sharing(b) \cap (U \ {p}) = {}
    BY <1>1, <1>2, <1>6, <1>10
  <2>2. e = [en |-> r.en \ {b}, fresh |-> r.fresh, refcount |-> counted.refcount]
    <3>1. e = [counted EXCEPT !.en = @ \ {b}]
      BY <1>8, <1>10
    <3> QED
      BY <1>5, <3>1
  <2>3. e \in Clocks
    BY <1>4, <1>6, <2>2 DEF Clocks
  <2>4. Counts(e, U \ {p})
    BY <1>6, <1>7, <2>1, <2>2, <2>3 DEF Counts
  <2> QED
    BY <2>2, <2>4 DEF e
<1> QED
  BY <1>9, <1>10

-------------------------------------------------------------------------------
(* The parts that exist, and what they hold.                               *)

Always == {"DBGMCU", "TIMDRV", "FLASH"}
UsedBy(parts) == {PeripheralOf[h] : h \in {g \in Parts : parts[g] # "none"}} \cup Always
Used == UsedBy(live)

One(there) == IF there THEN 1 ELSE 0

PartTypes ==
  /\ live \in [Parts -> {"none", "plain", "buffered", "ring", "simple_pwm", "leaked"}]
  /\ \A h \in Parts \ Halves : live[h] # "buffered"
  /\ live.tx = "buffered" => live.rx \in {"none", "buffered"}
  /\ live.rx = "buffered" => live.tx \in {"none", "buffered"}
  /\ doing \in DOMAIN Kinds \cup {"none"}
  /\ doing # "none" => \A h \in DOMAIN Kinds[doing] : Holding(PeripheralOf[h]) = {}

\* Each half is counted once, where it belongs.
HalvesInv ==
  /\ refs \in [plain : Nat, buffered : Nat]
  /\ refs.buffered = One(live.tx = "buffered") + One(live.rx = "buffered")
  /\ refs.plain = One(live.tx \notin {"none", "buffered"}) + One(live.rx \notin {"none", "buffered"})
  /\ uart \in [ue : BOOLEAN, failed : BOOLEAN, bufs : SUBSET Halves]
  /\ uart.bufs = {h \in Halves : live[h] = "buffered"}
  /\ InterruptServed

\* The registers of a part in use hold what its driver wrote.
GatesInv == Counts(rcc, Used) /\ Used \cap rcc.fresh = {}

PartsInv == PartTypes /\ HalvesInv /\ GatesInv

LEMMA GatesStay == ASSUME GatesInv, rcc' = rcc, Used' = Used PROVE GatesInv'
  BY DEF GatesInv, Counts

LEMMA HeldBy ==
  /\ Holding("USART") = {} <=> live.tx = "none" /\ live.rx = "none"
  /\ Holding("I2C") = {} <=> live.i2c = "none"
  /\ Holding("ADC") = {} <=> live.adc = "none"
  /\ Holding("TIM") = {} <=> live.timer = "none"
  /\ Holding("DBGMCU") = {} <=> live.mco = "none"
  /\ Holding("TIMDRV") = {} /\ Holding("FLASH") = {}
  /\ Holding("USART") = {h \in Halves : live[h] # "none"}
  BY DEF Holding, Parts, PeripheralOf, Halves

LEMMA InUse ==
  ASSUME NEW parts
  PROVE  /\ UsedBy(parts) = Always
              \cup (IF parts.tx = "none" /\ parts.rx = "none" THEN {} ELSE {"USART"})
              \cup (IF parts.i2c = "none" THEN {} ELSE {"I2C"})
              \cup (IF parts.adc = "none" THEN {} ELSE {"ADC"})
              \cup (IF parts.timer = "none" THEN {} ELSE {"TIM"})
         /\ UsedBy(parts) \in SUBSET Peripheral
<1>1. {PeripheralOf[h] : h \in {g \in Parts : parts[g] # "none"}} =
        (IF parts.tx = "none" /\ parts.rx = "none" THEN {} ELSE {"USART"})
        \cup (IF parts.i2c = "none" THEN {} ELSE {"I2C"})
        \cup (IF parts.adc = "none" THEN {} ELSE {"ADC"})
        \cup (IF parts.timer = "none" THEN {} ELSE {"TIM"})
        \cup (IF parts.mco = "none" THEN {} ELSE {"DBGMCU"})
  BY DEF Parts, PeripheralOf
<1> QED
  BY <1>1, DriversAssumption DEF UsedBy, Always

LEMMA OneMore ==
  ASSUME NEW a, NEW b, a.tx = b.tx, a.rx = b.rx
  PROVE  /\ a.i2c = "none" /\ b.i2c # "none" /\ a.adc = b.adc /\ a.timer = b.timer =>
              "I2C" \notin UsedBy(a) /\ UsedBy(b) = UsedBy(a) \cup {"I2C"}
         /\ a.adc = "none" /\ b.adc # "none" /\ a.i2c = b.i2c /\ a.timer = b.timer =>
              "ADC" \notin UsedBy(a) /\ UsedBy(b) = UsedBy(a) \cup {"ADC"}
         /\ a.timer = "none" /\ b.timer # "none" /\ a.i2c = b.i2c /\ a.adc = b.adc =>
              "TIM" \notin UsedBy(a) /\ UsedBy(b) = UsedBy(a) \cup {"TIM"}
  BY InUse DEF Always

LEMMA HalvesCounted ==
  ASSUME NEW S \in SUBSET Halves
  PROVE  Cardinality(S) = One("tx" \in S) + One("rx" \in S)
<1>1. S \in {{}, {"tx"}, {"rx"}, {"tx", "rx"}}
  BY DEF Halves
<1>2. Cardinality({}) = 0 /\ Cardinality({"tx"}) = 1 /\ Cardinality({"rx"}) = 1
      /\ IsFiniteSet({"tx"})
  BY FS_EmptySet, FS_Singleton
<1>3. Cardinality({"tx", "rx"}) = 2
  <2>1. {"tx", "rx"} = {"tx"} \cup {"rx"} /\ "rx" \notin {"tx"}
    OBVIOUS
  <2>2. Cardinality({"tx"} \cup {"rx"}) = Cardinality({"tx"}) + 1
    BY <1>2, <2>1, FS_AddElement
  <2> QED
    BY <1>2, <2>1, <2>2
<1> QED
  BY <1>1, <1>2, <1>3 DEF One

\* The parts keep their drivers while the pins are written.
LEMMA PartsStay ==
  ASSUME PartsInv, UNCHANGED <<live, rcc, refs, uart, irq>>,
         doing' = doing \/ (doing' \in DOMAIN Kinds /\
           \A h \in DOMAIN Kinds[doing'] : Holding(PeripheralOf[h]) = {})
  PROVE  PartsInv'
<1>1. Used' = Used /\ (\A p : Holding(p)' = Holding(p))
  BY DEF Used, UsedBy, Holding
<1>2. PartTypes'
  <2>1. \A p : {h \in Parts : live'[h] # "none" /\ PeripheralOf[h] = p} =
               {h \in Parts : live[h] # "none" /\ PeripheralOf[h] = p}
    OBVIOUS
  <2> QED
    BY <2>1 DEF PartsInv, PartTypes, Holding
<1>3. HalvesInv'
  BY DEF PartsInv, HalvesInv, InterruptServed
<1>4. GatesInv'
  BY <1>1 DEF PartsInv, GatesInv, Counts
<1> QED
  BY <1>2, <1>3, <1>4 DEF PartsInv

\* A part is made, and its peripheral switched on.
LEMMA Configures ==
  ASSUME GatesInv, NEW p \in Peripheral \ Used, rcc' = Configured(p), Used' = Used \cup {p}
  PROVE  GatesInv'
<1> DEFINE e == enable_and_reset(rcc, p)
<1>1. Used \in SUBSET Peripheral
  BY InUse DEF Used
<1>2. Counts(e, Used \cup {p})
      /\ \/ e.fresh = rcc.fresh
         \/ e.fresh = rcc.fresh \cup Sharing(EnableBit[p]) /\ Sharing(EnableBit[p]) \cap Used = {}
  <2>1. Counts(rcc, Used)
    BY DEF GatesInv
  <2> QED
    BY <1>1, <2>1, Enables, Zenon
<1> HIDE DEF e
<1>3. e \in Clocks
  BY <1>2 DEF Counts
<1>4. rcc' = [e EXCEPT !.fresh = @ \ {p}]
  BY DEF Configured, e
<1>5. rcc' = [en |-> e.en, refcount |-> e.refcount, fresh |-> e.fresh \ {p}]
  BY <1>3, <1>4 DEF Clocks
<1>6. Counts(rcc', Used \cup {p})
  BY <1>2, <1>5 DEF Counts, Clocks
<1>7. (Used \cup {p}) \cap rcc'.fresh = {}
  BY <1>2, <1>5 DEF GatesInv
<1> QED
  BY <1>6, <1>7 DEF GatesInv, Counts

LEMMA Releases ==
  ASSUME GatesInv, NEW p \in Used, rcc' = disable(rcc, p), Used' = Used \ {p}
  PROVE  GatesInv'
<1>1. Used \in SUBSET Peripheral
  BY InUse DEF Used
<1>2. Counts(rcc', Used \ {p}) /\ rcc'.fresh = rcc.fresh
  BY <1>1, Disables DEF GatesInv
<1> QED
  BY <1>2 DEF GatesInv, Counts

\* A constructor that fails switches its peripheral on and off again.
LEMMA Fails ==
  ASSUME GatesInv, NEW p \in Peripheral \ Used, rcc' = disable(Configured(p), p), Used' = Used
  PROVE  GatesInv'
<1> DEFINE e == enable_and_reset(rcc, p)
           f == Configured(p)
<1>1. Used \in SUBSET Peripheral
  BY InUse DEF Used
<1>2. Counts(e, Used \cup {p})
      /\ \/ e.fresh = rcc.fresh
         \/ e.fresh = rcc.fresh \cup Sharing(EnableBit[p]) /\ Sharing(EnableBit[p]) \cap Used = {}
  <2>1. Counts(rcc, Used)
    BY DEF GatesInv
  <2> QED
    BY <1>1, <2>1, Enables, Zenon
<1>3. f = [e EXCEPT !.fresh = @ \ {p}]
  BY DEF Configured
<1> HIDE DEF e, f
<1>4. e \in Clocks
  BY <1>2 DEF Counts
<1>5. f = [en |-> e.en, refcount |-> e.refcount, fresh |-> e.fresh \ {p}]
  BY <1>3, <1>4 DEF Clocks
<1>6. Counts(f, Used \cup {p})
  BY <1>2, <1>5 DEF Counts, Clocks
<1>7. Used \cup {p} \in SUBSET Peripheral /\ (Used \cup {p}) \ {p} = Used
  BY <1>1
<1>8. Counts(disable(f, p), Used) /\ disable(f, p).fresh = f.fresh
  <2>1. p \in Used \cup {p}
    OBVIOUS
  <2>2. Counts(disable(f, p), (Used \cup {p}) \ {p}) /\ disable(f, p).fresh = f.fresh
    BY <1>6, <1>7, <2>1, Disables
  <2> QED
    BY <1>7, <2>2
<1>9. Used \cap f.fresh = {}
  BY <1>2, <1>5 DEF GatesInv
<1> QED
  BY <1>8, <1>9 DEF GatesInv, Counts, f

LEMMA UartConfigured == ASSUME PartsInv, uart_configured PROVE PartsInv'
<1> DEFINE D == DOMAIN Kinds[doing]
           buffered == doing \in DOMAIN BufferedKinds
           as == IF buffered THEN "buffered" ELSE "plain"
<1>1. /\ doing \in DOMAIN Kinds /\ D \in {{"tx"}, {"rx"}, {"tx", "rx"}}
      /\ buffered => D = {"tx", "rx"}
      /\ doing # "none"
  BY KindNames, KindFacts DEF uart_configured
<1>2. live.tx = "none" /\ live.rx = "none"
  <2>1. Holding("USART") = {}
    BY <1>1 DEF PartsInv, PartTypes, PeripheralOf
  <2> QED
    BY <2>1, HeldBy
<1>3. /\ refs' = [refs EXCEPT ![as] = UartRefs(doing)]
      /\ uart' = [ue |-> TRUE, failed |-> FALSE, bufs |-> IF buffered THEN {"tx", "rx"} ELSE uart.bufs]
      /\ live' = [h \in Parts |-> IF h \in D THEN as ELSE live[h]]
      /\ rcc' = Configured("USART")
      /\ irq' = irq \cup (IF "rx" \in D THEN {"USART"} ELSE {})
      /\ doing' = "none"
  BY DEF uart_configured, Alive
<1>4. UartRefs(doing) = One("tx" \in D) + One("rx" \in D)
  BY <1>1, HalvesCounted DEF UartRefs, Halves
<1> HIDE DEF D, buffered
<1>5. /\ live'.tx = (IF "tx" \in D THEN as ELSE "none") /\ live'.rx = (IF "rx" \in D THEN as ELSE "none")
      /\ \A h \in Parts \ Halves : live'[h] = live[h]
      /\ live' \in [Parts -> {"none", "plain", "buffered", "ring", "simple_pwm", "leaked"}]
  BY <1>1, <1>2, <1>3 DEF Parts, Halves, PartsInv, PartTypes
<1>6. PartTypes'
  BY <1>1, <1>3, <1>5 DEF PartsInv, PartTypes
<1>7. HalvesInv'
  <2>1. /\ refs \in [plain : Nat, buffered : Nat] /\ refs.plain = 0 /\ refs.buffered = 0
        /\ uart.bufs = {}
    BY <1>2 DEF PartsInv, HalvesInv, One, Halves
  <2>2. CASE buffered
    BY <1>1, <1>3, <1>4, <1>5, <2>1, <2>2 DEF HalvesInv, One, Halves, InterruptServed
  <2>3. CASE ~buffered
    BY <1>1, <1>3, <1>4, <1>5, <2>1, <2>3 DEF HalvesInv, One, Halves, InterruptServed
  <2> QED
    BY <2>2, <2>3
<1>8. GatesInv'
  <2>1. "USART" \notin Used /\ Used' = Used \cup {"USART"} /\ "USART" \in Peripheral
    BY <1>1, <1>2, <1>5, InUse, DriversAssumption DEF Used, Always, Parts, Halves
  <2> QED
    BY <1>3, <2>1, Configures DEF PartsInv
<1> QED
  BY <1>6, <1>7, <1>8 DEF PartsInv

LEMMA UartRefused == ASSUME PartsInv, uart_refused PROVE PartsInv'
<1> DEFINE D == DOMAIN Kinds[doing]
           buffered == doing \in DOMAIN BufferedKinds
           as == IF buffered THEN "buffered" ELSE "plain"
<1>1. doing \in DOMAIN Kinds /\ D \in {{"tx"}, {"rx"}, {"tx", "rx"}} /\ doing # "none"
  BY KindNames, KindFacts DEF uart_refused
<1>2. live.tx = "none" /\ live.rx = "none"
  <2>1. Holding("USART") = {}
    BY <1>1 DEF PartsInv, PartTypes, PeripheralOf
  <2> QED
    BY <2>1, HeldBy
<1>3. UartRefs(doing) = One("tx" \in D) + One("rx" \in D)
  BY <1>1, HalvesCounted DEF UartRefs, Halves
<1>4. UartRefs(doing) - Cardinality(D) = 0
  BY <1>3 DEF UartRefs, One
<1>5. /\ refs' = [refs EXCEPT ![as] = 0]
      /\ uart' = [ue |-> FALSE, failed |-> FALSE, bufs |-> {}]
      /\ rcc' = disable(Configured("USART"), "USART")
      /\ live' = live /\ doing' = "none"
  BY <1>4 DEF uart_refused
<1> HIDE DEF D, buffered
<1>6. PartTypes'
  BY <1>5 DEF PartsInv, PartTypes
<1>7. HalvesInv'
  BY <1>2, <1>5 DEF PartsInv, HalvesInv, One, Halves, InterruptServed
<1>8. GatesInv'
  <2>1. "USART" \notin Used /\ "USART" \in Peripheral /\ Used' = Used
    BY <1>2, <1>5, InUse, DriversAssumption DEF Used, Always
  <2> QED
    BY <1>5, <2>1, Fails DEF PartsInv
<1> QED
  BY <1>6, <1>7, <1>8 DEF PartsInv

LEMMA HalfDropped == ASSUME PartsInv, NEW h \in Halves, drop_tx_rx(h) PROVE PartsInv'
<1> DEFINE buffered == live[h] = "buffered"
           state == IF buffered THEN "buffered" ELSE "plain"
           k == IF h = "tx" THEN "rx" ELSE "tx"
<1>1. /\ doing = "none" /\ live[h] # "none" /\ doing' = doing
      /\ refs' = [refs EXCEPT ![state] = @ - 1]
      /\ rcc' = IF refs[state] = 1 THEN disable(rcc, "USART") ELSE rcc
      /\ uart' = IF buffered THEN [uart EXCEPT !.bufs = @ \ {h}] ELSE uart
      /\ irq' = IF buffered /\ uart.bufs \ {h} = {} THEN irq \ {"USART"} ELSE irq
      /\ live' = [live EXCEPT ![h] = "none"]
  BY DEF drop_tx_rx, Idle, last_drop, buffered_inactive
<1>2. /\ live'[h] = "none" /\ (\A g \in Parts \ {h} : live'[g] = live[g])
      /\ live' \in [Parts -> {"none", "plain", "buffered", "ring", "simple_pwm", "leaked"}]
      /\ Halves \subseteq Parts /\ Halves = {h, k} /\ h # k
  BY <1>1 DEF PartsInv, PartTypes, Parts, Halves
<1> DEFINE Others == live'.i2c = live.i2c /\ live'.adc = live.adc /\ live'.timer = live.timer
<1>9. /\ \/ h = "tx" /\ k = "rx" /\ live'.tx = "none" /\ live'.rx = live.rx
         \/ h = "rx" /\ k = "tx" /\ live'.rx = "none" /\ live'.tx = live.tx
      /\ Others
  <2>1. CASE h = "tx"
    BY <1>2, <2>1 DEF Parts
  <2>2. CASE h = "rx"
    BY <1>2, <2>2 DEF Parts
  <2> QED
    BY <2>1, <2>2 DEF Halves
<1>3. /\ buffered => live[k] \in {"none", "buffered"}
      /\ live[k] = "buffered" => buffered
  BY <1>1 DEF PartsInv, PartTypes, Halves
<1>4. PartTypes'
  BY <1>1, <1>2 DEF PartsInv, PartTypes, Halves
<1>5. /\ refs \in [plain : Nat, buffered : Nat]
      /\ refs.buffered = One(live[h] = "buffered") + One(live[k] = "buffered")
      /\ refs.plain = One(live[h] \notin {"none", "buffered"}) + One(live[k] \notin {"none", "buffered"})
      /\ uart \in [ue : BOOLEAN, failed : BOOLEAN, bufs : SUBSET Halves]
      /\ uart.bufs = {g \in Halves : live[g] = "buffered"}
  BY DEF PartsInv, HalvesInv, Halves, One
<1>6. refs[state] = 1 <=> live[k] = "none"
  BY <1>1, <1>3, <1>5 DEF One
<1>7. HalvesInv'
  <2>1. /\ refs' \in [plain : Nat, buffered : Nat]
        /\ refs'.buffered = One(live'[h] = "buffered") + One(live'[k] = "buffered")
        /\ refs'.plain = One(live'[h] \notin {"none", "buffered"}) + One(live'[k] \notin {"none", "buffered"})
    BY <1>1, <1>2, <1>5 DEF One
  <2>2. /\ uart' \in [ue : BOOLEAN, failed : BOOLEAN, bufs : SUBSET Halves]
        /\ uart'.bufs = {g \in Halves : live'[g] = "buffered"}
        /\ uart'.ue = uart.ue /\ uart'.failed = uart.failed
    BY <1>1, <1>2, <1>5
  <2>3. InterruptServed'
    <3>1. ~uart.failed => /\ live.rx # "none" => uart.ue /\ "USART" \in irq
                          /\ live.tx = "buffered" => uart.ue /\ "USART" \in irq
      BY DEF PartsInv, HalvesInv, InterruptServed
    <3>2. irq' = irq \/ (live'.tx # "buffered" /\ live'.rx = "none")
      <4>1. CASE buffered /\ uart.bufs \ {h} = {}
        <5>1. k \notin uart.bufs
          BY <1>2, <4>1
        <5>2. live[k] = "none"
          BY <1>2, <1>3, <1>5, <4>1, <5>1
        <5> QED
          BY <1>9, <5>2
      <4>2. CASE ~(buffered /\ uart.bufs \ {h} = {})
        BY <1>1, <4>2
      <4> QED
        BY <4>1, <4>2
    <3>3. (live'.rx # "none" => live.rx # "none") /\ (live'.tx = "buffered" => live.tx = "buffered")
      BY <1>9
    <3> QED
      BY <2>2, <3>1, <3>2, <3>3 DEF InterruptServed
  <2>4. refs'.buffered = One(live'.tx = "buffered") + One(live'.rx = "buffered")
        /\ refs'.plain = One(live'.tx \notin {"none", "buffered"}) + One(live'.rx \notin {"none", "buffered"})
    BY <2>1 DEF Halves, One
  <2> QED
    BY <2>1, <2>2, <2>3, <2>4 DEF HalvesInv
<1>8. GatesInv'
  <2>1. CASE live[k] = "none"
    <3>1. "USART" \in Used /\ Used' = Used \ {"USART"}
      <4>1. ~(live.tx = "none" /\ live.rx = "none") /\ live'.tx = "none" /\ live'.rx = "none"
        BY <1>1, <1>9, <2>1
      <4> HIDE DEF k
      <4> QED
        BY <1>9, <4>1, InUse DEF Used, Always
    <3> QED
      BY <1>1, <1>6, <2>1, <3>1, Releases DEF PartsInv
  <2>2. CASE live[k] # "none"
    <3>1. Used' = Used
      BY <1>9, <2>2, InUse DEF Used, Always
    <3> QED
      BY <1>1, <1>6, <2>2, <3>1 DEF PartsInv, GatesInv, Counts
  <2> QED
    BY <2>1, <2>2
<1> QED
  BY <1>4, <1>7, <1>8 DEF PartsInv

\* The halves of the UART are left alone.
LEMMA HalvesStay ==
  ASSUME PartsInv, UNCHANGED <<refs, uart>>, live'.tx = live.tx, live'.rx = live.rx,
         irq' = irq \/ irq \subseteq irq'
  PROVE  HalvesInv'
<1>1. \A h \in Halves : live'[h] = live[h]
  BY DEF Halves
<1>2. InterruptServed'
  BY DEF PartsInv, HalvesInv, InterruptServed
<1> QED
  BY <1>1, <1>2 DEF PartsInv, HalvesInv

LEMMA IntoRing == ASSUME PartsInv, NEW h \in Parts, into_ring_buffered(h) PROVE PartsInv'
<1>1. /\ doing = "none" /\ doing' = "none" /\ live[h] = "plain" /\ live' = [live EXCEPT ![h] = "ring"]
      /\ h \in {"rx", "adc"}
      /\ UNCHANGED <<rcc, refs, uart, irq>>
  BY DEF into_ring_buffered, Idle
<1>2. /\ live'[h] = "ring" /\ (\A g \in Parts \ {h} : live'[g] = live[g])
      /\ live' \in [Parts -> {"none", "plain", "buffered", "ring", "simple_pwm", "leaked"}]
  BY <1>1 DEF PartsInv, PartTypes
<1>3. \A g \in Parts : (live'[g] = "none" <=> live[g] = "none")
                    /\ (live'[g] = "buffered" <=> live[g] = "buffered")
  BY <1>1, <1>2
<1>4. PartTypes'
  BY <1>1, <1>2, <1>3 DEF PartsInv, PartTypes, Halves, Parts
<1>5. HalvesInv'
  <2>1. /\ live'.tx = "none" <=> live.tx = "none"
        /\ live'.tx = "buffered" <=> live.tx = "buffered"
        /\ live'.rx = "none" <=> live.rx = "none"
        /\ live'.rx = "buffered" <=> live.rx = "buffered"
    BY <1>3 DEF Parts
  <2>2. {g \in Halves : live'[g] = "buffered"} = {g \in Halves : live[g] = "buffered"}
    BY <1>3 DEF Halves, Parts
  <2> QED
    BY <1>1, <2>1, <2>2 DEF PartsInv, HalvesInv, InterruptServed, One
<1>6. GatesInv'
  <2>1. Used' = Used
    BY <1>3 DEF Used, UsedBy
  <2> QED
    BY <1>1, <2>1, GatesStay DEF PartsInv
<1> QED
  BY <1>4, <1>5, <1>6 DEF PartsInv

LEMMA ConfigSet == ASSUME PartsInv, NEW h \in Parts, set_config(h) PROVE PartsInv'
<1>1. /\ doing' = doing /\ live' = live /\ UNCHANGED <<rcc, refs>>
      /\ \/ uart' = [uart EXCEPT !.ue = TRUE, !.failed = FALSE] /\ irq' = irq \cup {"USART"}
         \/ uart' = [uart EXCEPT !.ue = FALSE, !.failed = TRUE] /\ irq' = irq \ {"USART"}
  BY DEF set_config
<1>2. PartTypes' /\ GatesInv'
  <2>1. Used' = Used
    BY <1>1 DEF Used
  <2>2. \A p : {g \in Parts : live'[g] # "none" /\ PeripheralOf[g] = p} =
               {g \in Parts : live[g] # "none" /\ PeripheralOf[g] = p}
    BY <1>1
  <2> QED
    BY <1>1, <2>1, <2>2 DEF PartsInv, PartTypes, GatesInv, Counts, Holding
<1>3. HalvesInv'
  <2>1. uart \in [ue : BOOLEAN, failed : BOOLEAN, bufs : SUBSET Halves]
    BY DEF PartsInv, HalvesInv
  <2>2. /\ uart' \in [ue : BOOLEAN, failed : BOOLEAN, bufs : SUBSET Halves]
        /\ uart'.bufs = uart.bufs
        /\ uart'.failed \/ (uart'.ue /\ "USART" \in irq')
    BY <1>1, <2>1
  <2> QED
    BY <1>1, <2>2 DEF PartsInv, HalvesInv, InterruptServed
<1> QED
  BY <1>2, <1>3 DEF PartsInv

\* A part outside the UART comes, or goes.
LEMMA PartComes ==
  ASSUME PartsInv, NEW h \in {"i2c", "adc", "timer"}, live[h] = "none",
         NEW as \in {"plain", "simple_pwm"}, live' = [live EXCEPT ![h] = as],
         rcc' = Configured(PeripheralOf[h]), UNCHANGED <<refs, uart>>, irq \subseteq irq',
         doing' = "none"
  PROVE  PartsInv'
<1>1. /\ live'[h] = as /\ (\A g \in Parts \ {h} : live'[g] = live[g])
      /\ live' \in [Parts -> {"none", "plain", "buffered", "ring", "simple_pwm", "leaked"}]
      /\ live'.tx = live.tx /\ live'.rx = live.rx /\ live'.mco = live.mco
  BY DEF PartsInv, PartTypes, Parts
<1>2. PartTypes'
  BY <1>1 DEF PartsInv, PartTypes, Parts, Halves
<1>3. HalvesInv'
  BY <1>1, HalvesStay
<1>4. GatesInv'
  <2>1. CASE h = "i2c"
    <3>1. live'.i2c # "none" /\ live'.adc = live.adc /\ live'.timer = live.timer
      BY <1>1, <2>1 DEF Parts
    <3> QED
      <4>1. "I2C" \in Peripheral \ Used /\ Used' = Used \cup {"I2C"}
        <5>1. live.i2c = "none" /\ live'.tx = live.tx /\ live'.rx = live.rx
          BY <1>1, <2>1
        <5>2. "I2C" \notin Used /\ Used' = Used \cup {"I2C"}
          BY <3>1, <5>1, OneMore DEF Used
        <5>3. "I2C" \in Peripheral
          BY DriversAssumption
        <5> QED
          BY <5>2, <5>3
      <4>2. PeripheralOf[h] = "I2C"
        BY <2>1 DEF PeripheralOf
      <4> QED
        BY <4>1, <4>2, Configures DEF PartsInv
  <2>2. CASE h = "adc"
    <3>1. live'.adc # "none" /\ live'.i2c = live.i2c /\ live'.timer = live.timer
      BY <1>1, <2>2 DEF Parts
    <3> QED
      <4>1. "ADC" \in Peripheral \ Used /\ Used' = Used \cup {"ADC"}
        <5>1. live.adc = "none" /\ live'.tx = live.tx /\ live'.rx = live.rx
          BY <1>1, <2>2
        <5>2. "ADC" \notin Used /\ Used' = Used \cup {"ADC"}
          BY <3>1, <5>1, OneMore DEF Used
        <5>3. "ADC" \in Peripheral
          BY DriversAssumption
        <5> QED
          BY <5>2, <5>3
      <4>2. PeripheralOf[h] = "ADC"
        BY <2>2 DEF PeripheralOf
      <4> QED
        BY <4>1, <4>2, Configures DEF PartsInv
  <2>3. CASE h = "timer"
    <3>1. live'.timer # "none" /\ live'.i2c = live.i2c /\ live'.adc = live.adc
      BY <1>1, <2>3 DEF Parts
    <3> QED
      <4>1. "TIM" \in Peripheral \ Used /\ Used' = Used \cup {"TIM"}
        <5>1. live.timer = "none" /\ live'.tx = live.tx /\ live'.rx = live.rx
          BY <1>1, <2>3
        <5>2. "TIM" \notin Used /\ Used' = Used \cup {"TIM"}
          BY <3>1, <5>1, OneMore DEF Used
        <5>3. "TIM" \in Peripheral
          BY DriversAssumption
        <5> QED
          BY <5>2, <5>3
      <4>2. PeripheralOf[h] = "TIM"
        BY <2>3 DEF PeripheralOf
      <4> QED
        BY <4>1, <4>2, Configures DEF PartsInv
  <2> QED
    BY <2>1, <2>2, <2>3
<1> QED
  BY <1>2, <1>3, <1>4 DEF PartsInv

LEMMA Initialised == ASSUME PartsInv, enable_and_init PROVE PartsInv'
<1> DEFINE D == DOMAIN Kinds[doing]
           h == CHOOSE g \in D : TRUE
           as == IF doing = "simple_pwm" THEN doing ELSE "plain"
<1>1. doing \in DOMAIN Kinds /\ D \in {{"i2c"}, {"adc"}, {"timer"}} /\ doing # "none"
  BY KindNames, KindFacts DEF enable_and_init
<1>2. h \in {"i2c", "adc", "timer"} /\ D = {h}
  BY <1>1
<1>3. live[h] = "none"
  <2>1. Holding(PeripheralOf[h]) = {}
    BY <1>1, <1>2 DEF PartsInv, PartTypes
  <2> QED
    <3>1. PeripheralOf["i2c"] = "I2C" /\ PeripheralOf["adc"] = "ADC" /\ PeripheralOf["timer"] = "TIM"
      BY Zenon DEF PeripheralOf
    <3> HIDE DEF h
    <3> QED
      BY <1>2, <2>1, <3>1, HeldBy
<1>4. /\ rcc' = Configured(PeripheralOf[h]) /\ doing' = "none" /\ UNCHANGED <<refs, uart>>
      /\ irq \subseteq irq'
      /\ live' = [g \in Parts |-> IF g \in D THEN as ELSE live[g]]
  BY DEF enable_and_init, Alive
<1> HIDE DEF D, h
<1>5. live' = [live EXCEPT ![h] = as]
  BY <1>2, <1>4 DEF PartsInv, PartTypes
<1>6. as \in {"plain", "simple_pwm"}
  OBVIOUS
<1> QED
  BY <1>2, <1>3, <1>4, <1>5, <1>6, PartComes

LEMMA McoStarted == ASSUME PartsInv, mco_started PROVE PartsInv'
<1>1. /\ doing' = "none" /\ UNCHANGED <<rcc, refs, uart, irq>>
      /\ live' = [g \in Parts |-> IF g \in {"mco"} THEN "plain" ELSE live[g]]
  BY KindNames DEF mco_started, Alive
<1>2. /\ (\A g \in Parts \ {"mco"} : live'[g] = live[g]) /\ live'.mco = "plain"
      /\ live' \in [Parts -> {"none", "plain", "buffered", "ring", "simple_pwm", "leaked"}]
      /\ live'.tx = live.tx /\ live'.rx = live.rx /\ live'.i2c = live.i2c
      /\ live'.adc = live.adc /\ live'.timer = live.timer
  BY <1>1 DEF PartsInv, PartTypes, Parts
<1>3. PartTypes'
  BY <1>1, <1>2 DEF PartsInv, PartTypes, Parts, Halves
<1>4. HalvesInv'
  BY <1>1, <1>2, HalvesStay
<1>5. GatesInv'
  <2>1. Used' = Used
    BY <1>2, InUse DEF Used
  <2> QED
    BY <1>1, <2>1, GatesStay DEF PartsInv
<1> QED
  BY <1>3, <1>4, <1>5 DEF PartsInv

LEMMA Dropped == ASSUME PartsInv, NEW h \in Parts, drop(h) PROVE PartsInv'
<1>1. /\ h \in {"i2c", "adc", "timer", "mco"} /\ live[h] # "none" /\ doing = "none" /\ doing' = doing
      /\ rcc' = IF h = "mco" THEN rcc ELSE disable(rcc, PeripheralOf[h])
      /\ live' = [live EXCEPT ![h] = "none"] /\ UNCHANGED <<refs, uart, irq>>
  BY DEF drop, Idle
<1>2. /\ live'[h] = "none" /\ (\A g \in Parts \ {h} : live'[g] = live[g])
      /\ live' \in [Parts -> {"none", "plain", "buffered", "ring", "simple_pwm", "leaked"}]
      /\ live'.tx = live.tx /\ live'.rx = live.rx
  BY <1>1 DEF PartsInv, PartTypes, Parts
<1>3. PartTypes'
  BY <1>1, <1>2 DEF PartsInv, PartTypes, Parts, Halves
<1>4. HalvesInv'
  BY <1>1, <1>2, HalvesStay
<1>5. GatesInv'
  <2>1. CASE h = "i2c"
    <3>1. live'.i2c = "none" /\ live'.adc = live.adc /\ live'.timer = live.timer
      BY <1>2, <2>1 DEF Parts
    <3> QED
      <4>1. "I2C" \in Used /\ Used' = Used \ {"I2C"}
        <5>1. live.i2c # "none" /\ live'.tx = live.tx /\ live'.rx = live.rx
          BY <1>1, <1>2, <2>1
        <5> QED
          BY <3>1, <5>1, OneMore DEF Used
      <4>2. PeripheralOf[h] = "I2C" /\ rcc' = disable(rcc, PeripheralOf[h])
        BY <1>1, <2>1 DEF PeripheralOf
      <4> QED
        BY <4>1, <4>2, Releases DEF PartsInv
  <2>2. CASE h = "adc"
    <3>1. live'.adc = "none" /\ live'.i2c = live.i2c /\ live'.timer = live.timer
      BY <1>2, <2>2 DEF Parts
    <3> QED
      <4>1. "ADC" \in Used /\ Used' = Used \ {"ADC"}
        <5>1. live.adc # "none" /\ live'.tx = live.tx /\ live'.rx = live.rx
          BY <1>1, <1>2, <2>2
        <5> QED
          BY <3>1, <5>1, OneMore DEF Used
      <4>2. PeripheralOf[h] = "ADC" /\ rcc' = disable(rcc, PeripheralOf[h])
        BY <1>1, <2>2 DEF PeripheralOf
      <4> QED
        BY <4>1, <4>2, Releases DEF PartsInv
  <2>3. CASE h = "timer"
    <3>1. live'.timer = "none" /\ live'.i2c = live.i2c /\ live'.adc = live.adc
      BY <1>2, <2>3 DEF Parts
    <3> QED
      <4>1. "TIM" \in Used /\ Used' = Used \ {"TIM"}
        <5>1. live.timer # "none" /\ live'.tx = live.tx /\ live'.rx = live.rx
          BY <1>1, <1>2, <2>3
        <5> QED
          BY <3>1, <5>1, OneMore DEF Used
      <4>2. PeripheralOf[h] = "TIM" /\ rcc' = disable(rcc, PeripheralOf[h])
        BY <1>1, <2>3 DEF PeripheralOf
      <4> QED
        BY <4>1, <4>2, Releases DEF PartsInv
  <2>4. CASE h = "mco"
    <3>1. live'.timer = live.timer /\ live'.i2c = live.i2c /\ live'.adc = live.adc
      BY <1>2, <2>4 DEF Parts
    <3>2. Used' = Used
      BY <1>2, <3>1, InUse DEF Used
    <3> QED
      BY <1>1, <2>4, <3>2 DEF PartsInv, GatesInv, Counts
  <2> QED
    BY <1>1, <2>1, <2>2, <2>3, <2>4
<1> QED
  BY <1>3, <1>4, <1>5 DEF PartsInv

LEMMA Split == ASSUME PartsInv, split_pwm PROVE PartsInv'
<1>1. /\ doing = "none" /\ doing' = doing /\ live.timer = "simple_pwm"
      /\ live' = [live EXCEPT !.timer = "leaked"] /\ UNCHANGED <<rcc, refs, uart, irq>>
  BY DEF split_pwm, Idle
<1>2. /\ (\A g \in Parts \ {"timer"} : live'[g] = live[g]) /\ live'.timer = "leaked"
      /\ live' \in [Parts -> {"none", "plain", "buffered", "ring", "simple_pwm", "leaked"}]
      /\ live'.tx = live.tx /\ live'.rx = live.rx /\ live'.i2c = live.i2c /\ live'.adc = live.adc
  BY <1>1 DEF PartsInv, PartTypes, Parts
<1>3. PartTypes'
  BY <1>1, <1>2 DEF PartsInv, PartTypes, Parts, Halves
<1>4. HalvesInv'
  BY <1>1, <1>2, HalvesStay
<1>5. GatesInv'
  <2>1. \A g \in Parts : live'[g] = "none" <=> live[g] = "none"
    BY <1>1, <1>2
  <2>2. Used' = Used
    BY <2>1 DEF Used, UsedBy
  <2> QED
    BY <1>1, <2>2, GatesStay DEF PartsInv
<1> QED
  BY <1>3, <1>4, <1>5 DEF PartsInv

LEMMA PartsInvStep == PartsInv /\ [Next]_vars => PartsInv'
<1> SUFFICES ASSUME PartsInv, [Next]_vars PROVE PartsInv'
  OBVIOUS
<1>1. ASSUME NEW kind \in DOMAIN Kinds, begin(kind) PROVE PartsInv'
  BY <1>1, PartsStay DEF begin
<1>2. CASE write_pin
  BY <1>2, PartsStay DEF write_pin
<1>3. ASSUME NEW p \in Pin, adc_setup(p) \/ gpio_new(p) \/ set_output(p) \/ gpio_drop(p)
      PROVE  PartsInv'
  BY <1>3, PartsStay DEF adc_setup, gpio_new, set_output, gpio_drop
<1>4. ASSUME NEW h \in Parts, drop_tx_rx(h) PROVE PartsInv'
  BY <1>4, HalfDropped DEF drop_tx_rx, Halves
<1>5. CASE UNCHANGED vars
  BY <1>5, PartsStay DEF vars
<1> QED
  BY <1>1, <1>2, <1>3, <1>4, <1>5, UartConfigured, UartRefused, IntoRing, ConfigSet,
     Initialised, McoStarted, Dropped, Split DEF Next

LEMMA PartsInvInit == Init => PartsInv
<1> SUFFICES ASSUME Init PROVE PartsInv
  OBVIOUS
<1>1. /\ live = [h \in Parts |-> "none"] /\ refs = [plain |-> 0, buffered |-> 0] /\ doing = "none"
      /\ uart = [ue |-> FALSE, failed |-> FALSE, bufs |-> {}]
  BY DEF Init
<1>2. PartTypes
  BY <1>1 DEF PartTypes, Parts, Halves
<1>3. HalvesInv
  BY <1>1 DEF HalvesInv, One, Halves, Parts, InterruptServed
<1> DEFINE r0 == RccInit
           r1 == enable_and_reset(r0, "DBGMCU")
           r2 == enable_and_reset(r1, "TIMDRV")
           r3 == enable_and_reset(r2, "FLASH")
<1>4. Always \subseteq Peripheral /\ Used = Always
  BY <1>1, InUse, DriversAssumption DEF Always, Used, Parts
<1>5. Counts(r0, {})
  <2>1. \A b \in Bits : Cardinality(Sharing(b) \cap {}) = 0
    BY FS_EmptySet
  <2> QED
    BY <2>1 DEF Counts, Clocks, RccInit
<1>6. Counts(r1, {"DBGMCU"})
  <2>1. {} \in SUBSET Peripheral /\ "DBGMCU" \in Peripheral \ {} /\ {} \cup {"DBGMCU"} = {"DBGMCU"}
    BY <1>4 DEF Always
  <2> HIDE DEF r0
  <2> QED
    BY <1>5, <2>1, Enables
<1>7. Counts(r2, {"DBGMCU", "TIMDRV"})
  <2>1. {"DBGMCU"} \in SUBSET Peripheral /\ "TIMDRV" \in Peripheral \ {"DBGMCU"}
        /\ {"DBGMCU"} \cup {"TIMDRV"} = {"DBGMCU", "TIMDRV"}
    BY <1>4 DEF Always
  <2> HIDE DEF r1
  <2> QED
    BY <1>6, <2>1, Enables
<1>8. Counts(r3, Always)
  <2>1. {"DBGMCU", "TIMDRV"} \in SUBSET Peripheral /\ "FLASH" \in Peripheral \ {"DBGMCU", "TIMDRV"}
        /\ {"DBGMCU", "TIMDRV"} \cup {"FLASH"} = Always
    BY <1>4 DEF Always
  <2> HIDE DEF r2
  <2> QED
    BY <1>7, <2>1, Enables
<1>9. rcc = [r3 EXCEPT !.fresh = @ \ Always]
  BY DEF Init, Always
<1> HIDE DEF r3
<1>10. rcc = [en |-> r3.en, refcount |-> r3.refcount, fresh |-> r3.fresh \ Always]
  BY <1>8, <1>9 DEF Counts, Clocks
<1>11. GatesInv
  BY <1>4, <1>8, <1>10 DEF GatesInv, Counts, Clocks
<1> QED
  BY <1>2, <1>3, <1>11 DEF PartsInv

LEMMA PartsInvPromises ==
  ASSUME PartsInv PROVE ClockedWhileUsed /\ ReleasedWhenDropped /\ InterruptServed
<1>1. ClockedWhileUsed
  BY DEF PartsInv, GatesInv, Counts, ClockedWhileUsed, Used, UsedBy, Always
<1>2. {p \in Peripheral : Holding(p) # {}} \cup {"DBGMCU", "TIMDRV", "FLASH"} = Used
  <2>1. {PeripheralOf[h] : h \in {g \in Parts : live[g] # "none"}} \subseteq Peripheral
    BY InUse DEF UsedBy
  <2> QED
    BY <2>1 DEF Used, UsedBy, Always, Holding
<1>3. refs.plain + refs.buffered = Cardinality(Holding("USART"))
  <2>1. Holding("USART") \in SUBSET Halves
        /\ ("tx" \in Holding("USART") <=> live.tx # "none")
        /\ ("rx" \in Holding("USART") <=> live.rx # "none")
    BY HeldBy DEF Halves
  <2>2. Cardinality(Holding("USART")) = One(live.tx # "none") + One(live.rx # "none")
    BY <2>1, HalvesCounted DEF One
  <2> QED
    BY <2>2 DEF PartsInv, HalvesInv, One
<1>4. uart.bufs = {h \in Parts : live[h] = "buffered"}
  BY DEF PartsInv, PartTypes, HalvesInv, Halves, Parts
<1> QED
  BY <1>1, <1>2, <1>3, <1>4 DEF ReleasedWhenDropped, PartsInv, GatesInv, Counts, HalvesInv

-------------------------------------------------------------------------------
(* Pins: the mode is the last register that is written, and the writes     *)
(* before it bring the others to what the holder asked for.                *)

PinRegisters == {"moder", "otyper", "pupdr", "afr", "odr"}
Drivings == {"PUSHPULL", "OPENDRAIN"}
Values ==
  Roles \cup Drivings
  \cup {"FLOATING", "PULLUP", "ANALOG", "INPUT", "OUTPUT", "ALTERNATE", "low", "high", "none"}
Steps == [pin : Pin, w : [register : PinRegisters, value : Values]]

Brings(t, regs, register, value) ==
  /\ \A i \in 1 .. Len(t) : t[i].w.register = register => t[i].w.value = value
  /\ regs[register] = value \/ \E i \in 1 .. Len(t) : t[i].w.register = register

Mode(t) == t[Len(t)].w.value

\* With the writes t still to come the pin will do as it is wanted.
Settles(t, regs, wish) ==
  /\ \A i \in 1 .. Len(t) : t[i].w.register = "moder" <=> i = Len(t)
  /\ \/ Mode(t) = "INPUT" /\ wish = Nothing
     \/ /\ Mode(t) = "ALTERNATE"
        /\ \E af \in Function, ot \in Drivings :
             wish = <<af, ot>> /\ Brings(t, regs, "afr", af) /\ Brings(t, regs, "otyper", ot)
     \/ /\ Mode(t) = "OUTPUT"
        /\ \E level \in {"low", "high"}, ot \in Drivings :
             /\ wish = DrivesLevel(level, ot)
             /\ Brings(t, regs, "odr", level) /\ Brings(t, regs, "otyper", ot)

Now == IF todo = <<>> THEN {} ELSE {todo[1].pin}
Busy == Now \cup {PinOf[r] : r \in untouched}

PinTypes ==
  /\ pin \in [Pin -> [PinRegisters -> Values]]
  /\ todo \in Seq(Steps)
  /\ untouched \subseteq Roles
  /\ DOMAIN owner = Pin /\ DOMAIN wants = Pin /\ owner = [p \in Pin |-> owner[p]]
  /\ wants = [p \in Pin |-> wants[p]]
  /\ handed \subseteq Pin

\* A pin at rest does what it was asked, a pin that is being configured nothing yet,
\* and a pin that nobody holds nothing: all but those that were left connected.
RestInv ==
  /\ \A p \in Pin \ (handed \cup Busy) : Drives(pin[p]) = wants[p]
  /\ \A p \in Busy \ handed : pin[p]["moder"] = "ANALOG"
  /\ \A p \in Pin : owner[p] = "free" =>
       p \notin Busy /\ wants[p] = Nothing /\ (p \notin handed => pin[p]["moder"] = "ANALOG")

\* The writes to come go to one pin, and the pins after it are others.
TodoInv ==
  /\ todo = <<>> => untouched = {}
  /\ todo # <<>> => /\ \A i \in 1 .. Len(todo) : todo[i].pin = todo[1].pin
                    /\ Settles(todo, pin[todo[1].pin], wants[todo[1].pin])
  /\ \A r \in untouched : PinOf[r] \notin Now /\ wants[PinOf[r]] = <<r, AfOf(r).ot>>
  /\ \A r, s \in untouched : PinOf[r] = PinOf[s] => r = s

PinsInv == PinTypes /\ RestInv /\ TodoInv

LEMMA OneWrite ==
  ASSUME NEW regs \in [PinRegisters -> Values], NEW w \in [register : PinRegisters, value : Values]
  PROVE  /\ Written(regs, w) \in [PinRegisters -> Values]
         /\ \A r \in PinRegisters : Written(regs, w)[r] = IF r = w.register THEN w.value ELSE regs[r]
  BY DEF Written

LEMMA BringsStays ==
  ASSUME NEW t \in Seq(Steps), t # <<>>, NEW regs \in [PinRegisters -> Values],
         NEW r \in PinRegisters, NEW v, Brings(t, regs, r, v)
  PROVE  /\ Brings(Tail(t), Written(regs, t[1].w), r, v)
         /\ Tail(t) = <<>> => Written(regs, t[1].w)[r] = v
<1> DEFINE new == Written(regs, t[1].w)
<1>1. t[1] \in Steps /\ Len(t) \in Nat \ {0} /\ Tail(t) \in Seq(Steps) /\ Len(Tail(t)) = Len(t) - 1
      /\ \A i \in 1 .. Len(Tail(t)) : Tail(t)[i] = t[i + 1]
  OBVIOUS
<1>2. new[r] = IF r = t[1].w.register THEN t[1].w.value ELSE regs[r]
  BY <1>1, OneWrite DEF Steps
<1> HIDE DEF new
<1>3. \A i \in 1 .. Len(Tail(t)) : Tail(t)[i].w.register = r => Tail(t)[i].w.value = v
  BY <1>1 DEF Brings
<1>4. new[r] = v \/ \E i \in 1 .. Len(Tail(t)) : Tail(t)[i].w.register = r
  <2>1. CASE t[1].w.register = r
    BY <1>1, <1>2, <2>1 DEF Brings
  <2>2. CASE t[1].w.register # r /\ regs[r] = v
    BY <1>2, <2>2
  <2>3. CASE t[1].w.register # r /\ \E i \in 1 .. Len(t) : t[i].w.register = r
    <3>1. PICK i \in 1 .. Len(t) : t[i].w.register = r
      BY <2>3
    <3>2. i # 1 /\ i - 1 \in 1 .. Len(Tail(t)) /\ (i - 1) + 1 = i
      BY <1>1, <2>3, <3>1
    <3> QED
      BY <1>1, <3>1, <3>2
  <2> QED
    BY <2>1, <2>2, <2>3 DEF Brings
<1>5. Tail(t) = <<>> => new[r] = v
  <2> SUFFICES ASSUME Tail(t) = <<>> PROVE new[r] = v
    OBVIOUS
  <2>1. Len(<<>>) = 0
    OBVIOUS
  <2>2. ~ \E i \in 1 .. Len(Tail(t)) : Tail(t)[i].w.register = r
    <3>1. 1 .. Len(Tail(t)) = {}
      BY <2>1
    <3> QED
      BY <3>1
  <2> QED
    BY <1>4, <2>2
<1> QED
  BY <1>3, <1>4, <1>5 DEF Brings, new

LEMMA SettlesStays ==
  ASSUME NEW t \in Seq(Steps), t # <<>>, NEW regs \in [PinRegisters -> Values], NEW wish,
         Settles(t, regs, wish)
  PROVE  /\ Tail(t) # <<>> => /\ Settles(Tail(t), Written(regs, t[1].w), wish)
                              /\ Written(regs, t[1].w)["moder"] = regs["moder"]
         /\ Tail(t) = <<>> => Drives(Written(regs, t[1].w)) = wish
<1> DEFINE new == Written(regs, t[1].w)
<1>1. t[1] \in Steps /\ Len(t) \in Nat \ {0} /\ Tail(t) \in Seq(Steps) /\ Len(Tail(t)) = Len(t) - 1
      /\ \A i \in 1 .. Len(Tail(t)) : Tail(t)[i] = t[i + 1]
  OBVIOUS
<1>2. \A i \in 1 .. Len(t) : t[i].w.register = "moder" <=> i = Len(t)
  BY DEF Settles
<1>3. \A r \in PinRegisters : new[r] = IF r = t[1].w.register THEN t[1].w.value ELSE regs[r]
  BY <1>1, OneWrite DEF Steps
<1>4. \A r \in PinRegisters : \A v : Brings(t, regs, r, v) =>
        Brings(Tail(t), new, r, v) /\ (Tail(t) = <<>> => new[r] = v)
  BY BringsStays
<1>5. {"moder", "afr", "otyper", "odr"} \subseteq PinRegisters
  BY DEF PinRegisters
<1> HIDE DEF new
<1>6. ASSUME Tail(t) # <<>> PROVE Settles(Tail(t), new, wish) /\ new["moder"] = regs["moder"]
  <2>1. Len(t) > 1
    BY <1>1, <1>6
  <2>2. t[1].w.register # "moder"
    <3>1. 1 \in 1 .. Len(t) /\ 1 # Len(t)
      BY <1>1, <2>1
    <3> QED
      BY <1>2, <3>1
  <2>3. new["moder"] = regs["moder"]
    BY <1>3, <1>5, <2>2
  <2>4. ASSUME NEW i \in 1 .. Len(Tail(t))
        PROVE  Tail(t)[i].w.register = "moder" <=> i = Len(Tail(t))
    <3>1. i + 1 \in 1 .. Len(t) /\ Tail(t)[i] = t[i + 1] /\ (i + 1 = Len(t) <=> i = Len(Tail(t)))
      BY <1>1
    <3> QED
      BY <1>2, <3>1
  <2>5. Mode(Tail(t)) = Mode(t)
    BY <1>1, <2>1 DEF Mode
  <2> HIDE DEF PinRegisters
  <2>6. Settles(Tail(t), new, wish)
    BY <1>4, <1>5, <2>4, <2>5 DEF Settles
  <2> QED
    BY <2>3, <2>6
<1>7. ASSUME Tail(t) = <<>> PROVE Drives(new) = wish
  <2>1. Len(t) = 1
    BY <1>1, <1>7
  <2>2. t[1].w.register = "moder" /\ new["moder"] = Mode(t)
    BY <1>1, <1>2, <1>3, <1>5, <2>1 DEF Mode
  <2>3. CASE Mode(t) = "INPUT" /\ wish = Nothing
    BY <2>2, <2>3 DEF Drives
  <2>4. CASE Mode(t) = "ALTERNATE"
    <3>1. PICK af \in Function, ot \in Drivings :
            wish = <<af, ot>> /\ Brings(t, regs, "afr", af) /\ Brings(t, regs, "otyper", ot)
      BY <2>4 DEF Settles
    <3>2. new["afr"] = af /\ new["otyper"] = ot
      BY <1>4, <1>5, <1>7, <3>1
    <3> QED
      BY <2>2, <2>4, <3>1, <3>2 DEF Drives
  <2>5. CASE Mode(t) = "OUTPUT"
    <3>1. PICK level \in {"low", "high"}, ot \in Drivings :
                           /\ wish = DrivesLevel(level, ot)
                           /\ Brings(t, regs, "odr", level) /\ Brings(t, regs, "otyper", ot)
      BY <2>5 DEF Settles
    <3>2. new["odr"] = level /\ new["otyper"] = ot
      BY <1>4, <1>5, <1>7, <3>1
    <3> QED
      BY <2>2, <2>5, <3>1, <3>2 DEF Drives
  <2> QED
    BY <2>3, <2>4, <2>5 DEF Settles
<1> QED
  BY <1>6, <1>7 DEF new

PinWrites == [register : PinRegisters, value : Values]

\* The writes t configure the pin p, whatever its registers hold, as it is wanted.
Configurations(t, p, wish) ==
  /\ t \in Seq(Steps) /\ t # <<>>
  /\ \A i \in 1 .. Len(t) : t[i].pin = p
  /\ \A regs \in [PinRegisters -> Values] : Settles(t, regs, wish)

LEMMA Prefixed ==
  ASSUME NEW S, NEW x \in S, NEW s \in Seq(S)
  PROVE  /\ <<x>> \o s \in Seq(S) /\ Len(<<x>> \o s) = Len(s) + 1 /\ (<<x>> \o s)[1] = x
         /\ \A i \in 1 .. Len(s) : (<<x>> \o s)[i + 1] = s[i]
  OBVIOUS

LEMMA NotEmpty == ASSUME NEW s, Len(s) # 0 PROVE s # <<>>
  OBVIOUS

LEMMA AStep ==
  ASSUME NEW x, NEW p, NEW w, x = [pin |-> p, w |-> w] PROVE x.pin = p /\ x.w = w
  OBVIOUS

LEMMA AWrite ==
  ASSUME NEW r \in PinRegisters, NEW v \in Values
  PROVE  W(r, v) \in PinWrites /\ W(r, v).register = r /\ W(r, v).value = v
  BY DEF W, PinWrites

LEMMA OnOnePin ==
  ASSUME NEW p \in Pin, NEW ws \in Seq(PinWrites), ws # <<>>
  PROVE  /\ On(p, ws) \in Seq(Steps) /\ On(p, ws) # <<>> /\ Len(On(p, ws)) = Len(ws)
         /\ \A i \in 1 .. Len(ws) : On(p, ws)[i].pin = p /\ On(p, ws)[i].w = ws[i]
<1>1. Len(ws) \in Nat \ {0} /\ \A i \in 1 .. Len(ws) : ws[i] \in PinWrites
  OBVIOUS
<1>2. \A i \in 1 .. Len(ws) : [pin |-> p, w |-> ws[i]] \in Steps
  BY <1>1 DEF Steps, PinWrites
<1>3. On(p, ws) \in Seq(Steps) /\ Len(On(p, ws)) = Len(ws)
      /\ \A i \in 1 .. Len(ws) : On(p, ws)[i] = [pin |-> p, w |-> ws[i]]
  BY <1>1, <1>2 DEF On
<1>4. On(p, ws) # <<>>
  <2>1. Len(<<>>) = 0
    OBVIOUS
  <2> QED
    BY <1>1, <1>3, <2>1
<1>5. ASSUME NEW i \in 1 .. Len(ws) PROVE On(p, ws)[i].pin = p /\ On(p, ws)[i].w = ws[i]
  <2>1. On(p, ws)[i] = [pin |-> p, w |-> ws[i]]
    BY <1>3
  <2> QED
    BY <2>1, AStep
<1> QED
  BY <1>3, <1>4, <1>5

\* A register that one of the writes sets, and the others set to nothing else.
LEMMA WriteBrings ==
  ASSUME NEW t \in Seq(Steps), NEW regs, NEW r, NEW v, NEW k \in 1 .. Len(t),
         \A i \in 1 .. Len(t) : t[i].w.register = r <=> i = k, t[k].w.value = v
  PROVE  Brings(t, regs, r, v)
  BY DEF Brings

LEMMA AfFacts ==
  \A r \in Roles : AfOf(r).ot \in Drivings /\ AfOf(r).pupdr \in {"FLOATING", "PULLUP"}
  BY DEF AfOf, AfTypeOutput, AfTypeInput, Drivings, Roles

LEMMA AfSettles ==
  ASSUME NEW kind, NEW r \in Roles, NEW p \in Pin
  PROVE  Configurations(On(p, new_pin(kind, r)), p, <<r, AfOf(r).ot>>)
<1> DEFINE ws == new_pin(kind, r)
           t == On(p, ws)
           n == Len(ws)
<1>1. AfOf(r).ot \in Drivings /\ AfOf(r).pupdr \in {"FLOATING", "PULLUP"}
  BY AfFacts
<1>2. ws \in Seq(PinWrites) /\ n \in {4, 5} /\ (n = 5 => ws[1] = W("odr", "low"))
      /\ ws[n - 3] = W("afr", r) /\ ws[n - 2] = W("pupdr", AfOf(r).pupdr)
      /\ ws[n - 1] = W("otyper", AfOf(r).ot) /\ ws[n] = W("moder", "ALTERNATE")
  <2> DEFINE af == <<W("afr", r), W("pupdr", AfOf(r).pupdr), W("otyper", AfOf(r).ot),
                     W("moder", "ALTERNATE")>>
  <2>1. af \in Seq(PinWrites)
    <3>1. r \in Values /\ AfOf(r).pupdr \in Values /\ AfOf(r).ot \in Values /\ "ALTERNATE" \in Values
      BY <1>1 DEF Values
    <3>2. {"afr", "pupdr", "otyper", "moder"} \subseteq PinRegisters
      BY DEF PinRegisters
    <3>3. W("afr", r) \in PinWrites /\ W("pupdr", AfOf(r).pupdr) \in PinWrites
          /\ W("otyper", AfOf(r).ot) \in PinWrites /\ W("moder", "ALTERNATE") \in PinWrites
      BY <3>1, <3>2, AWrite
    <3> QED
      BY <3>3
  <2>2. W("odr", "low") \in PinWrites
    <3>1. "odr" \in PinRegisters /\ "low" \in Values
      BY DEF PinRegisters, Values
    <3> QED
      BY <3>1, AWrite
  <2>3. ws = <<W("odr", "low")>> \o af \/ ws = <<>> \o af
    BY DEF new_pin, set_as_af, set_level
  <2> HIDE DEF ws
  <2>4. CASE ws = <<>> \o af
    <3>1. ws = af
      BY <2>1, <2>4
    <3> QED
      BY <2>1, <3>1
  <2>5. CASE ws = <<W("odr", "low")>> \o af
    <3>1. Len(af) = 4 /\ af[1] = W("afr", r) /\ af[2] = W("pupdr", AfOf(r).pupdr)
          /\ af[3] = W("otyper", AfOf(r).ot) /\ af[4] = W("moder", "ALTERNATE")
      OBVIOUS
    <3> HIDE DEF af
    <3>2. ws \in Seq(PinWrites) /\ Len(ws) = 5 /\ ws[1] = W("odr", "low")
          /\ \A i \in 1 .. 4 : ws[i + 1] = af[i]
      BY <2>1, <2>2, <2>5, <3>1, Prefixed
    <3>3. ws[2] = af[1] /\ ws[3] = af[2] /\ ws[4] = af[3] /\ ws[5] = af[4]
      BY <3>2
    <3> QED
      BY <3>1, <3>2, <3>3
  <2> QED
    BY <2>3, <2>4, <2>5
<1> HIDE DEF ws
<1>7. n \in {4, 5}
  BY <1>2
<1>3. t \in Seq(Steps) /\ t # <<>> /\ Len(t) = n /\ \A i \in 1 .. n : t[i].pin = p /\ t[i].w = ws[i]
  <2>1. ws # <<>>
    <3>1. n # 0
      BY <1>7
    <3> QED
      BY <3>1, NotEmpty
  <2> QED
    BY <1>2, <2>1, OnOnePin
<1> HIDE DEF t
<1>4. \A i \in 1 .. n : /\ t[i].w.register = "moder" <=> i = n
                        /\ t[i].w.register = "afr" <=> i = n - 3
                        /\ t[i].w.register = "otyper" <=> i = n - 1
  <2>1. n = 5 => n - 3 = 2
    OBVIOUS
  <2>2. CASE n = 4
    <3>1. \A i \in 1 .. 4 : i = 1 \/ i = 2 \/ i = 3 \/ i = 4
      OBVIOUS
    <3> QED
      BY <1>2, <1>3, <2>2, <3>1 DEF W
  <2>3. CASE n = 5
    <3>1. \A i \in 1 .. 5 : i = 1 \/ i = 2 \/ i = 3 \/ i = 4 \/ i = 5
      OBVIOUS
    <3> QED
      BY <1>2, <1>3, <2>3, <3>1 DEF W
  <2> QED
    BY <1>2, <2>2, <2>3
<1>5. t[n].w.value = "ALTERNATE" /\ t[n - 3].w.value = r /\ t[n - 1].w.value = AfOf(r).ot
      /\ n \in 1 .. n /\ n - 3 \in 1 .. n /\ n - 1 \in 1 .. n
  <2>1. n \in 1 .. n /\ n - 3 \in 1 .. n /\ n - 1 \in 1 .. n
    <3>1. \A m \in {4, 5} : m \in 1 .. m /\ m - 3 \in 1 .. m /\ m - 1 \in 1 .. m
      OBVIOUS
    <3> QED
      BY <1>7, <3>1, Zenon
  <2>2. t[n].w = W("moder", "ALTERNATE") /\ t[n - 3].w = W("afr", r)
        /\ t[n - 1].w = W("otyper", AfOf(r).ot)
    BY <1>2, <1>3, <2>1
  <2> QED
    BY <2>1, <2>2 DEF W
<1>6. ASSUME NEW regs \in [PinRegisters -> Values] PROVE Settles(t, regs, <<r, AfOf(r).ot>>)
  <2>1. Brings(t, regs, "afr", r)
    <3> DEFINE k == n - 3
    <3>1. k \in 1 .. Len(t) /\ t[k].w.value = r
          /\ \A i \in 1 .. Len(t) : t[i].w.register = "afr" <=> i = k
      BY <1>3, <1>4, <1>5
    <3> HIDE DEF k
    <3> QED
      BY <1>3, <3>1, WriteBrings
  <2>3. Brings(t, regs, "otyper", AfOf(r).ot)
    <3> DEFINE k == n - 1
    <3>1. k \in 1 .. Len(t) /\ t[k].w.value = AfOf(r).ot
          /\ \A i \in 1 .. Len(t) : t[i].w.register = "otyper" <=> i = k
      BY <1>3, <1>4, <1>5
    <3> HIDE DEF k
    <3> QED
      BY <1>3, <3>1, WriteBrings
  <2>2. r \in Function
    BY DriversAssumption
  <2> QED
    BY <1>1, <1>3, <1>4, <1>5, <2>1, <2>2, <2>3 DEF Settles, Mode
<1> QED
  BY <1>3, <1>6 DEF Configurations, t, ws

\* GPIO: three or four writes, the level first and the mode last.
LEMMA GpioSettles ==
  ASSUME NEW c \in GpioConfig, NEW p \in Pin
  PROVE  Configurations(On(p, c.writes), p, c.wants)
<1> DEFINE t == On(p, c.writes)
<1>1. {"afr", "pupdr", "otyper", "moder", "odr"} \subseteq PinRegisters
      /\ {"FLOATING", "PULLUP", "PUSHPULL", "OPENDRAIN", "INPUT", "OUTPUT", "low", "high"} \subseteq Values
  <2>1. {"afr", "pupdr", "otyper", "moder", "odr"} \subseteq PinRegisters
    BY DEF PinRegisters
  <2>2. {"PUSHPULL", "OPENDRAIN"} \subseteq Values
    BY DEF Values, Drivings
  <2>3. {"FLOATING", "PULLUP", "INPUT", "OUTPUT", "low", "high"} \subseteq Values
    BY Zenon DEF Values
  <2> QED
    BY <2>1, <2>2, <2>3
<1>2. \A r \in PinRegisters : \A v \in Values : W(r, v) \in PinWrites
  BY AWrite
<1>4. CASE \E pull \in {"FLOATING", "PULLUP"} : c = [writes |-> Input(pull), wants |-> Nothing]
  <2>0. PICK pull \in {"FLOATING", "PULLUP"} : c = [writes |-> Input(pull), wants |-> Nothing]
    BY <1>4
  <2> DEFINE ws == <<W("pupdr", pull), W("otyper", "PUSHPULL"), W("moder", "INPUT")>>
  <2>1. c.writes = ws /\ c.wants = Nothing /\ t = On(p, ws)
    BY <2>0 DEF Input, set_as_input
  <2>2. W("pupdr", pull) \in PinWrites /\ W("otyper", "PUSHPULL") \in PinWrites /\ W("moder", "INPUT") \in PinWrites
    BY <1>1, <1>2
  <2>3. ws \in Seq(PinWrites) /\ Len(ws) = 3 /\ ws[1] = W("pupdr", pull)
        /\ ws[2] = W("otyper", "PUSHPULL") /\ ws[3] = W("moder", "INPUT")
    BY <2>2
  <2> HIDE DEF ws
  <2>4. ws # <<>>
    <3>1. Len(ws) # 0
      BY <2>3
    <3> QED
      BY <3>1, NotEmpty
  <2> HIDE DEF t
  <2>5. t \in Seq(Steps) /\ t # <<>> /\ Len(t) = 3 /\ \A i \in 1 .. 3 : t[i].pin = p /\ t[i].w = ws[i]
    BY <2>1, <2>3, <2>4, OnOnePin
  <2>6. \A i \in 1 .. 3 : t[i].w.register = "moder" <=> i = 3
    <3>1. \A i \in 1 .. 3 : i = 1 \/ i = 2 \/ i = 3
      OBVIOUS
    <3> QED
      BY <2>3, <2>5, <3>1 DEF W
  <2>7. t[3].w.value = "INPUT"
    BY <2>3, <2>5 DEF W
  <2> QED
    BY <2>1, <2>5, <2>6, <2>7 DEF Configurations, Settles, Mode, t
<1>5. CASE \E level \in {"low", "high"}, ot \in Drivings, pull \in {"FLOATING", "PULLUP"} :
             c = [writes |-> <<W("odr", level)>> \o <<W("pupdr", pull), W("otyper", ot), W("moder", "OUTPUT")>>,
                  wants |-> DrivesLevel(level, ot)]
  <2>0. PICK level \in {"low", "high"}, ot \in Drivings, pull \in {"FLOATING", "PULLUP"} :
             c = [writes |-> <<W("odr", level)>> \o <<W("pupdr", pull), W("otyper", ot), W("moder", "OUTPUT")>>,
                  wants |-> DrivesLevel(level, ot)]
    BY <1>5
  <2> DEFINE three == <<W("pupdr", pull), W("otyper", ot), W("moder", "OUTPUT")>>
             first == W("odr", level)
             ws == <<first>> \o three
  <2>1. c.writes = ws /\ c.wants = DrivesLevel(level, ot) /\ t = On(p, ws)
    BY <2>0
  <2>2. W("pupdr", pull) \in PinWrites /\ W("otyper", ot) \in PinWrites /\ W("moder", "OUTPUT") \in PinWrites
        /\ W("odr", level) \in PinWrites
    BY <1>1, <1>2 DEF Drivings
  <2>3. three \in Seq(PinWrites) /\ Len(three) = 3 /\ three[1] = W("pupdr", pull)
        /\ three[2] = W("otyper", ot) /\ three[3] = W("moder", "OUTPUT")
    BY <2>2
  <2> HIDE DEF three
  <2>4. ws \in Seq(PinWrites) /\ Len(ws) = 4 /\ ws[1] = W("odr", level)
        /\ \A i \in 1 .. 3 : ws[i + 1] = three[i]
    <3>1. first \in PinWrites /\ three \in Seq(PinWrites) /\ Len(three) = 3
      BY <2>2, <2>3
    <3> HIDE DEF first
    <3>2. /\ ws \in Seq(PinWrites) /\ Len(ws) = Len(three) + 1 /\ ws[1] = first
          /\ \A i \in 1 .. Len(three) : ws[i + 1] = three[i]
      <4>1. \A x \in PinWrites : \A s \in Seq(PinWrites) :
              /\ <<x>> \o s \in Seq(PinWrites) /\ Len(<<x>> \o s) = Len(s) + 1 /\ (<<x>> \o s)[1] = x
              /\ \A i \in 1 .. Len(s) : (<<x>> \o s)[i + 1] = s[i]
        BY Prefixed
      <4> QED
        BY <3>1, <4>1, Zenon
    <3> QED
      BY <3>1, <3>2 DEF first
  <2>5. ws[2] = three[1] /\ ws[3] = three[2] /\ ws[4] = three[3]
    BY <2>4
  <2> HIDE DEF ws
  <2>6. ws # <<>>
    <3>1. Len(ws) # 0
      BY <2>4
    <3> QED
      BY <3>1, NotEmpty
  <2> HIDE DEF t
  <2>7. t \in Seq(Steps) /\ t # <<>> /\ Len(t) = 4 /\ \A i \in 1 .. 4 : t[i].pin = p /\ t[i].w = ws[i]
    BY <2>1, <2>4, <2>6, OnOnePin
  <2>8. \A i \in 1 .. 4 : /\ t[i].w.register = "moder" <=> i = 4
                          /\ t[i].w.register = "odr" <=> i = 1
                          /\ t[i].w.register = "otyper" <=> i = 3
    <3>1. \A i \in 1 .. 4 : i = 1 \/ i = 2 \/ i = 3 \/ i = 4
      OBVIOUS
    <3> QED
      BY <2>3, <2>4, <2>5, <2>7, <3>1 DEF W
  <2>9. t[4].w.value = "OUTPUT" /\ t[1].w.value = level /\ t[3].w.value = ot
    BY <2>3, <2>4, <2>5, <2>7 DEF W
  <2>10. ASSUME NEW regs \in [PinRegisters -> Values] PROVE Settles(t, regs, DrivesLevel(level, ot))
    <3>1. Brings(t, regs, "odr", level) /\ Brings(t, regs, "otyper", ot)
      <4>1. 1 \in 1 .. Len(t) /\ 3 \in 1 .. Len(t)
        BY <2>7
      <4> QED
        BY <2>7, <2>8, <2>9, <4>1 DEF Brings
    <3> QED
      BY <2>7, <2>8, <2>9, <3>1 DEF Settles, Mode
  <2> QED
    BY <2>1, <2>7, <2>10 DEF Configurations, t
<1> QED
  <2>1. \A level \in {"low", "high"} :
          /\ Output(level) = <<W("odr", level)>> \o <<W("pupdr", "FLOATING"), W("otyper", "PUSHPULL"),
                                                      W("moder", "OUTPUT")>>
          /\ OutputOpenDrain(level, "PULLUP") = <<W("odr", level)>> \o
               <<W("pupdr", "PULLUP"), W("otyper", "OPENDRAIN"), W("moder", "OUTPUT")>>
    BY DEF Output, OutputOpenDrain, set_as_output, set_as_input_output_pull, set_level
  <2>2. "PUSHPULL" \in Drivings /\ "OPENDRAIN" \in Drivings
    BY DEF Drivings
  <2> QED
    BY <1>4, <1>5, <2>1, <2>2 DEF GpioConfig

\* What the next write leaves to do, by what is left to do after it.
LEMMA WritePinStays ==
  ASSUME PinsInv, write_pin PROVE PinsInv'
<1> DEFINE p == todo[1].pin
           w == todo[1].w
           r == CHOOSE r \in untouched : TRUE
<1>1. /\ todo \in Seq(Steps) /\ todo # <<>> /\ Head(todo) = todo[1] /\ todo[1] \in Steps
      /\ Len(todo) \in Nat \ {0} /\ Tail(todo) \in Seq(Steps) /\ Len(Tail(todo)) = Len(todo) - 1
      /\ \A i \in 1 .. Len(Tail(todo)) : Tail(todo)[i] = todo[i + 1]
  BY DEF PinsInv, PinTypes, write_pin
<1>2. p \in Pin /\ w \in PinWrites /\ Now = {p}
  BY <1>1 DEF Steps, PinWrites, Now
<1>3. pin \in [Pin -> [PinRegisters -> Values]] /\ pin[p] \in [PinRegisters -> Values]
  BY <1>2 DEF PinsInv, PinTypes
<1>4. /\ pin' = [pin EXCEPT ![p] = Written(pin[p], w)] /\ owner' = owner /\ wants' = wants
      /\ handed' = IF Tail(todo) = <<>> THEN handed \ {p} ELSE handed
  BY <1>1 DEF write_pin
<1>5. \/ Tail(todo) # <<>> /\ todo' = Tail(todo) /\ untouched' = untouched
      \/ Tail(todo) = <<>> /\ untouched = {} /\ todo' = <<>> /\ untouched' = {}
      \/ /\ Tail(todo) = <<>> /\ r \in untouched
         /\ todo' = On(PinOf[r], new_pin(doing, r)) /\ untouched' = untouched \ {r}
  BY <1>1 DEF write_pin, Continues
<1>6. Settles(todo, pin[p], wants[p]) /\ \A i \in 1 .. Len(todo) : todo[i].pin = p
  BY <1>1 DEF PinsInv, TodoInv
<1>7. /\ untouched \subseteq Roles /\ handed \subseteq Pin
      /\ \A s \in untouched : PinOf[s] \in Pin /\ PinOf[s] # p /\ wants[PinOf[s]] = <<s, AfOf(s).ot>>
      /\ \A s, u \in untouched : PinOf[s] = PinOf[u] => s = u
  <2>1. untouched \subseteq Roles /\ handed \subseteq Pin
    BY DEF PinsInv, PinTypes
  <2>2. \A s \in Roles : PinOf[s] \in Pin
    BY DriversAssumption
  <2> HIDE DEF p
  <2> QED
    BY <1>2, <2>1, <2>2 DEF PinsInv, TodoInv
<1>8. /\ Tail(todo) # <<>> => /\ Settles(Tail(todo), Written(pin[p], w), wants[p])
                              /\ Written(pin[p], w)["moder"] = pin[p]["moder"]
      /\ Tail(todo) = <<>> => Drives(Written(pin[p], w)) = wants[p]
  BY <1>1, <1>3, <1>6, SettlesStays
<1>9. Busy = {p} \cup {PinOf[s] : s \in untouched}
  BY <1>2 DEF Busy
<1>10. Written(pin[p], w) \in [PinRegisters -> Values]
  BY <1>2, <1>3, OneWrite DEF PinWrites
<1> HIDE DEF p, w, r
<1>11. /\ pin'[p] = Written(pin[p], w) /\ \A q \in Pin : q # p => pin'[q] = pin[q]
       /\ pin' \in [Pin -> [PinRegisters -> Values]]
  BY <1>2, <1>3, <1>4, <1>10
<1>12. \A q \in Pin : owner[q] = "free" =>
         q \notin Busy /\ wants[q] = Nothing /\ (q \notin handed => pin[q]["moder"] = "ANALOG")
  BY DEF PinsInv, RestInv
<1>13. \A q \in Pin \ (handed \cup Busy) : Drives(pin[q]) = wants[q]
  BY DEF PinsInv, RestInv
<1>14. \A q \in Busy \ handed : pin[q]["moder"] = "ANALOG"
  BY DEF PinsInv, RestInv
<1>15. DOMAIN owner = Pin /\ DOMAIN wants = Pin /\ owner = [q \in Pin |-> owner[q]]
       /\ wants = [q \in Pin |-> wants[q]]
  BY DEF PinsInv, PinTypes
<1>16. handed' \subseteq Pin /\ \A q \in Pin : q # p => (q \in handed' <=> q \in handed)
  BY <1>4, <1>7
<1>17. CASE Tail(todo) # <<>> /\ todo' = Tail(todo) /\ untouched' = untouched
  <2>1. Len(Tail(todo)) \in Nat \ {0} /\ Tail(todo)[1] = todo[2] /\ 2 \in 1 .. Len(todo)
    BY <1>1, <1>17
  <2>2. todo'[1].pin = p /\ \A i \in 1 .. Len(todo') : todo'[i].pin = p
    <3>1. \A i \in 1 .. Len(Tail(todo)) : i + 1 \in 1 .. Len(todo)
      BY <1>1
    <3> QED
      BY <1>1, <1>6, <1>17, <2>1, <3>1
  <2>3. Now' = {p} /\ Busy' = Busy /\ handed' = handed
    <3>1. Now' = {p}
      BY <1>17, <2>2 DEF Now
    <3> QED
      BY <1>4, <1>9, <1>17, <3>1 DEF Busy
  <2>4. PinTypes'
    BY <1>1, <1>4, <1>7, <1>11, <1>15, <1>17, <2>3 DEF PinTypes
  <2>5. RestInv'
    <3>1. \A q \in Pin \ (handed' \cup Busy') : Drives(pin'[q]) = wants'[q]
      BY <1>4, <1>9, <1>11, <1>13, <2>3
    <3>2. \A q \in Busy' \ handed' : pin'[q]["moder"] = "ANALOG"
      <4>1. Busy \subseteq Pin
        BY <1>2, <1>7, <1>9
      <4> QED
        BY <1>8, <1>11, <1>14, <1>17, <2>3, <4>1
    <3>3. \A q \in Pin : owner'[q] = "free" =>
            q \notin Busy' /\ wants'[q] = Nothing /\ (q \notin handed' => pin'[q]["moder"] = "ANALOG")
      BY <1>4, <1>9, <1>11, <1>12, <2>3
    <3> QED
      BY <3>1, <3>2, <3>3 DEF RestInv
  <2>6. TodoInv'
    <3>1. Settles(todo', pin'[todo'[1].pin], wants'[todo'[1].pin])
      BY <1>4, <1>8, <1>11, <1>17, <2>2
    <3>2. \A s \in untouched' : PinOf[s] \notin Now' /\ wants'[PinOf[s]] = <<s, AfOf(s).ot>>
      BY <1>4, <1>7, <1>17, <2>3
    <3> QED
      BY <1>7, <1>17, <2>2, <3>1, <3>2 DEF TodoInv
  <2> QED
    BY <2>4, <2>5, <2>6 DEF PinsInv
<1>18. ASSUME Tail(todo) = <<>>, Busy' = Busy \ {p} PROVE RestInv'
  <2>1. \A q \in Pin \ (handed' \cup Busy') : Drives(pin'[q]) = wants'[q]
    BY <1>4, <1>8, <1>11, <1>13, <1>16, <1>18
  <2>2. \A q \in Busy' \ handed' : pin'[q]["moder"] = "ANALOG"
    <3>1. Busy \subseteq Pin
      BY <1>2, <1>7, <1>9
    <3> QED
      BY <1>11, <1>14, <1>16, <1>18, <3>1
  <2>3. \A q \in Pin : owner'[q] = "free" =>
          q \notin Busy' /\ wants'[q] = Nothing /\ (q \notin handed' => pin'[q]["moder"] = "ANALOG")
    BY <1>4, <1>9, <1>11, <1>12, <1>16, <1>18
  <2> QED
    BY <2>1, <2>2, <2>3 DEF RestInv
<1>19. CASE Tail(todo) = <<>> /\ untouched = {} /\ todo' = <<>> /\ untouched' = {}
  <2>1. Busy' = {} /\ Busy = {p}
    BY <1>9, <1>19 DEF Busy, Now
  <2>2. RestInv'
    BY <1>18, <1>19, <2>1
  <2>3. PinTypes'
    BY <1>4, <1>11, <1>15, <1>16, <1>19 DEF PinTypes
  <2>4. TodoInv'
    BY <1>19 DEF TodoInv
  <2> QED
    BY <2>2, <2>3, <2>4 DEF PinsInv
<1>20. CASE /\ Tail(todo) = <<>> /\ r \in untouched
            /\ todo' = On(PinOf[r], new_pin(doing, r)) /\ untouched' = untouched \ {r}
  <2>1. r \in Roles /\ PinOf[r] \in Pin
    BY <1>7, <1>20
  <2>2. Configurations(todo', PinOf[r], <<r, AfOf(r).ot>>)
    BY <1>20, <2>1, AfSettles
  <2>3. todo' \in Seq(Steps) /\ todo' # <<>> /\ 1 \in 1 .. Len(todo')
    <3>1. todo' \in Seq(Steps) /\ todo' # <<>>
      BY <2>2 DEF Configurations
    <3> QED
      BY <3>1
  <2>4. todo'[1].pin = PinOf[r] /\ Now' = {PinOf[r]}
    BY <2>2, <2>3 DEF Configurations, Now
  <2>5. Busy' = {PinOf[s] : s \in untouched}
    BY <1>20, <2>4 DEF Busy
  <2>6. RestInv'
    BY <1>7, <1>9, <1>18, <1>20, <2>5
  <2>7. PinTypes'
    BY <1>4, <1>7, <1>11, <1>15, <1>16, <1>20, <2>3 DEF PinTypes
  <2>8. TodoInv'
    <3>1. Settles(todo', pin'[todo'[1].pin], wants'[todo'[1].pin])
      <4>1. pin'[PinOf[r]] \in [PinRegisters -> Values] /\ wants'[PinOf[r]] = <<r, AfOf(r).ot>>
        BY <1>4, <1>7, <1>11, <1>20, <2>1
      <4>2. Settles(todo', pin'[PinOf[r]], wants'[PinOf[r]])
        BY <2>2, <4>1, Zenon DEF Configurations
      <4> QED
        BY <2>4, <4>2, Zenon
    <3>2. \A i \in 1 .. Len(todo') : todo'[i].pin = todo'[1].pin
      BY <2>2, <2>4 DEF Configurations
    <3>3. \A s \in untouched' : PinOf[s] \notin Now' /\ wants'[PinOf[s]] = <<s, AfOf(s).ot>>
      BY <1>4, <1>7, <1>20, <2>4
    <3> QED
      BY <1>7, <1>20, <2>3, <3>1, <3>2, <3>3 DEF TodoInv
  <2> QED
    BY <2>6, <2>7, <2>8 DEF PinsInv
<1> QED
  BY <1>5, <1>17, <1>19, <1>20

\* A constructor takes free pins that drive nothing, and wants of each what its role does.
LEMMA BeginTakesPins ==
  ASSUME PinsInv, NEW kind \in DOMAIN Kinds, begin(kind) PROVE PinsInv'
<1> DEFINE rs == RolesOf(kind)
           Taken(q) == \E s \in rs : PinOf[s] = q
           r == CHOOSE s \in rs : TRUE
<1>1. /\ todo = <<>> /\ untouched = {} /\ Busy = {} /\ Now = {}
      /\ pin' = pin /\ handed' = handed
      /\ \A s \in rs : owner[PinOf[s]] = "free"
      /\ \A s, u \in rs : PinOf[s] = PinOf[u] => s = u
  BY DEF begin, Idle, PinsInv, TodoInv, Busy, Now
<1>2. rs \subseteq Roles /\ \A s \in rs : PinOf[s] \in Pin
  <2>1. rs \subseteq Roles
    BY KindFacts DEF RolesOf
  <2> QED
    BY <2>1, DriversAssumption
<1>3. /\ DOMAIN owner' = Pin /\ owner' = [q \in Pin |-> owner'[q]]
      /\ DOMAIN wants' = Pin /\ wants' = [q \in Pin |-> wants'[q]]
      /\ \A q \in Pin : ~ Taken(q) => owner'[q] = owner[q] /\ wants'[q] = wants[q]
  BY DEF begin
<1>4. ASSUME NEW q \in Pin, Taken(q) PROVE owner'[q] # "free"
  <2> DEFINE Holds(h) == h \in DOMAIN Kinds[kind] /\ \E s \in Kinds[kind][h] : PinOf[s] = q
  <2>1. PICK s \in rs : PinOf[s] = q
    BY <1>4
  <2>2. \E h \in DOMAIN Kinds[kind] : \E u \in Kinds[kind][h] : PinOf[u] = q
    BY <2>1 DEF RolesOf
  <2>3. (CHOOSE h \in DOMAIN Kinds[kind] : \E u \in Kinds[kind][h] : PinOf[u] = q) \in DOMAIN Kinds[kind]
    BY <2>2
  <2>4. owner'[q] \in DOMAIN Kinds[kind]
    BY <1>4, <2>3 DEF begin
  <2> QED
    BY <2>4, KindFacts DEF Parts
<1>5. ASSUME NEW s \in rs PROVE wants'[PinOf[s]] = <<s, AfOf(s).ot>>
  <2>1. \E u \in rs : PinOf[u] = PinOf[s]
    BY <1>5
  <2>2. (CHOOSE u \in rs : PinOf[u] = PinOf[s]) = s
    BY <1>1, <1>5, <2>1
  <2>3. wants'[PinOf[s]] =
          LET u == CHOOSE u \in rs : PinOf[u] = PinOf[s] IN <<u, AfOf(u).ot>>
    BY <1>2, <2>1 DEF begin
  <2> QED
    BY <2>2, <2>3
<1>6. \/ rs = {} /\ todo' = <<>> /\ untouched' = {}
      \/ rs # {} /\ r \in rs /\ todo' = On(PinOf[r], new_pin(kind, r)) /\ untouched' = rs \ {r}
  BY DEF begin, Continues
<1> HIDE DEF r, rs
<1>7. pin \in [Pin -> [PinRegisters -> Values]] /\ handed \subseteq Pin
  BY DEF PinsInv, PinTypes
<1>8. /\ \A q \in Pin \ handed : Drives(pin[q]) = wants[q]
      /\ \A q \in Pin : owner[q] = "free" =>
           wants[q] = Nothing /\ (q \notin handed => pin[q]["moder"] = "ANALOG")
  BY <1>1 DEF PinsInv, RestInv
<1>9. ASSUME Busy' = {PinOf[s] : s \in rs} PROVE RestInv'
  <2>1. \A q \in Pin : q \in Busy' <=> Taken(q)
    BY <1>9
  <2>2. \A q \in Busy' : q \in Pin /\ owner[q] = "free"
    BY <1>1, <1>2, <1>9
  <2>3. \A q \in Pin \ (handed' \cup Busy') : Drives(pin'[q]) = wants'[q]
    BY <1>1, <1>3, <1>8, <2>1
  <2>4. \A q \in Busy' \ handed' : pin'[q]["moder"] = "ANALOG"
    BY <1>1, <1>8, <2>2
  <2>5. \A q \in Pin : owner'[q] = "free" =>
          q \notin Busy' /\ wants'[q] = Nothing /\ (q \notin handed' => pin'[q]["moder"] = "ANALOG")
    BY <1>1, <1>3, <1>4, <1>8, <2>1
  <2> QED
    BY <2>3, <2>4, <2>5 DEF RestInv
<1>10. CASE rs = {} /\ todo' = <<>> /\ untouched' = {}
  <2>1. Busy' = {PinOf[s] : s \in rs}
    BY <1>10 DEF Busy, Now
  <2>2. PinTypes'
    BY <1>1, <1>3, <1>7, <1>10 DEF PinTypes
  <2>3. TodoInv'
    BY <1>10 DEF TodoInv
  <2> QED
    BY <1>9, <2>1, <2>2, <2>3 DEF PinsInv
<1>11. CASE rs # {} /\ r \in rs /\ todo' = On(PinOf[r], new_pin(kind, r)) /\ untouched' = rs \ {r}
  <2>1. r \in Roles /\ PinOf[r] \in Pin
    BY <1>2, <1>11
  <2>2. Configurations(todo', PinOf[r], <<r, AfOf(r).ot>>)
    BY <1>11, <2>1, AfSettles
  <2>3. todo' \in Seq(Steps) /\ todo' # <<>> /\ 1 \in 1 .. Len(todo')
    <3>1. todo' \in Seq(Steps) /\ todo' # <<>>
      BY <2>2 DEF Configurations
    <3> QED
      BY <3>1
  <2>4. todo'[1].pin = PinOf[r] /\ Now' = {PinOf[r]}
    BY <2>2, <2>3 DEF Configurations, Now
  <2>5. Busy' = {PinOf[s] : s \in rs}
    BY <1>11, <2>4 DEF Busy
  <2>6. PinTypes'
    BY <1>1, <1>2, <1>3, <1>7, <1>11, <2>3 DEF PinTypes
  <2>7. TodoInv'
    <3>1. pin'[PinOf[r]] \in [PinRegisters -> Values] /\ wants'[PinOf[r]] = <<r, AfOf(r).ot>>
      BY <1>1, <1>5, <1>7, <1>11, <2>1
    <3>2. Settles(todo', pin'[PinOf[r]], wants'[PinOf[r]])
      BY <2>2, <3>1, Zenon DEF Configurations
    <3>3. Settles(todo', pin'[todo'[1].pin], wants'[todo'[1].pin])
      BY <2>4, <3>2, Zenon
    <3>4. \A i \in 1 .. Len(todo') : todo'[i].pin = todo'[1].pin
      BY <2>2, <2>4 DEF Configurations
    <3>5. \A s \in untouched' : PinOf[s] \notin Now' /\ wants'[PinOf[s]] = <<s, AfOf(s).ot>>
      BY <1>1, <1>5, <1>11, <2>4
    <3>6. \A s, u \in untouched' : PinOf[s] = PinOf[u] => s = u
      BY <1>1, <1>11
    <3> QED
      BY <2>3, <3>3, <3>4, <3>5, <3>6 DEF TodoInv
  <2> QED
    BY <1>9, <2>5, <2>6, <2>7 DEF PinsInv
<1> QED
  BY <1>6, <1>10, <1>11

LEMMA AnalogDrivesNothing ==
  ASSUME NEW regs \in [PinRegisters -> Values]
  PROVE  /\ Written(regs, set_as_analog) \in [PinRegisters -> Values]
         /\ Written(regs, set_as_analog)["moder"] = "ANALOG"
         /\ Drives(Written(regs, set_as_analog)) = Nothing
<1>1. "moder" \in PinRegisters /\ "ANALOG" \in Values
  BY DEF PinRegisters, Values
<1>2. set_as_analog \in PinWrites /\ set_as_analog.register = "moder" /\ set_as_analog.value = "ANALOG"
  BY <1>1, AWrite DEF set_as_analog
<1>3. /\ Written(regs, set_as_analog) \in [PinRegisters -> Values]
      /\ Written(regs, set_as_analog)["moder"] = "ANALOG"
  BY <1>1, <1>2, OneWrite DEF PinWrites
<1> QED
  BY <1>3 DEF Drives

\* Between calls it is enough to look at the pins that a step changes.
LEMMA AtRest ==
  ASSUME PinsInv, todo = <<>>, UNCHANGED <<todo, untouched>>,
         pin' \in [Pin -> [PinRegisters -> Values]], handed' \subseteq Pin,
         DOMAIN owner' = Pin, owner' = [q \in Pin |-> owner'[q]],
         DOMAIN wants' = Pin, wants' = [q \in Pin |-> wants'[q]],
         \A q \in Pin :
           \/ /\ pin'[q] = pin[q] /\ owner'[q] = owner[q] /\ wants'[q] = wants[q]
              /\ q \in handed' <=> q \in handed
           \/ /\ q \notin handed' => Drives(pin'[q]) = wants'[q]
              /\ owner'[q] = "free" =>
                   wants'[q] = Nothing /\ (q \notin handed' => pin'[q]["moder"] = "ANALOG")
  PROVE  PinsInv'
<1>1. untouched = {} /\ Busy = {} /\ Busy' = {}
  BY DEF PinsInv, TodoInv, Busy, Now
<1>2. /\ \A q \in Pin \ handed : Drives(pin[q]) = wants[q]
      /\ \A q \in Pin : owner[q] = "free" =>
           wants[q] = Nothing /\ (q \notin handed => pin[q]["moder"] = "ANALOG")
  BY <1>1 DEF PinsInv, RestInv
<1>3. RestInv'
  BY <1>1, <1>2 DEF RestInv
<1>4. TodoInv'
  BY <1>1 DEF TodoInv
<1>5. PinTypes'
  BY DEF PinTypes, PinsInv
<1> QED
  BY <1>3, <1>4, <1>5 DEF PinsInv

\* Drop of the UART halves, of I2C and of a GPIO, and a refused constructor.
LEMMA DisconnectFrees ==
  ASSUME PinsInv, todo = <<>>, NEW ps \in SUBSET Pin, pin' = Disconnect(ps), Free(ps, "free"),
         UNCHANGED <<todo, untouched, handed>>
  PROVE  PinsInv'
<1>1. /\ pin \in [Pin -> [PinRegisters -> Values]] /\ handed \subseteq Pin
      /\ DOMAIN owner = Pin /\ owner = [q \in Pin |-> owner[q]]
      /\ DOMAIN wants = Pin /\ wants = [q \in Pin |-> wants[q]]
  BY DEF PinsInv, PinTypes
<1>2. \A q \in Pin : pin'[q] = IF q \in ps THEN Written(pin[q], set_as_analog) ELSE pin[q]
  BY DEF Disconnect, set_as_disconnected
<1>3. \A q \in Pin : /\ Written(pin[q], set_as_analog) \in [PinRegisters -> Values]
                     /\ Written(pin[q], set_as_analog)["moder"] = "ANALOG"
                     /\ Drives(Written(pin[q], set_as_analog)) = Nothing
  BY <1>1, AnalogDrivesNothing
<1>4. pin' \in [Pin -> [PinRegisters -> Values]]
  BY <1>1, <1>3 DEF Disconnect, set_as_disconnected
<1>5. /\ DOMAIN owner' = Pin /\ owner' = [q \in Pin |-> owner'[q]]
      /\ DOMAIN wants' = Pin /\ wants' = [q \in Pin |-> wants'[q]]
      /\ \A q \in Pin : q \in ps => owner'[q] = "free" /\ wants'[q] = Nothing
      /\ \A q \in Pin : q \notin ps => owner'[q] = owner[q] /\ wants'[q] = wants[q]
  BY DEF Free
<1>6. ASSUME NEW q \in Pin
      PROVE  \/ /\ pin'[q] = pin[q] /\ owner'[q] = owner[q] /\ wants'[q] = wants[q]
                /\ q \in handed' <=> q \in handed
             \/ /\ q \notin handed' => Drives(pin'[q]) = wants'[q]
                /\ owner'[q] = "free" =>
                     wants'[q] = Nothing /\ (q \notin handed' => pin'[q]["moder"] = "ANALOG")
  BY <1>2, <1>3, <1>5
<1> QED
  BY <1>1, <1>4, <1>5, <1>6, AtRest

\* A timer, the ADC and the clock output leave their pins as they are.
LEMMA LeavesPins ==
  ASSUME PinsInv, todo = <<>>, NEW ps \in SUBSET Pin, pin' = pin, Free(ps, "free"),
         handed' = handed \cup ps, UNCHANGED <<todo, untouched>>
  PROVE  PinsInv'
<1>1. /\ pin \in [Pin -> [PinRegisters -> Values]] /\ handed \subseteq Pin
      /\ DOMAIN owner = Pin /\ owner = [q \in Pin |-> owner[q]]
      /\ DOMAIN wants = Pin /\ wants = [q \in Pin |-> wants[q]]
  BY DEF PinsInv, PinTypes
<1>2. /\ DOMAIN owner' = Pin /\ owner' = [q \in Pin |-> owner'[q]]
      /\ DOMAIN wants' = Pin /\ wants' = [q \in Pin |-> wants'[q]]
      /\ \A q \in Pin : q \in ps => owner'[q] = "free" /\ wants'[q] = Nothing
      /\ \A q \in Pin : q \notin ps => owner'[q] = owner[q] /\ wants'[q] = wants[q]
  BY DEF Free
<1>3. ASSUME NEW q \in Pin
      PROVE  \/ /\ pin'[q] = pin[q] /\ owner'[q] = owner[q] /\ wants'[q] = wants[q]
                /\ q \in handed' <=> q \in handed
             \/ /\ q \notin handed' => Drives(pin'[q]) = wants'[q]
                /\ owner'[q] = "free" =>
                     wants'[q] = Nothing /\ (q \notin handed' => pin'[q]["moder"] = "ANALOG")
  BY <1>2
<1>4. pin' \in [Pin -> [PinRegisters -> Values]] /\ handed' \subseteq Pin
  BY <1>1
<1> QED
  BY <1>2, <1>3, <1>4, AtRest

\* The ADC takes a free pin, makes it analog and gives it back.
LEMMA AdcSetup == ASSUME PinsInv, NEW p \in Pin, adc_setup(p) PROVE PinsInv'
<1>1. /\ pin \in [Pin -> [PinRegisters -> Values]] /\ handed \subseteq Pin
      /\ DOMAIN owner = Pin /\ owner = [q \in Pin |-> owner[q]]
      /\ DOMAIN wants = Pin /\ wants = [q \in Pin |-> wants[q]]
  BY DEF PinsInv, PinTypes
<1>2. /\ todo = <<>> /\ owner[p] = "free" /\ UNCHANGED <<todo, untouched, owner, wants>>
      /\ handed' = handed \ {p} /\ pin' = [pin EXCEPT ![p] = Written(pin[p], set_as_analog)]
  BY DEF adc_setup, Idle
<1>3. wants[p] = Nothing
  BY <1>2 DEF PinsInv, RestInv
<1>4. /\ Written(pin[p], set_as_analog) \in [PinRegisters -> Values]
      /\ Drives(Written(pin[p], set_as_analog)) = Nothing
      /\ Written(pin[p], set_as_analog)["moder"] = "ANALOG"
  BY <1>1, AnalogDrivesNothing
<1>5. /\ pin' \in [Pin -> [PinRegisters -> Values]] /\ pin'[p] = Written(pin[p], set_as_analog)
      /\ \A q \in Pin : q # p => pin'[q] = pin[q]
  BY <1>1, <1>2, <1>4
<1>6. ASSUME NEW q \in Pin
      PROVE  \/ /\ pin'[q] = pin[q] /\ owner'[q] = owner[q] /\ wants'[q] = wants[q]
                /\ q \in handed' <=> q \in handed
             \/ /\ q \notin handed' => Drives(pin'[q]) = wants'[q]
                /\ owner'[q] = "free" =>
                     wants'[q] = Nothing /\ (q \notin handed' => pin'[q]["moder"] = "ANALOG")
  <2>1. CASE q = p
    BY <1>2, <1>3, <1>4, <1>5, <2>1
  <2>2. CASE q # p
    BY <1>2, <1>5, <2>2
  <2> QED
    BY <2>1, <2>2
<1> QED
  BY <1>1, <1>2, <1>5, <1>6, AtRest

\* A GPIO that drives its pin is asked for what it is then set to.
LEMMA SetOutput == ASSUME PinsInv, NEW p \in Pin, set_output(p) PROVE PinsInv'
<1>1. /\ pin \in [Pin -> [PinRegisters -> Values]] /\ handed \subseteq Pin
      /\ DOMAIN owner = Pin /\ owner = [q \in Pin |-> owner[q]]
      /\ DOMAIN wants = Pin /\ wants = [q \in Pin |-> wants[q]]
  BY DEF PinsInv, PinTypes
<1>2. PICK level \in {"low", "high"} : pin' = [pin EXCEPT ![p] = Written(pin[p], set_level(level))]
  BY DEF set_output
<1>3. /\ todo = <<>> /\ owner[p] = "gpio" /\ UNCHANGED <<todo, untouched, owner, handed>>
      /\ wants' = [wants EXCEPT ![p] = Drives(pin'[p])]
  BY DEF set_output, Idle
<1>4. Written(pin[p], set_level(level)) \in [PinRegisters -> Values]
  <2>1. "odr" \in PinRegisters /\ level \in Values
    BY DEF PinRegisters, Values
  <2>2. set_level(level) \in PinWrites
    BY <2>1, AWrite DEF set_level
  <2> QED
    BY <1>1, <2>2, OneWrite DEF PinWrites
<1>5. pin' \in [Pin -> [PinRegisters -> Values]] /\ \A q \in Pin : q # p => pin'[q] = pin[q]
  BY <1>1, <1>2, <1>4
<1>6. /\ DOMAIN wants' = Pin /\ wants' = [q \in Pin |-> wants'[q]] /\ wants'[p] = Drives(pin'[p])
      /\ \A q \in Pin : q # p => wants'[q] = wants[q]
  BY <1>1, <1>3
<1>7. ASSUME NEW q \in Pin
      PROVE  \/ /\ pin'[q] = pin[q] /\ owner'[q] = owner[q] /\ wants'[q] = wants[q]
                /\ q \in handed' <=> q \in handed
             \/ /\ q \notin handed' => Drives(pin'[q]) = wants'[q]
                /\ owner'[q] = "free" =>
                     wants'[q] = Nothing /\ (q \notin handed' => pin'[q]["moder"] = "ANALOG")
  <2>1. CASE q = p
    BY <1>3, <1>6, <2>1
  <2>2. CASE q # p
    BY <1>3, <1>5, <1>6, <2>2
  <2> QED
    BY <2>1, <2>2
<1> QED
  BY <1>1, <1>3, <1>5, <1>6, <1>7, AtRest

\* A GPIO takes a free pin, which drives nothing until the last write.
LEMMA GpioNew == ASSUME PinsInv, NEW p \in Pin, gpio_new(p) PROVE PinsInv'
<1>1. /\ pin \in [Pin -> [PinRegisters -> Values]] /\ handed \subseteq Pin
      /\ DOMAIN owner = Pin /\ owner = [q \in Pin |-> owner[q]]
      /\ DOMAIN wants = Pin /\ wants = [q \in Pin |-> wants[q]]
  BY DEF PinsInv, PinTypes
<1>2. PICK c \in GpioConfig : todo' = On(p, c.writes) /\ wants' = [wants EXCEPT ![p] = c.wants]
  BY DEF gpio_new
<1>3. /\ todo = <<>> /\ owner[p] = "free" /\ UNCHANGED <<pin, untouched, handed>>
      /\ owner' = [owner EXCEPT ![p] = "gpio"]
  BY DEF gpio_new, Idle
<1>4. Configurations(todo', p, c.wants)
  BY <1>2, GpioSettles
<1>5. todo' \in Seq(Steps) /\ todo' # <<>> /\ 1 \in 1 .. Len(todo')
  <2>1. todo' \in Seq(Steps) /\ todo' # <<>>
    BY <1>4 DEF Configurations
  <2> QED
    BY <2>1
<1>6. todo'[1].pin = p /\ Now' = {p} /\ \A i \in 1 .. Len(todo') : todo'[i].pin = p
  BY <1>4, <1>5 DEF Configurations, Now
<1>7. untouched = {} /\ untouched' = {} /\ Busy = {} /\ Busy' = {p}
  BY <1>3, <1>6 DEF PinsInv, TodoInv, Busy, Now
<1>8. /\ \A q \in Pin \ handed : Drives(pin[q]) = wants[q]
      /\ \A q \in Pin : owner[q] = "free" =>
           wants[q] = Nothing /\ (q \notin handed => pin[q]["moder"] = "ANALOG")
  BY <1>7 DEF PinsInv, RestInv
<1>9. /\ DOMAIN owner' = Pin /\ owner' = [q \in Pin |-> owner'[q]] /\ owner'[p] = "gpio"
      /\ DOMAIN wants' = Pin /\ wants' = [q \in Pin |-> wants'[q]] /\ wants'[p] = c.wants
      /\ \A q \in Pin : q # p => owner'[q] = owner[q] /\ wants'[q] = wants[q]
  BY <1>1, <1>2, <1>3
<1>10. PinTypes'
  BY <1>1, <1>3, <1>5, <1>7, <1>9 DEF PinTypes
<1>11. RestInv'
  <2>1. \A q \in Pin \ (handed' \cup Busy') : Drives(pin'[q]) = wants'[q]
    BY <1>3, <1>7, <1>8, <1>9
  <2>2. \A q \in Busy' \ handed' : pin'[q]["moder"] = "ANALOG"
    BY <1>3, <1>7, <1>8
  <2>3. \A q \in Pin : owner'[q] = "free" =>
          q \notin Busy' /\ wants'[q] = Nothing /\ (q \notin handed' => pin'[q]["moder"] = "ANALOG")
    BY <1>3, <1>7, <1>8, <1>9
  <2> QED
    BY <2>1, <2>2, <2>3 DEF RestInv
<1>12. TodoInv'
  <2>1. Settles(todo', pin[p], c.wants)
    BY <1>1, <1>4, Zenon DEF Configurations
  <2>2. Settles(todo', pin'[todo'[1].pin], wants'[todo'[1].pin])
    BY <1>3, <1>6, <1>9, <2>1, Zenon
  <2> QED
    BY <1>5, <1>6, <1>7, <2>2 DEF TodoInv
<1> QED
  BY <1>10, <1>11, <1>12 DEF PinsInv

LEMMA PinsInvStep == PinsInv /\ [Next]_vars => PinsInv'
<1> SUFFICES ASSUME PinsInv, [Next]_vars PROVE PinsInv'
  OBVIOUS
<1>1. ASSUME NEW kind \in DOMAIN Kinds, begin(kind) PROVE PinsInv'
  BY <1>1, BeginTakesPins
<1>2. CASE write_pin
  BY <1>2, WritePinStays
<1>3. CASE UNCHANGED pins
  BY <1>3 DEF pins, PinsInv, PinTypes, RestInv, TodoInv, Busy, Now
<1>4. CASE uart_configured \/ enable_and_init \/ mco_started \/ split_pwm
  BY <1>3, <1>4 DEF uart_configured, enable_and_init, mco_started, split_pwm
<1>5. CASE uart_refused
  <2>1. doing \in DOMAIN Kinds
    BY <1>5, KindNames DEF uart_refused
  <2>2. {PinOf[r] : r \in RolesOf(doing)} \in SUBSET Pin
    BY <2>1, KindFacts, DriversAssumption DEF RolesOf
  <2> QED
    BY <1>5, <2>2, DisconnectFrees DEF uart_refused
<1>6. ASSUME NEW h \in Parts, drop_tx_rx(h) PROVE PinsInv'
  <2>1. PinsOf(h) \in SUBSET Pin
    BY DEF PinsOf
  <2> QED
    BY <1>6, <2>1, DisconnectFrees DEF drop_tx_rx, Idle
<1>7. ASSUME NEW h \in Parts, into_ring_buffered(h) \/ set_config(h) PROVE PinsInv'
  BY <1>3, <1>7 DEF into_ring_buffered, set_config
<1>8. ASSUME NEW h \in Parts, drop(h) PROVE PinsInv'
  <2>1. PinsOf(h) \in SUBSET Pin
    BY DEF PinsOf
  <2> QED
    BY <1>8, <2>1, DisconnectFrees, LeavesPins DEF drop, Idle
<1>9. ASSUME NEW p \in Pin, adc_setup(p) PROVE PinsInv'
  BY <1>9, AdcSetup
<1>10. ASSUME NEW p \in Pin, gpio_new(p) PROVE PinsInv'
  BY <1>10, GpioNew
<1>11. ASSUME NEW p \in Pin, set_output(p) PROVE PinsInv'
  BY <1>11, SetOutput
<1>12. ASSUME NEW p \in Pin, gpio_drop(p) PROVE PinsInv'
  <2>1. {p} \in SUBSET Pin
    OBVIOUS
  <2> QED
    BY <1>12, <2>1, DisconnectFrees DEF gpio_drop, Idle
<1>13. CASE UNCHANGED vars
  BY <1>3, <1>13 DEF vars
<1> QED
  BY <1>1, <1>2, <1>4, <1>5, <1>6, <1>7, <1>8, <1>9, <1>10, <1>11, <1>12, <1>13 DEF Next

LEMMA PinsInvInit == Init => PinsInv
<1> SUFFICES ASSUME Init PROVE PinsInv
  OBVIOUS
<1>1. /\ pin = [p \in Pin |-> Disconnected] /\ todo = <<>> /\ untouched = {} /\ handed = {}
      /\ owner = [p \in Pin |-> "free"] /\ wants = [p \in Pin |-> Nothing]
  BY DEF Init
<1>2. Disconnected \in [PinRegisters -> Values] /\ Disconnected["moder"] = "ANALOG"
      /\ Drives(Disconnected) = Nothing
  <2>1. {"ANALOG", "FLOATING", "none", "low"} \subseteq Values
    BY Zenon DEF Values
  <2>2. "PUSHPULL" \in Values
    BY DEF Values, Drivings
  <2>3. Disconnected \in [PinRegisters -> Values]
    BY <2>1, <2>2 DEF Disconnected, PinRegisters
  <2> QED
    BY <2>3 DEF Disconnected, Drives
<1>3. Busy = {}
  BY <1>1 DEF Busy, Now
<1>4. PinTypes
  BY <1>1, <1>2 DEF PinTypes
<1>5. RestInv
  BY <1>1, <1>2, <1>3 DEF RestInv
<1>6. TodoInv
  BY <1>1 DEF TodoInv
<1> QED
  BY <1>4, <1>5, <1>6 DEF PinsInv

LEMMA PinsInvPromises == ASSUME PinsInv PROVE PinsWellDriven
<1>1. \A p \in Pin \ (handed \cup Busy) : Drives(pin[p]) = wants[p]
  BY DEF PinsInv, RestInv
<1>2. \A p \in Busy \ handed : Drives(pin[p]) = Nothing
  BY DEF PinsInv, RestInv, Drives
<1>3. todo = <<>> => Busy = {}
  BY DEF PinsInv, TodoInv, Busy, Now
<1> HIDE DEF Drives, Busy
<1> QED
  BY <1>1, <1>2, <1>3 DEF PinsWellDriven

-------------------------------------------------------------------------------
(***************************************************************************)
(* The composition: a step is a step of one component, or of none.         *)
(***************************************************************************)

LEMMA OneStory ==
  ASSUME [FirmwareNext]_firmwareVars
  PROVE  [Next]_vars /\ [ChipNext]_chipVars /\ [FlashNext]_flashVars
         /\ [TickNext]_tickVars /\ [WriterNext]_writerVars
  BY DEF FirmwareNext, firmwareVars

\* SysTickDriver, its queue and its handler: a task asleep in the queue is woken at
\* the first tick after its time and not before it, and the alarm is the earliest
\* time in the queue, for every set of tasks and every length of the run.
THEOREM AlwaysWokenInTime == FirmwareSpec => []WokenInTime
<1>1. FirmwareInit => TickInv
  BY TickInvInit DEF FirmwareInit
<1>2. TickInv /\ [FirmwareNext]_firmwareVars => TickInv'
  BY TickInvStep, OneStory
<1>3. TickInv => WokenInTime
  BY DEF TickInv
<1> QED
  BY <1>1, <1>2, <1>3, PTL DEF FirmwareSpec

\* The flash driver's calls do what they return, for every size of the flash and of
\* its sectors and every set of protected pages: Ok means that the whole range is
\* programmed or erased and nothing else, an error names a true cause, and the
\* controller is left locked.
THEOREM FlashContractHolds == FirmwareSpec => []FlashContract
<1>1. FirmwareInit => FlashInv
  BY FlashInvInit DEF FirmwareInit
<1>2. FlashInv /\ [FirmwareNext]_firmwareVars => FlashInv'
  BY FlashInvStep, OneStory
<1>3. FlashInv => FlashContract
  BY DEF FlashInv
<1> QED
  BY <1>1, <1>2, <1>3, PTL DEF FirmwareSpec

\* The writing side of the DMA ring buffer keeps its contract for every buffer size,
\* every number of elements and every length of a write: a write that returns Ok was
\* in time, an overrun is reported only when one happened, DmaUnsynced never, and a
\* task that sleeps un-woken has seen every boundary the controller passed.
THEOREM WriterContractHolds == FirmwareSpec => []WriterContract
<1>1. FirmwareInit => WriterInv
  BY WriterInvInit DEF FirmwareInit
<1>2. WriterInv /\ [FirmwareNext]_firmwareVars => WriterInv'
  BY WriterInvStep, OneStory
<1>3. WriterInv => WriterContract
  BY WriterInvContract
<1> QED
  BY <1>1, <1>2, <1>3, PTL DEF FirmwareSpec

LEMMA FirmwareStartsClocks == FirmwareInit => ClockInv
<1> SUFFICES ASSUME FirmwareInit PROVE ClockInv
  OBVIOUS
<1>1. CASE story = "clocks"
  <2>1. PICK c \in Chips : \E asked \in Config(c) : ClockInitWith(c, asked)
    BY <1>1 DEF FirmwareInit, ChipInit, ClockInit
  <2> QED
    BY <2>1, ClockInvInit, ClockTreeAssumption
<1>2. CASE story # "clocks"
  <2> DEFINE c == "f002b"
  <2>1. PICK p \in Prescalers, d \in HsiDivs : TRUE
    BY ClockTreeAssumption
  <2>2. [hsi |-> None, hsidiv |-> d, hse |-> None, bypass |-> FALSE, sys |-> "HSI", pll |-> "none",
         mul |-> 2, ahb_pre |-> p, apb1_pre |-> p] \in Config(c)
    BY DEF Config, PllMul
  <2>3. FirstConfig \in Config(c)
    BY <2>2 DEF FirstConfig
  <2>4. ClockInitWith(c, FirstConfig)
    BY <1>2 DEF FirmwareInit
  <2> QED
    BY <2>3, <2>4, ClockInvInit
<1> QED
  BY <1>1, <1>2

\* rcc::init never overclocks the flash and never stops an oscillator in use, at any of
\* its steps, for every configuration it can be given: provided the board's external
\* clock is not faster than 48 MHz, which init checks on no f002b.
THEOREM ClocksAlwaysSafe == ASSUME HseWithinFlash PROVE FirmwareSpec => []ClockSafe
<1>1. FirmwareInit => ClockInv
  BY FirmwareStartsClocks
<1>2. ClockInv /\ [FirmwareNext]_firmwareVars => ClockInv'
  BY OneStory, ChipKeepsClocks, ClockInvStep
<1>3. ClockInv => ClockSafe
  BY ClockInvSafe
<1> QED
  BY <1>1, <1>2, <1>3, PTL DEF FirmwareSpec

\* The frequencies init freezes are those of the clocks the hardware then runs, with
\* every external clock: a driver divides the clock it really gets.
THEOREM FrequenciesAlwaysTrue == FirmwareSpec => []FrozenFrequencies
<1>1. FirmwareInit => ClockInv
  BY FirmwareStartsClocks
<1>2. ClockInv /\ [FirmwareNext]_firmwareVars => ClockInv'
  BY OneStory, ChipKeepsClocks, ClockInvStep
<1>3. ClockInv => FrozenFrequencies
  BY ClockInvFrozen
<1> QED
  BY <1>1, <1>2, <1>3, PTL DEF FirmwareSpec

\* The dividers every driver computes fit the registers they are written to and make
\* what was asked of the clock it really gets, for every rate, clock configuration and
\* chip; but nothing is said of an I2C speed that takes a divider beyond CCR's twelve
\* bits, nor of a dead time of 128 ticks or more.
THEOREM SettingsAlwaysFit == FirmwareSpec => []SettingFits
<1>1. FirmwareInit => ChipInv
  BY FirmwareStartsClocks, ChipInvInit DEF FirmwareInit, ChipInit
<1>2. ChipInv /\ [FirmwareNext]_firmwareVars => ChipInv'
  BY OneStory, ChipInvStep
<1>3. ChipInv => SettingFits
  BY DEF ChipInv
<1> QED
  BY <1>1, <1>2, <1>3, PTL DEF FirmwareSpec

\* A driver, or a half of one, that exists has its clock running and its registers as
\* they were written, and so has the time driver, whatever other drivers share its
\* enable bit and in whatever order they come and go: every set of pins, every
\* assignment of roles and of enable bits, any number of calls.
THEOREM DriversAlwaysClocked == FirmwareSpec => []ClockedWhileUsed
<1>1. FirmwareInit => PartsInv
  BY PartsInvInit DEF FirmwareInit
<1>2. PartsInv /\ [FirmwareNext]_firmwareVars => PartsInv'
  BY PartsInvStep, OneStory
<1>3. PartsInv => ClockedWhileUsed
  BY PartsInvPromises
<1> QED
  BY <1>1, <1>2, <1>3, PTL DEF FirmwareSpec

\* Between calls the clocks that run are those of the drivers that exist and of the
\* parts enabled at start: Drop of the last half, and a constructor that fails, give
\* back every clock, reference and buffer, and no more than they took.
THEOREM DriversAlwaysReleased == FirmwareSpec => []ReleasedWhenDropped
<1>1. FirmwareInit => PartsInv
  BY PartsInvInit DEF FirmwareInit
<1>2. PartsInv /\ [FirmwareNext]_firmwareVars => PartsInv'
  BY PartsInvStep, OneStory
<1>3. PartsInv => ReleasedWhenDropped
  BY PartsInvPromises
<1> QED
  BY <1>1, <1>2, <1>3, PTL DEF FirmwareSpec

\* A receiver, or the transmitting half of a buffered UART, has its interrupt enabled
\* and its UART on as long as it exists: no half that is dropped, and no constructor,
\* takes them away, but a set_config that fails does.
THEOREM InterruptsAlwaysServed == FirmwareSpec => []InterruptServed
<1>1. FirmwareInit => PartsInv
  BY PartsInvInit DEF FirmwareInit
<1>2. PartsInv /\ [FirmwareNext]_firmwareVars => PartsInv'
  BY PartsInvStep, OneStory
<1>3. PartsInv => InterruptServed
  BY PartsInvPromises
<1> QED
  BY <1>1, <1>2, <1>3, PTL DEF FirmwareSpec

\* Between any two register writes of a constructor, of a GPIO driver or of a Drop, a
\* pin drives nothing or what its holder asked for, for every set of pins and every
\* assignment of the roles to them, in whatever order a constructor takes its pins.
THEOREM PinsAlwaysWellDriven == FirmwareSpec => []PinsWellDriven
<1>1. FirmwareInit => PinsInv
  BY PinsInvInit DEF FirmwareInit
<1>2. PinsInv /\ [FirmwareNext]_firmwareVars => PinsInv'
  BY PinsInvStep, OneStory
<1>3. PinsInv => PinsWellDriven
  BY PinsInvPromises
<1> QED
  BY <1>1, <1>2, <1>3, PTL DEF FirmwareSpec

===============================================================================
