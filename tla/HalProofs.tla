----------------------------- MODULE HalProofs -----------------------------
(***************************************************************************)
(* Proofs about Hal, for every number of descriptors and interrupt lines   *)
(* and every word and tick of the timer.  The descriptor table, the        *)
(* interrupt bits, the clock, the alarm list and the sleep have an         *)
(* inductive invariant each; a step lemma per part says which actions      *)
(* touch it.                                                               *)
(***************************************************************************)
EXTENDS Hal, TLAPS, WellFoundedInduction

USE IrqAssumption, LineAssumption, TimerAssumption, FilesAssumption

-----------------------------------------------------------------------------
(* The descriptor table.  What is locked is in use, and what is in use is  *)
(* standard or held, hence within alt_max_fd: the search for a lock, which *)
(* ends there, sees every one.                                             *)
FilesInv ==
  /\ FilesTypeOK
  /\ Conserved
  /\ held \cap Standard = {}
  /\ \A i \in held : i <= alt_max_fd
  /\ \A i \in Fd : alt_fd_list[i].excl => ~Free(i)

(* The actions that change the table. *)
FilesStep ==
  \/ RegisterDevice(StdDevice)
  \/ FileCall
  \/ \E standard \in Standard : Redirect(standard)

LEMMA FilesTouched == [Next]_vars => FilesStep \/ UNCHANGED fileVars
<1> SUFFICES ASSUME [Next]_vars PROVE FilesStep \/ UNCHANGED fileVars
  OBVIOUS
<1>1. CASE StartUp
  <2>1. CASE RedirectAll
    BY <2>1 DEF RedirectAll, FilesStep, Standard
  <2>2. CASE AddDevice
    BY <2>2 DEF AddDevice, FilesStep
  <2>3. CASE ~RedirectAll /\ ~AddDevice
    BY <1>1, <2>3 DEF StartUp, InitDriver, Exit, Halt
  <2> QED BY <2>1, <2>2, <2>3
<1>2. CASE Main
  BY <1>2 DEF Main, UseAlarms, UseSleep, UseTimeOfDay, UseHandlers, UseFiles,
              FilesStep
<1>3. CASE TrapRoutine
  BY <1>3 DEF TrapRoutine
<1>4. CASE \E r \in Reader : GetTime(r) /\ UNCHANGED fileVars
  BY <1>4
<1>5. CASE Environment
  BY <1>5 DEF Environment
<1>6. CASE UNCHANGED vars
  BY <1>6 DEF vars
<1> QED BY <1>1, <1>2, <1>3, <1>4, <1>5, <1>6 DEF Next

LEMMA FilesInitially == Init => FilesInv
<1> SUFFICES ASSUME FilesInit PROVE FilesInv
  BY DEF Init
<1> USE DEF FilesInit, Fd, Standard, Entry, FreeEntry
<1>1. FilesTypeOK
  BY DEF FilesTypeOK
<1>2. \A i \in Fd : Free(i) <=> i \notin Standard
  BY DEF Free
<1>3. Conserved
  BY <1>2 DEF Conserved
<1> QED BY <1>1, <1>3 DEF FilesInv

(* The descriptor alt_get_fd picks is none of the standard ones. *)
LEMMA FirstIsNew ==
  ASSUME FilesInv, NEW i \in Fd, First(i)
  PROVE  /\ i \notin Standard /\ i \notin held
         /\ RaisedTo(i) \in -1 .. ALT_MAX_FD - 1
         /\ RaisedTo(i) >= i /\ RaisedTo(i) >= alt_max_fd
<1>1. Free(i)
  BY DEF First
<1>2. i \notin Standard /\ i \notin held
  BY <1>1 DEF FilesInv, Conserved
<1>3. alt_max_fd \in -1 .. ALT_MAX_FD - 1
  BY DEF FilesInv, FilesTypeOK
<1> QED BY <1>2, <1>3 DEF RaisedTo, Fd

LEMMA FilesStepPreserves == FilesInv /\ FilesStep => FilesInv'
<1> SUFFICES ASSUME FilesInv, FilesStep PROVE FilesInv'
  OBVIOUS
<1> USE DEF FilesInv, FilesTypeOK, Conserved, Free, Entry, FreeEntry
<1>1. ASSUME NEW dev \in Device, RegisterDevice(dev)
      PROVE  FilesInv'
  BY <1>1 DEF RegisterDevice
<1>2. CASE RegisterFileSystem
  BY <1>2 DEF RegisterFileSystem
<1>3. CASE Open
  <2>1. PICK dev \in alt_dev_list \cup alt_fs_list, i \in Fd :
          /\ First(i)
          /\ alt_max_fd' = RaisedTo(i)
          /\ \/ Granted(dev, i) /\ held' = held \cup {i}
             \/ Refused(dev, i) /\ UNCHANGED held
          /\ UNCHANGED <<alt_dev_list, alt_fs_list>>
    BY <1>3 DEF Open
  <2>2. /\ i \notin Standard /\ i \notin held
        /\ RaisedTo(i) \in -1 .. ALT_MAX_FD - 1
        /\ RaisedTo(i) >= i /\ RaisedTo(i) >= alt_max_fd
    BY <2>1, FirstIsNew
  <2>3. dev # NoDev /\ dev \in Device \cup FileSystem
    OBVIOUS
  <2>4. \A j \in held : j <= RaisedTo(i)
    <3>1. held \subseteq Int /\ alt_max_fd \in Int /\ RaisedTo(i) \in Int
      BY <2>2 DEF Fd
    <3> QED BY <2>2, <3>1
  <2>5. CASE Granted(dev, i) /\ held' = held \cup {i}
    <3>1. alt_fd_list' = [alt_fd_list EXCEPT ![i] =
                            [dev |-> dev, excl |-> FALSE,
                             isdev |-> dev \in alt_dev_list]]
      BY <2>5 DEF Granted
    <3>2. \A j \in Fd : j # i => alt_fd_list'[j] = alt_fd_list[j]
      BY <3>1
    <3>3. alt_fd_list'[i].dev # NoDev /\ alt_fd_list'[i].excl = FALSE
      BY <2>3, <3>1
    <3>4. FilesTypeOK'
      BY <2>1, <2>2, <2>3, <2>5, <3>1
    <3>5. Conserved'
      <4>1. \A j \in Fd \ Standard : alt_fd_list'[j].dev # NoDev <=> j \in held'
        BY <2>1, <2>2, <2>5, <3>2, <3>3
      <4>2. \A j \in Standard : alt_fd_list'[j].dev # NoDev
        BY <2>2, <3>2 DEF Standard, Fd
      <4>3. held' \subseteq Fd \ Standard
        BY <2>1, <2>2, <2>5
      <4> QED BY <4>1, <4>2, <4>3
    <3>6. \A j \in held' : j <= alt_max_fd'
      BY <2>1, <2>2, <2>4, <2>5
    <3>7. \A j \in Fd : alt_fd_list'[j].excl => alt_fd_list'[j].dev # NoDev
      BY <3>2, <3>3
    <3> QED BY <2>2, <2>5, <3>4, <3>5, <3>6, <3>7
  <2>6. CASE Refused(dev, i) /\ UNCHANGED held
    <3>1. alt_fd_list' = [alt_fd_list EXCEPT ![i] =
                            [dev |-> NoDev, excl |-> FALSE, isdev |-> FALSE]]
      BY <2>6 DEF Refused
    <3>2. \A j \in Fd : j # i => alt_fd_list'[j] = alt_fd_list[j]
      BY <3>1
    <3>3. alt_fd_list'[i].dev = NoDev /\ alt_fd_list'[i].excl = FALSE
      BY <3>1
    <3>4. FilesTypeOK'
      BY <2>1, <2>2, <2>6, <3>1
    <3>5. Conserved'
      <4>1. \A j \in Fd \ Standard : alt_fd_list'[j].dev # NoDev <=> j \in held'
        BY <2>1, <2>2, <2>6, <3>2, <3>3
      <4>2. \A j \in Standard : alt_fd_list'[j].dev # NoDev
        BY <2>2, <3>2 DEF Standard, Fd
      <4>3. held' \subseteq Fd \ Standard
        BY <2>1, <2>2, <2>6
      <4> QED BY <4>1, <4>2, <4>3
    <3>6. \A j \in held' : j <= alt_max_fd'
      BY <2>1, <2>2, <2>4, <2>6
    <3>7. \A j \in Fd : alt_fd_list'[j].excl => alt_fd_list'[j].dev # NoDev
      BY <3>2, <3>3
    <3> QED BY <2>2, <2>6, <3>4, <3>5, <3>6, <3>7
  <2> QED BY <2>1, <2>5, <2>6
<1>4. CASE Close
  <2>1. PICK i \in held :
          /\ alt_fd_list' = [alt_fd_list EXCEPT ![i] =
                               [dev |-> NoDev, excl |-> FALSE, isdev |-> FALSE]]
          /\ held' = held \ {i}
          /\ UNCHANGED <<alt_dev_list, alt_fs_list, alt_max_fd>>
    BY <1>4 DEF Close
  <2>2. \A j \in Fd : j # i => alt_fd_list'[j] = alt_fd_list[j]
    BY <2>1
  <2>3. i \in Fd /\ i \notin Standard
    OBVIOUS
  <2>4. alt_fd_list'[i].dev = NoDev /\ alt_fd_list'[i].excl = FALSE
    BY <2>1, <2>3
  <2>5. FilesTypeOK'
    BY <2>1, <2>3
  <2> QED BY <2>1, <2>2, <2>3, <2>4, <2>5
<1>5. ASSUME NEW i \in held \cup Standard, NEW excl \in BOOLEAN,
             alt_fd_list[i].isdev,
             alt_fd_list' = [alt_fd_list EXCEPT ![i].excl = excl],
             UNCHANGED <<alt_dev_list, alt_fs_list, alt_max_fd, held>>
      PROVE  FilesInv'
  <2>1. i \in Fd
    BY DEF Standard, Fd
  <2>2. ~Free(i)
    BY <2>1
  <2>3. \A j \in Fd : alt_fd_list'[j].dev = alt_fd_list[j].dev
    BY <1>5, <2>1
  <2>4. \A j \in Fd : j # i => alt_fd_list'[j] = alt_fd_list[j]
    BY <1>5
  <2>5. FilesTypeOK'
    BY <1>5, <2>1
  <2> QED BY <1>5, <2>1, <2>2, <2>3, <2>4, <2>5
<1>6. CASE Lock
  BY <1>5, <1>6 DEF Lock
<1>7. CASE Unlock
  BY <1>5, <1>7 DEF Unlock
<1>8. ASSUME NEW standard \in Standard, Redirect(standard)
      PROVE  FilesInv'
  <2>1. PICK i \in Fd :
          /\ First(i)
          /\ alt_max_fd' = RaisedTo(i)
          /\ alt_fd_list' = [alt_fd_list EXCEPT
               ![standard] = [dev |-> StdDevice, excl |-> FALSE, isdev |-> TRUE],
               ![i] = [dev |-> NoDev, excl |-> FALSE, isdev |-> FALSE]]
          /\ UNCHANGED <<alt_dev_list, alt_fs_list, held>>
    BY <1>8 DEF Redirect
  <2>2. /\ i \notin Standard /\ i \notin held
        /\ RaisedTo(i) \in -1 .. ALT_MAX_FD - 1
        /\ RaisedTo(i) >= alt_max_fd
    BY <2>1, FirstIsNew
  <2>3. standard \in Fd /\ standard # i
    BY <2>2 DEF Standard, Fd
  <2>4. /\ alt_fd_list'[standard].dev = StdDevice
        /\ alt_fd_list'[standard].excl = FALSE
        /\ alt_fd_list'[i].dev = NoDev /\ alt_fd_list'[i].excl = FALSE
        /\ \A j \in Fd \ {standard, i} : alt_fd_list'[j] = alt_fd_list[j]
    BY <2>1, <2>3
  <2>5. StdDevice # NoDev
    OBVIOUS
  <2>6. Free(i)
    BY <2>1 DEF First
  <2>7. FilesTypeOK'
    BY <2>1, <2>2, <2>3
  <2>8. Conserved'
    <3>1. \A j \in Fd \ Standard : alt_fd_list'[j].dev # NoDev <=> j \in held'
      BY <2>1, <2>2, <2>4, <2>6
    <3>2. \A j \in Standard : alt_fd_list'[j].dev # NoDev
      BY <2>2, <2>4, <2>5 DEF Standard, Fd
    <3> QED BY <2>1, <3>1, <3>2
  <2>9. \A j \in held' : j <= alt_max_fd'
    <3>1. held \subseteq Int /\ alt_max_fd \in Int /\ RaisedTo(i) \in Int
      BY <2>2 DEF Fd
    <3> QED BY <2>1, <2>2, <3>1
  <2>10. \A j \in Fd : alt_fd_list'[j].excl => alt_fd_list'[j].dev # NoDev
    BY <2>4
  <2> QED BY <2>1, <2>7, <2>8, <2>9, <2>10
<1> QED BY <1>1, <1>2, <1>3, <1>4, <1>6, <1>7, <1>8 DEF FilesStep, FileCall

(* The step of every behaviour keeps the table's invariant. *)
LEMMA FilesPreserved == FilesInv /\ [Next]_vars => FilesInv'
<1>1. FilesInv /\ UNCHANGED fileVars => FilesInv'
  BY DEF FilesInv, FilesTypeOK, Conserved, Free, fileVars
<1> QED BY <1>1, FilesTouched, FilesStepPreserves

(* The table keeps its types, for every size of it (alt_dev.c:128-147). *)
THEOREM FilesTypeCorrect == Spec => []FilesTypeOK
<1>1. FilesInv => FilesTypeOK
  BY DEF FilesInv
<1> QED BY <1>1, FilesInitially, FilesPreserved, PTL DEF Spec

(* No descriptor is lost by an open that fails and none is given twice     *)
(* (alt_open.c:105-171, alt_close.c:64-101).                               *)
THEOREM DescriptorsConserved == Spec => []Conserved
<1>1. FilesInv => Conserved
  BY DEF FilesInv
<1> QED BY <1>1, FilesInitially, FilesPreserved, PTL DEF Spec

(* No open succeeds on a device another descriptor has locked              *)
(* (alt_open.c:64-92), in whatever order descriptors come and go.          *)
THEOREM LocksHold == Spec => LockedOut
<1> DEFINE Out == \A i \in held' \ held : \A j \in Fd \ {i} :
                    alt_fd_list'[i].isdev /\ alt_fd_list[j].excl =>
                      alt_fd_list[j].dev # alt_fd_list'[i].dev
<1>1. ASSUME FilesInv, Open PROVE Out
  <2>1. PICK dev \in alt_dev_list \cup alt_fs_list, i \in Fd :
          /\ First(i)
          /\ alt_max_fd' = RaisedTo(i)
          /\ \/ Granted(dev, i) /\ held' = held \cup {i}
             \/ Refused(dev, i) /\ UNCHANGED held
    BY <1>1 DEF Open
  <2>2. SUFFICES ASSUME Granted(dev, i), held' = held \cup {i},
                        NEW j \in Fd \ {i},
                        alt_fd_list'[i].isdev, alt_fd_list[j].excl
                 PROVE  alt_fd_list[j].dev # alt_fd_list'[i].dev
    BY <2>1
  <2>3. /\ alt_fd_list'[i].dev = dev
        /\ dev \in alt_dev_list
    BY <1>1, <2>2 DEF Granted, Entry, FilesInv, FilesTypeOK
  <2>4. j \in held \cup Standard
    BY <1>1, <2>2 DEF FilesInv, Conserved
  <2>5. j <= RaisedTo(i)
    <3>1. /\ i \notin Standard
          /\ RaisedTo(i) >= i /\ RaisedTo(i) >= alt_max_fd
          /\ RaisedTo(i) \in Int
      BY <1>1, <2>1, FirstIsNew
    <3>2. i \in Int /\ j \in Int /\ i >= 0 /\ alt_max_fd \in Int
      BY <1>1 DEF Fd, FilesInv, FilesTypeOK
    <3>3. CASE j \in held
      BY <1>1, <3>1, <3>2, <3>3 DEF FilesInv
    <3>4. CASE j \in Standard
      BY <3>1, <3>2, <3>4 DEF Standard
    <3> QED BY <2>4, <3>3, <3>4
  <2>6. j \notin LockedBy(dev, i)
    BY <2>2, <2>3 DEF Granted
  <2> QED BY <2>2, <2>3, <2>5, <2>6 DEF LockedBy
<1>2. FilesInv /\ FilesStep => Out
  <2> SUFFICES ASSUME FilesInv, FilesStep, ~Open PROVE Out
    BY <1>1
  <2>1. held' \subseteq held
    BY DEF FilesStep, RegisterDevice, FileCall, RegisterFileSystem, Close,
           Lock, Unlock, Redirect
  <2> QED BY <2>1
<1>3. FilesInv /\ [Next]_vars => [Out]_fileVars
  BY <1>2, FilesTouched
<1> QED BY <1>3, FilesInitially, FilesPreserved, PTL DEF Spec, LockedOut

-----------------------------------------------------------------------------
(* The interrupts.  The trap routine and a call that changes the enable    *)
(* bits or the handlers exclude each other, and between such calls every   *)
(* enabled line has a handler.  Only a sleep is interrupted.               *)
Interruptible == {"none", "sleep_start", "sleep_spin"}

HandlersInv ==
  /\ ProcessorTypeOK
  /\ isr # "off" => ~MIE /\ op \in Interruptible
  /\ op \notin Interruptible => ~MIE
  /\ op \in {"reg_set", "reg_enable", "reg_done"} => irq \in Line
  /\ routine \in BOOLEAN
  /\ op = "reg_enable" => mie \ {irq} \subseteq alt_irq
                          /\ (routine => irq \in alt_irq)
  /\ op # "reg_enable" => mie \subseteq alt_irq
  /\ isr = "call" => active \subseteq alt_irq /\ active # {}

LEMMA HandlersInitially == Init => HandlersInv
  BY DEF Init, ProcessorInit, HandlersInv, ProcessorTypeOK, Interruptible

LEMMA LowestIsActive ==
  ASSUME active \subseteq Line, active # {}
  PROVE  Lowest \in active
<1> DEFINE R == OpToRel(<, Nat)
<1>1. IsWellFoundedOn(R, Nat)
  BY NatLessThanWellFounded
<1>2. active \subseteq Nat
  BY DEF Line
<1> HIDE DEF R
<1>3. PICK line \in active : \A other \in active : ~ (<<other, line>> \in R)
  BY <1>1, <1>2, WFMin
<1>4. \A other \in active : line <= other
  <2> SUFFICES ASSUME NEW other \in active, other < line PROVE FALSE
    BY <1>2
  <2>1. other \in Nat /\ line \in Nat
    BY <1>2
  <2>2. <<other, line>> \in R
    BY <2>1 DEF R, OpToRel
  <2> QED BY <1>3, <2>2
<1> QED BY <1>4 DEF Lowest

(* The actions that change the interrupt bits, the handlers or the trap    *)
(* routine.                                                                *)
LEMMA HandlersPreserved == HandlersInv /\ [Next]_vars => HandlersInv'
<1> SUFFICES ASSUME HandlersInv, [Next]_vars PROVE HandlersInv'
  OBVIOUS
<1> USE DEF HandlersInv, ProcessorTypeOK, Interruptible, irqVars, cpuVars, At,
            Program, Doing
<1>1. ASSUME NEW line \in Line, NEW given \in BOOLEAN,
             CallRegister(line, given), isr = "off"
      PROVE  HandlersInv'
  BY <1>1 DEF CallRegister, DisableAll
<1>2. CASE StartUp
  <2>1. CASE InitIrq
    BY <2>1 DEF InitIrq
  <2>2. CASE InitDriver
    BY <1>1, <2>2 DEF InitDriver
  <2>3. CASE AddDevice \/ InitClock \/ ArmTimer \/ RedirectAll \/ Exit \/ Halt
    BY <2>3 DEF AddDevice, InitClock, ArmTimer, RedirectAll, Exit, Halt
  <2> QED BY <1>2, <2>1, <2>2, <2>3 DEF StartUp
<1>3. CASE Main
  <2>1. CASE UseAlarms
    BY <2>1 DEF UseAlarms, CallStart, CallStop, DisableAll
  <2>2. CASE UseHandlers
    BY <1>1, <2>2 DEF UseHandlers
  <2>3. CASE UseFiles
    BY <2>3 DEF UseFiles
  <2>4. CASE StartTime \/ StartLink \/ StopUnlink
    BY <2>4 DEF StartTime, StartLink, StopUnlink
  <2>5. CASE AlarmDone
    BY <2>5 DEF AlarmDone, EnableAll
  <2>6. CASE RegisterSet
    BY <2>6 DEF RegisterSet
  <2>7. CASE RegisterEnable
    BY <2>7 DEF RegisterEnable
  <2>8. CASE RegisterDone
    BY <2>8 DEF RegisterDone, EnableAll
  <2>9. CASE UseSleep
    BY <2>9 DEF UseSleep, CallSleep, awakeVars
  <2>10. CASE UseTimeOfDay
    BY <2>10 DEF UseTimeOfDay, SetTimeOfDay
  <2>11. CASE SleepStep
    BY <2>11 DEF SleepStep, StartTimestamp, Spin, awakeVars
  <2> QED BY <1>3, <2>1, <2>2, <2>3, <2>4, <2>5, <2>6, <2>7, <2>8, <2>9, <2>10,
             <2>11
          DEF Main, AlarmStep, RegisterStep
<1>4. CASE TrapRoutine
  <2>1. CASE Trap
    BY <2>1 DEF Trap
  <2>2. CASE LookPending
    BY <2>2 DEF LookPending, Pending
  <2>3. CASE CallHandler
    BY <2>3 DEF CallHandler
  <2>4. CASE TimerTrap
    BY <2>4 DEF TimerTrap
  <2>5. CASE Rearm \/ Tick \/ Walk
    BY <2>5 DEF Rearm, Tick, Walk
  <2>6. CASE TickDone
    BY <2>6 DEF TickDone
  <2> QED BY <1>4, <2>1, <2>2, <2>3, <2>4, <2>5, <2>6
          DEF TrapRoutine, PlatformIsr, TimerIsr
<1>5. CASE \E r \in Reader : GetTime(r)
  BY <1>5 DEF GetTime
<1>6. CASE Environment
  BY <1>6 DEF Environment, Raise, Count
<1>7. CASE UNCHANGED vars
  BY <1>7 DEF vars
<1> QED BY <1>2, <1>3, <1>4, <1>5, <1>6, <1>7 DEF Next

(* Every line the trap routine serves has a handler, for any number of     *)
(* lines and however handlers come and go                                  *)
(* (alt_iic_isr_register.c:80-87, alt_irq_handler.c:206-217).              *)
THEOREM HandlersAreThere == Spec => []HandlersThere
<1>1. HandlersInv => HandlersThere
  BY LowestIsActive DEF HandlersInv, ProcessorTypeOK, HandlersThere
<1> QED BY <1>1, HandlersInitially, HandlersPreserved, PTL DEF Spec

-----------------------------------------------------------------------------
(* The clock.  Products with Delta and Word are kept apart from the        *)
(* inequalities between them.                                              *)
Ticks(n) == n * Delta
Joined(high, low) == high * Word + low

LEMMA TicksGrow ==
  /\ Ticks(0) = 0
  /\ \A n \in Nat : Ticks(n) \in Nat /\ Ticks(n + 1) = Ticks(n) + Delta
  BY DEF Ticks

LEMMA WordsJoin ==
  ASSUME NEW t \in Nat
  PROVE  /\ t \div Word \in Nat /\ (t % Word) \in Nat
         /\ t = Joined(t \div Word, t % Word)
         /\ t \div Word <= (t + 1) \div Word
<1>1. \A u \in Nat : /\ u \div Word \in Int /\ (u % Word) \in 0 .. Word - 1
                     /\ u = (u \div Word) * Word + (u % Word)
  OBVIOUS
<1>2. t \div Word \in Nat
  OBVIOUS
<1> DEFINE a == t \div Word
           b == (t + 1) \div Word
           c == t % Word
           e == (t + 1) % Word
<1>3. /\ a \in Int /\ b \in Int /\ c \in 0 .. Word - 1 /\ e \in 0 .. Word - 1
      /\ t = a * Word + c /\ t + 1 = b * Word + e
  BY <1>1
<1> HIDE DEF a, b, c, e
<1>4. ASSUME b + 1 <= a PROVE FALSE
  <2>1. (b + 1) * Word <= a * Word
    BY <1>3, <1>4
  <2>2. (b + 1) * Word = b * Word + Word
    BY <1>3
  <2> QED BY <1>3, <2>1, <2>2
<1>5. a <= b
  BY <1>3, <1>4
<1>6. a \in Nat /\ c \in Nat /\ t = Joined(a, c)
  BY <1>2, <1>3 DEF a, Joined
<1> QED BY <1>5, <1>6 DEF a, b, c

LEMMA JoinedIsNat ==
  ASSUME NEW high \in Nat, NEW low \in Nat
  PROVE  Joined(high, low) \in Nat
  BY DEF Joined

(* The time the next tick stands for. *)
Due == Ticks(nticks + 1)

(* What the trap routine's reading of mtime has come to: as long as the    *)
(* high word has not moved since it was read, the two words together are   *)
(* no earlier than the tick.                                               *)
ReadingInv ==
  LET r == reading["isr"]
      same == mtime \div Word = r.high
  IN  /\ r.step \in {"high", "low", "again", "done"}
      /\ r.step \in {"low", "again"} => r.high <= mtime \div Word
      /\ r.step = "again" /\ same => Due <= Joined(r.high, r.low)
      /\ r.step = "done" => Due <= Joined(r.high, r.low)

ClockTypeOK ==
  /\ mtime \in Nat /\ mtimecmp \in Nat /\ nticks \in Nat /\ mtie \in BOOLEAN
  /\ reading \in [Reader -> [step : {"high", "low", "again", "done"},
                             high : Nat, low : Nat]]

ClockInv ==
  /\ ClockTypeOK
  /\ Ticks(nticks) <= mtime
  /\ mtie => stage \in {"stdout", "stdin", "stderr", "main", "exit"}
  /\ ~mtie => nticks = 0 /\ isr \notin {"rearm", "tick"}
  /\ isr = "rearm" => Due <= mtime /\ ReadingInv
  /\ isr = "tick" => Due <= mtime /\ Due + Delta <= mtimecmp
  /\ mtie /\ isr \notin {"rearm", "tick"} => Due <= mtimecmp

LEMMA UnreadIsIdle ==
  Unread \in [step : {"high", "low", "again", "done"}, high : Nat, low : Nat]
  BY DEF Unread

LEMMA ClockInitially == Init => ClockInv
<1> SUFFICES ASSUME ProcessorInit, TimerInit PROVE ClockInv
  BY DEF Init
<1>1. ClockTypeOK
  BY DEF ProcessorInit, TimerInit, ClockTypeOK, Unread
<1> QED BY <1>1, TicksGrow DEF ProcessorInit, TimerInit, ClockInv

(* A step of the reading: what it read agrees with what mtime was. *)
LEMMA ReadingStep ==
  ASSUME ClockInv, NEW r \in Reader, GetTime(r)
  PROVE  /\ ClockTypeOK'
         /\ isr = "rearm" => ReadingInv'
<1> USE DEF GetTime, ReadMtime, Reading, Reader, ClockInv, ClockTypeOK
<1>1. /\ mtime \div Word \in Nat /\ (mtime % Word) \in Nat
      /\ mtime = Joined(mtime \div Word, mtime % Word)
  BY WordsJoin
<1>2. UNCHANGED <<mtime, mtimecmp, nticks>>
  BY DEF alarmVars
<1>3. ClockTypeOK'
  <2>1. mtie' = mtie
    BY DEF cpuVars
  <2> QED BY <1>1, <1>2, <2>1
<1>4. ASSUME isr = "rearm" PROVE ReadingInv'
  <2>1. Due' = Due
    BY <1>2 DEF Due
  <2>2. CASE r = "program"
    <3>1. reading'["isr"] = reading["isr"]
      BY <2>2
    <3> QED BY <1>2, <1>4, <2>1, <3>1 DEF ReadingInv
  <2>3. CASE r = "isr"
    <3> DEFINE old == reading["isr"]
               new == reading'["isr"]
    <3>1. CASE old.step = "high"
      <4>1. new.step = "low" /\ new.high = mtime \div Word
        BY <2>3, <3>1
      <4> QED BY <1>1, <1>2, <4>1 DEF ReadingInv
    <3>2. CASE old.step = "low"
      <4>1. new.step = "again" /\ new.high = old.high
            /\ new.low = mtime % Word
        BY <2>3, <3>2
      <4> QED BY <1>1, <1>2, <1>4, <2>1, <3>2, <4>1 DEF ReadingInv
    <3>3. CASE old.step = "again"
      <4>1. /\ new.high = old.high /\ new.low = old.low
            /\ new.step = IF mtime \div Word = old.high THEN "done" ELSE "high"
        BY <2>3, <3>3
      <4> QED BY <1>1, <1>2, <1>4, <2>1, <3>3, <4>1 DEF ReadingInv
    <3> QED BY <2>3, <3>1, <3>2, <3>3
  <2> QED BY <2>2, <2>3
<1> QED BY <1>3, <1>4

LEMMA ClockPreserved == ClockInv /\ [Next]_vars => ClockInv'
<1> SUFFICES ASSUME ClockInv, [Next]_vars PROVE ClockInv'
  OBVIOUS
<1>1. /\ Ticks(nticks) \in Nat /\ Due \in Nat
      /\ Due = Ticks(nticks) + Delta
      /\ Ticks(nticks + 1 + 1) = Due + Delta
  BY TicksGrow DEF ClockInv, ClockTypeOK, Due
(* What leaves the clock, the ticks and the trap routine's part of it.     *)
<1>2. ASSUME UNCHANGED <<clockVars, nticks, mtie>>,
             isr' = isr \/ {isr, isr'} \subseteq {"off", "pending", "call", "walk"},
             stage' = stage \/ ~mtie \/ stage' \in {"stdin", "stderr", "main", "exit"}
      PROVE  ClockInv'
  <2>1. Due' = Due /\ Ticks(nticks)' = Ticks(nticks)
    BY <1>2 DEF Due
  <2>2. ReadingInv' <=> ReadingInv
    BY <1>2, <2>1 DEF ReadingInv, clockVars
  <2> QED BY <1>2, <2>1, <2>2 DEF ClockInv, ClockTypeOK, clockVars
<1>3. CASE StartUp
  <2>1. CASE InitIrq
    <3>1. /\ ~mtie /\ mtie' = FALSE /\ isr' = isr /\ stage' = "i2c"
          /\ UNCHANGED timerVars
      BY <2>1, <1>3 DEF InitIrq, At, Program, ClockInv, StartUp, InitDriver,
                        AddDevice, InitClock, ArmTimer, RedirectAll, Exit, Halt
    <3>2. mtie' = mtie
      BY <3>1 DEF ClockInv, ClockTypeOK
    <3> QED BY <1>2, <3>1, <3>2 DEF timerVars, alarmVars
  <2>2. CASE InitDriver
    <3>1. ~mtie
      BY <2>2 DEF InitDriver, At, ClockInv
    <3> QED BY <1>2, <2>2, <3>1
            DEF InitDriver, CallRegister, timerVars, alarmVars
  <2>3. CASE AddDevice
    <3>1. ~mtie
      BY <2>3 DEF AddDevice, At, ClockInv
    <3> QED BY <1>2, <2>3, <3>1 DEF AddDevice, timerVars, alarmVars
  <2>4. CASE InitClock
    <3>1. ~mtie /\ ~mtie' /\ isr = "off" /\ isr' = "off"
      BY <2>4 DEF InitClock, At, Program, ClockInv
    <3>2. UNCHANGED <<mtime, mtimecmp, nticks>>
      BY <2>4 DEF InitClock
    <3>3. ClockTypeOK'
      BY <2>4, <3>1, <3>2 DEF InitClock, BeginReading, ClockInv, ClockTypeOK
    <3> QED BY <3>1, <3>2, <3>3 DEF ClockInv
  <2>5. CASE ArmTimer
    <3>1. /\ ~mtie /\ isr = "off" /\ isr' = "off" /\ nticks = 0
          /\ stage' = "stdout"
      BY <2>5 DEF ArmTimer, At, Program, ClockInv
    <3>2. UNCHANGED <<mtime, nticks>>
      BY <2>5 DEF ArmTimer, alarmVars
    <3>3. Joined(reading["program"].high, reading["program"].low) \in Nat
      BY JoinedIsNat DEF ClockInv, ClockTypeOK, Reader
    <3>4. mtimecmp' =
            Joined(reading["program"].high, reading["program"].low) + Delta
      BY <2>5 DEF ArmTimer, SetMtimecmp, TimeRead, Joined
    <3>5. Due' <= mtimecmp'
      BY <1>1, <3>1, <3>2, <3>3, <3>4, TicksGrow DEF Due
    <3>6. ClockTypeOK'
      <4>1. mtie' \in BOOLEAN /\ mtimecmp' \in Nat
        BY <2>5, <3>3, <3>4 DEF ArmTimer
      <4>2. reading' = [reading EXCEPT !["program"] = Unread]
        BY <2>5 DEF ArmTimer, SetMtimecmp
      <4> QED BY <3>2, <4>1, <4>2, UnreadIsIdle DEF ClockInv, ClockTypeOK
    <3> QED BY <3>1, <3>2, <3>5, <3>6 DEF ClockInv
  <2>6. CASE RedirectAll \/ Exit \/ Halt
    BY <1>2, <2>6
       DEF RedirectAll, Exit, Halt, cpuVars, timerVars, alarmVars
  <2> QED BY <1>3, <2>1, <2>2, <2>3, <2>4, <2>5, <2>6 DEF StartUp
<1>4. CASE Main
  <2>1. CASE UseAlarms \/ AlarmStep
    BY <1>2, <2>1 DEF UseAlarms, CallStart, CallStop, AlarmStep, StartTime,
                      StartLink, StopUnlink, AlarmDone
  <2>2. CASE UseHandlers \/ (RegisterStep /\ UNCHANGED timerVars)
    BY <1>2, <2>2 DEF UseHandlers, CallRegister, RegisterStep, RegisterSet,
                      RegisterEnable, RegisterDone, timerVars, alarmVars
  <2>3. CASE UseFiles
    BY <1>2, <2>3 DEF UseFiles, cpuVars, timerVars, alarmVars
  <2>4. CASE UseTimeOfDay
    BY <1>2, <2>4 DEF UseTimeOfDay, SetTimeOfDay, cpuVars, timerVars, alarmVars
  <2>5. CASE UseSleep \/ SleepStep
    <3>1. /\ isr = "off"
          /\ UNCHANGED <<mtime, mtimecmp, nticks, mtie, isr, stage>>
      BY <2>5 DEF UseSleep, CallSleep, SleepStep, StartTimestamp, Spin, At,
                  Doing, Program, awakeVars, alarmVars
    <3>2. \/ reading' = [reading EXCEPT !["program"] = Unread]
          \/ Anew
      BY <2>5 DEF UseSleep, CallSleep, SleepStep, StartTimestamp, Spin
    <3>3. ClockTypeOK'
      BY <3>1, <3>2, UnreadIsIdle
         DEF ClockInv, ClockTypeOK, Reader, Anew, Unread
    <3>4. Due' = Due /\ Ticks(nticks)' = Ticks(nticks)
      BY <3>1 DEF Due
    <3> QED BY <3>1, <3>3, <3>4 DEF ClockInv
  <2> QED BY <1>4, <2>1, <2>2, <2>3, <2>4, <2>5 DEF Main
<1>5. CASE TrapRoutine
  <2>1. CASE (Trap \/ PlatformIsr) /\ UNCHANGED timerVars
    BY <1>2, <2>1 DEF Trap, PlatformIsr, LookPending, CallHandler, Program,
                      timerVars, alarmVars
  <2>2. CASE TimerTrap
    <3>1. /\ isr = "off" /\ isr' = "rearm" /\ mtie /\ mtie' = mtie
          /\ stage' = stage /\ mtime >= mtimecmp
          /\ UNCHANGED <<mtime, mtimecmp, nticks>>
          /\ reading' = [reading EXCEPT !["isr"].step = "high"]
      BY <2>2 DEF TimerTrap, Program, BeginReading, alarmVars
    <3>2. Due <= mtime /\ Due' = Due
      BY <1>1, <3>1 DEF ClockInv, ClockTypeOK, Due
    <3>3. ClockTypeOK' /\ reading'["isr"].step = "high"
      BY <3>1 DEF ClockInv, ClockTypeOK, Reader
    <3> QED BY <3>1, <3>2, <3>3 DEF ClockInv, ReadingInv
  <2>3. CASE Rearm
    <3>1. /\ isr = "rearm" /\ isr' = "tick" /\ mtie' = mtie /\ mtie
          /\ stage' = stage /\ reading["isr"].step = "done"
          /\ UNCHANGED <<mtime, nticks>>
          /\ mtimecmp' = Joined(reading["isr"].high, reading["isr"].low) + Delta
          /\ reading' = [reading EXCEPT !["isr"] = Unread]
      BY <2>3 DEF Rearm, SetMtimecmp, TimeRead, Joined, Reading, alarmVars,
                  ClockInv
    <3>2. Joined(reading["isr"].high, reading["isr"].low) \in Nat
      BY JoinedIsNat DEF ClockInv, ClockTypeOK, Reader
    <3>3. Due' = Due /\ Due + Delta <= mtimecmp'
      BY <1>1, <3>1, <3>2 DEF ClockInv, ReadingInv, Due
    <3>4. ClockTypeOK'
      <4>1. mtimecmp' \in Nat
        BY <3>1, <3>2
      <4> QED BY <3>1, <4>1, UnreadIsIdle DEF ClockInv, ClockTypeOK
    <3> QED BY <3>1, <3>3, <3>4 DEF ClockInv
  <2>4. CASE Tick
    <3>1. /\ isr = "tick" /\ isr' = "walk" /\ mtie' = mtie /\ mtie
          /\ stage' = stage /\ UNCHANGED clockVars /\ nticks' = nticks + 1
      BY <2>4 DEF Tick, ClockInv
    <3>2. Ticks(nticks)' = Due /\ Due' = Due + Delta
      BY <1>1, <3>1 DEF Due
    <3>3. ClockTypeOK'
      BY <3>1 DEF ClockInv, ClockTypeOK, clockVars
    <3> QED BY <1>1, <3>1, <3>2, <3>3 DEF ClockInv, ClockTypeOK, clockVars
  <2>5. CASE Walk
    BY <1>2, <2>5 DEF Walk, cpuVars
  <2>6. CASE TickDone
    BY <1>2, <2>6 DEF TickDone, timerVars, alarmVars
  <2> QED BY <1>5, <2>1, <2>2, <2>3, <2>4, <2>5, <2>6
          DEF TrapRoutine, TimerIsr
<1>6. ASSUME NEW r \in Reader, GetTime(r) PROVE ClockInv'
  <2>1. ClockTypeOK' /\ (isr = "rearm" => ReadingInv')
    BY <1>6, ReadingStep
  <2>2. UNCHANGED <<mtime, mtimecmp, nticks, mtie, isr, stage>>
    BY <1>6 DEF GetTime, alarmVars, cpuVars
  <2>3. Due' = Due /\ Ticks(nticks)' = Ticks(nticks)
    BY <2>2 DEF Due
  <2> QED BY <2>1, <2>2, <2>3 DEF ClockInv
<1>7. CASE Environment
  <2>1. CASE Raise /\ UNCHANGED timerVars
    BY <1>2, <2>1 DEF Raise, cpuVars, timerVars, alarmVars
  <2>2. CASE Count
    <3>1. /\ mtime' = mtime + 1
          /\ UNCHANGED <<mtimecmp, reading, nticks, mtie, isr, stage>>
      BY <2>2 DEF Count, cpuVars, alarmVars
    <3>2. Due' = Due /\ Ticks(nticks)' = Ticks(nticks)
      BY <3>1 DEF Due
    <3>3. ClockTypeOK'
      BY <3>1 DEF ClockInv, ClockTypeOK
    <3>4. ASSUME isr = "rearm" PROVE ReadingInv'
      <4>1. /\ mtime \div Word \in Nat /\ mtime' \div Word \in Nat
            /\ mtime \div Word <= mtime' \div Word
        BY <3>1, <3>3, WordsJoin DEF ClockInv, ClockTypeOK
      <4>2. reading["isr"].high \in Nat
        BY DEF ClockInv, ClockTypeOK, Reader
      <4> DEFINE before == mtime \div Word
                 after == mtime' \div Word
      <4>3. /\ reading' = reading
            /\ before \in Nat /\ after \in Nat /\ before <= after
            /\ ReadingInv
        BY <3>1, <3>4, <4>1 DEF ClockInv
      <4> QED BY <3>2, <4>2, <4>3 DEF ReadingInv
    <3> QED BY <1>1, <3>1, <3>2, <3>3, <3>4 DEF ClockInv, ClockTypeOK
  <2> QED BY <1>7, <2>1, <2>2 DEF Environment
<1>8. CASE UNCHANGED vars
  BY <1>2, <1>8 DEF vars, cpuVars, timerVars, alarmVars
<1> QED BY <1>3, <1>4, <1>5, <1>6, <1>7, <1>8 DEF Next

(* The ticks never get ahead of mtime, for any word and any tick, though   *)
(* the counter moves between the reads of its words (mtimer.c:30-41).      *)
THEOREM ClockNeverFast == Spec => []NeverFast
<1>1. ClockInv => NeverFast
  BY DEF ClockInv, NeverFast, Ticks
<1> QED BY <1>1, ClockInitially, ClockPreserved, PTL DEF Spec

-----------------------------------------------------------------------------
(* The alarm list, for any number of alarms.  Ring is about the variables; *)
(* the lemmas are about any two pointer functions.                         *)
IsRing(nodes, nx, pv) ==
  /\ \A n \in nodes : /\ nx[n] \in nodes /\ pv[nx[n]] = n
                      /\ pv[n] \in nodes /\ nx[pv[n]] = n
  /\ \A part \in SUBSET nodes :
       part # {} /\ (\A n \in part : nx[n] \in part) => part = nodes

Pointers == [Node -> Node \cup {Nil}]

(* A node whose pointers name its neighbours-to-be joins the ring once     *)
(* theirs name it.                                                         *)
LEMMA RingGrows ==
  ASSUME NEW nodes \in SUBSET Node, NEW a \in Alarm \ nodes, Head \in nodes,
         NEW nx \in Pointers, NEW pv \in Pointers, IsRing(nodes, nx, pv),
         nx[a] = nx[Head], pv[a] = Head,
         NEW nx2, nx2 = [nx EXCEPT ![Head] = a],
         NEW pv2, pv2 = [pv EXCEPT ![nx[Head]] = a]
  PROVE  IsRing(nodes \cup {a}, nx2, pv2)
<1> DEFINE all == nodes \cup {a}
<1>1. Head \in Node /\ a \in Node /\ a # Head /\ nx[Head] \in nodes
  BY DEF Node, IsRing
<1>2. /\ nx2[Head] = a /\ nx2[a] = nx[Head]
      /\ \A n \in nodes \ {Head} : nx2[n] = nx[n]
  BY <1>1 DEF Pointers
<1>3. /\ pv2[nx[Head]] = a /\ pv2[a] = Head
      /\ \A n \in nodes \ {nx[Head]} : pv2[n] = pv[n]
  BY <1>1 DEF Pointers
<1>4. ASSUME NEW n \in all
      PROVE  /\ nx2[n] \in all /\ pv2[nx2[n]] = n
             /\ pv2[n] \in all /\ nx2[pv2[n]] = n
  <2>1. CASE n = a
    BY <1>1, <1>2, <1>3, <2>1
  <2>2. CASE n = Head
    <3>1. nx2[n] = a /\ pv2[a] = Head
      BY <1>2, <1>3, <2>2
    <3>2. CASE nx[Head] = Head
      BY <1>1, <1>2, <1>3, <2>2, <3>1, <3>2
    <3>3. CASE nx[Head] # Head
      <4>1. pv2[Head] = pv[Head] /\ pv[Head] \in nodes /\ nx[pv[Head]] = Head
        BY <1>3, <3>3 DEF IsRing
      <4>2. pv[Head] # Head
        BY <3>3, <4>1
      <4> QED BY <1>2, <2>2, <3>1, <4>1, <4>2
    <3> QED BY <3>2, <3>3
  <2>3. CASE n \in nodes \ {Head}
    <3>1. nx2[n] = nx[n] /\ nx[n] \in nodes /\ pv[nx[n]] = n
      BY <1>2, <2>3 DEF IsRing
    <3>2. nx[n] # nx[Head]
      BY <2>3, <3>1 DEF IsRing
    <3>3. pv2[nx[n]] = n
      BY <1>3, <3>1, <3>2
    <3>4. CASE n = nx[Head]
      BY <1>2, <1>3, <2>3, <3>1, <3>3, <3>4
    <3>5. CASE n # nx[Head]
      <4>1. pv2[n] = pv[n] /\ pv[n] \in nodes /\ nx[pv[n]] = n
        BY <1>3, <2>3, <3>5 DEF IsRing
      <4>2. pv[n] # Head
        BY <3>5, <4>1
      <4> QED BY <1>2, <2>3, <3>1, <3>3, <4>1, <4>2
    <3> QED BY <3>4, <3>5
  <2> QED BY <2>1, <2>2, <2>3
<1>5. ASSUME NEW part \in SUBSET all, part # {},
             \A n \in part : nx2[n] \in part
      PROVE  part = all
  <2> DEFINE old == part \ {a}
  <2>1. old \in SUBSET nodes
    OBVIOUS
  <2>2. \A n \in old : nx[n] \in old
    <3> SUFFICES ASSUME NEW n \in old PROVE nx[n] \in old
      OBVIOUS
    <3>1. n \in nodes /\ nx[n] \in nodes
      BY <2>1 DEF IsRing
    <3>2. CASE n = Head
      BY <1>2, <1>5, <3>1, <3>2
    <3>3. CASE n # Head
      BY <1>2, <1>5, <3>1, <3>3
    <3> QED BY <3>2, <3>3
  <2>3. old # {}
    BY <1>1, <1>2, <1>5
  <2>4. old = nodes
    BY <2>1, <2>2, <2>3 DEF IsRing
  <2>5. a \in part
    BY <1>2, <1>5, <2>4
  <2> QED BY <2>4, <2>5
<1> QED BY <1>4, <1>5 DEF IsRing

(* A node leaves the ring as soon as its neighbours name each other.       *)
LEMMA RingShrinks ==
  ASSUME NEW nodes \in SUBSET Node, NEW a \in Alarm \cap nodes, Head \in nodes,
         NEW nx \in Pointers, NEW pv \in Pointers, IsRing(nodes, nx, pv),
         NEW nx2, \A n \in nodes \ {a} :
                    nx2[n] = IF n = pv[a] THEN nx[a] ELSE nx[n],
         NEW pv2, \A n \in nodes \ {a} :
                    pv2[n] = IF n = nx[a] THEN pv[a] ELSE pv[n]
  PROVE  IsRing(nodes \ {a}, nx2, pv2)
<1> DEFINE rest == nodes \ {a}
<1>1. a # Head /\ nx[a] \in nodes /\ pv[a] \in nodes
      /\ pv[nx[a]] = a /\ nx[pv[a]] = a
  BY DEF IsRing
<1>2. nx[a] # a
  <2> SUFFICES ASSUME nx[a] = a PROVE FALSE
    OBVIOUS
  <2>1. {a} \in SUBSET nodes /\ {a} # {} /\ \A n \in {a} : nx[n] \in {a}
    OBVIOUS
  <2>2. {a} = nodes
    BY <2>1 DEF IsRing
  <2> QED BY <1>1, <2>2
<1>3. pv[a] # a
  BY <1>1, <1>2
<1>4. ASSUME NEW n \in rest
      PROVE  /\ nx2[n] \in rest /\ pv2[nx2[n]] = n
             /\ pv2[n] \in rest /\ nx2[pv2[n]] = n
  <2>1. nx[n] \in nodes /\ pv[n] \in nodes /\ pv[nx[n]] = n /\ nx[pv[n]] = n
    BY DEF IsRing
  <2>2. nx2[n] \in rest /\ pv2[nx2[n]] = n
    BY <1>1, <1>2, <1>3, <2>1
  <2>3. pv2[n] \in rest /\ nx2[pv2[n]] = n
    BY <1>1, <1>2, <1>3, <2>1
  <2> QED BY <2>2, <2>3
<1>5. ASSUME NEW part \in SUBSET rest, part # {},
             \A n \in part : nx2[n] \in part
      PROVE  part = rest
  <2>1. CASE pv[a] \in part
    <3> DEFINE more == part \cup {a}
    <3>1. nx[a] \in part
      BY <1>3, <1>5, <2>1
    <3>2. \A n \in more : nx[n] \in more
      BY <1>1, <1>5, <3>1
    <3>3. more \in SUBSET nodes /\ more # {}
      OBVIOUS
    <3>4. more = nodes
      BY <3>2, <3>3 DEF IsRing
    <3> QED BY <3>4
  <2>2. CASE pv[a] \notin part
    <3>1. \A n \in part : nx[n] \in part
      BY <1>5, <2>2
    <3>2. part = nodes
      BY <1>5, <3>1 DEF IsRing
    <3> QED BY <3>2
  <2> QED BY <2>1, <2>2
<1> QED BY <1>4, <1>5 DEF IsRing

-----------------------------------------------------------------------------
(* A call of alt_alarm_start or alt_alarm_stop under way. *)
Starting == {"start_time", "start_link", "start_insert"}
Stopping == {"stop_unlink", "stop_isolate"}
Altering == Starting \cup Stopping \cup {"alarm_done"}

AlarmTypeOK ==
  /\ next \in Pointers /\ previous \in Pointers
  /\ time \in [Alarm -> Nat] /\ nticks \in Nat /\ delay \in Nat
  /\ running \subseteq Alarm /\ alarm \in Node

(* The list is only changed with interrupts off, by one call at a time,    *)
(* which has come as far as its step says.                                 *)
CallInv ==
  /\ op \in Altering => isr = "off" /\ MIE = FALSE /\ the_alarm \in Alarm
  /\ op \in Starting \cup {"stop_isolate"} => the_alarm \notin running
  /\ op \in {"start_link", "start_insert"} => time[the_alarm] > nticks
  /\ op = "start_insert" => /\ next[the_alarm] = next[Head]
                            /\ previous[the_alarm] = Head
  /\ op = "stop_unlink" => next[the_alarm] # Nil

(* An alarm that is not in the list was never started, or is linked to     *)
(* itself; the call under way may have it half way.                        *)
LooseInv ==
  \A a \in Alarm \ running :
    next[a] = Nil \/ (next[a] = a /\ previous[a] = a)
      \/ (op \in {"start_insert", "stop_isolate"} /\ a = the_alarm)

(* A tick under way has the alarms of todo before it, the next one first;  *)
(* these may be due now, and the others are due later.                     *)
Ahead(todo) ==
  /\ alarm \in todo \cup {Head}
  /\ alarm = Head => todo = {}
  /\ \A n \in todo : next[n] \in todo \cup {Head}
  /\ previous[alarm] \notin todo
  /\ \A a \in todo : time[a] >= nticks
  /\ \A a \in running \ todo : time[a] > nticks

AlarmInv ==
  /\ AlarmTypeOK
  /\ WellLinked
  /\ CallInv
  /\ LooseInv
  /\ NoneOverdue
  /\ isr = "walk" => \E todo \in SUBSET running : Ahead(todo)

LEMMA AlarmInitially == Init => AlarmInv
<1> SUFFICES ASSUME ProcessorInit, TimerInit PROVE AlarmInv
  BY DEF Init
<1> USE DEF ProcessorInit, TimerInit
<1>1. AlarmTypeOK
  BY DEF AlarmTypeOK, Pointers, Node
<1>2. next[Head] = Head /\ previous[Head] = Head
  BY DEF Node
<1>3. WellLinked
  <2>1. running \cup {Head} = {Head}
    OBVIOUS
  <2>2. \A part \in SUBSET {Head} : part # {} => part = {Head}
    OBVIOUS
  <2> QED BY <1>2, <2>1, <2>2 DEF WellLinked, Ring
<1>4. CallInv
  BY DEF CallInv, Altering, Starting, Stopping
<1>5. LooseInv
  BY DEF LooseInv, Node
<1> QED BY <1>1, <1>3, <1>4, <1>5 DEF AlarmInv, NoneOverdue

-----------------------------------------------------------------------------
(* What touches the list and the ticks. *)
ApartFromAlarms ==
  /\ UNCHANGED <<nticks, listVars, alarm, the_alarm, delay>>
  /\ op \in Altering \/ op' \in Altering => UNCHANGED <<op, isr, MIE>>
  /\ isr' = "walk" <=> isr = "walk"

LEMMA AlarmsTouched ==
  ASSUME CallInv, [Next]_vars
  PROVE  ApartFromAlarms \/ UseAlarms \/ AlarmStep \/ Tick \/ Walk \/ TickDone
<1> USE DEF ApartFromAlarms, Altering, Starting, Stopping, timerVars, alarmVars
<1>1. CASE StartUp
  <2>1. CASE InitIrq
    BY <1>1, <2>1 DEF StartUp, InitIrq, InitDriver, AddDevice, InitClock,
         ArmTimer, RedirectAll, Exit, Halt, At, Program
  <2>2. CASE InitDriver
    BY <2>2 DEF InitDriver, CallRegister, At
  <2>3. CASE InitClock \/ ArmTimer
    BY <2>3 DEF InitClock, ArmTimer, At
  <2>4. CASE AddDevice \/ RedirectAll \/ Exit \/ Halt
    BY <2>4 DEF AddDevice, RedirectAll, Exit, Halt, At, cpuVars
  <2> QED BY <1>1, <2>1, <2>2, <2>3, <2>4 DEF StartUp
<1>2. CASE Main
  <2>1. CASE UseSleep \/ SleepStep
    BY <2>1 DEF UseSleep, CallSleep, SleepStep, StartTimestamp, Spin, At,
                Doing, Program, awakeVars
  <2>2. CASE UseTimeOfDay
    BY <2>2 DEF UseTimeOfDay, SetTimeOfDay, cpuVars
  <2>3. CASE UseHandlers
    BY <2>3 DEF UseHandlers, CallRegister
  <2>4. CASE UseFiles
    BY <2>4 DEF UseFiles, cpuVars
  <2>5. CASE RegisterStep /\ UNCHANGED timerVars
    BY <2>5 DEF RegisterStep, RegisterSet, RegisterEnable, RegisterDone, Doing
  <2> QED BY <1>2, <2>1, <2>2, <2>3, <2>4, <2>5 DEF Main
<1>3. CASE TrapRoutine
  <2>1. CASE (Trap \/ PlatformIsr) /\ UNCHANGED timerVars
    BY <2>1 DEF Trap, PlatformIsr, LookPending, CallHandler, Program, CallInv
  <2>2. CASE TimerTrap \/ Rearm
    BY <2>2 DEF TimerTrap, Rearm, Program, CallInv
  <2> QED BY <1>3, <2>1, <2>2 DEF TrapRoutine, TimerIsr
<1>4. CASE \E r \in Reader : GetTime(r)
  BY <1>4 DEF GetTime, cpuVars
<1>5. CASE Environment
  BY <1>5 DEF Environment, Raise, Count, cpuVars
<1>6. CASE UNCHANGED vars
  BY <1>6 DEF vars, cpuVars
<1> QED BY <1>1, <1>2, <1>3, <1>4, <1>5, <1>6 DEF Next

LEMMA ApartPreserves ==
  ASSUME AlarmInv, ApartFromAlarms
  PROVE  AlarmInv'
<1> USE DEF ApartFromAlarms, listVars
<1>1. AlarmTypeOK' /\ WellLinked'
  BY DEF AlarmInv, AlarmTypeOK, WellLinked, Ring
<1>2. CallInv'
  BY DEF AlarmInv, CallInv, Altering, Starting, Stopping
<1>3. LooseInv'
  BY DEF AlarmInv, LooseInv, Altering, Starting, Stopping
<1>4. NoneOverdue'
  BY DEF AlarmInv, NoneOverdue
<1>5. ASSUME isr' = "walk" PROVE (\E todo \in SUBSET running : Ahead(todo))'
  BY <1>5 DEF AlarmInv, Ahead
<1> QED BY <1>1, <1>2, <1>3, <1>4, <1>5 DEF AlarmInv

LEMMA RingIs == WellLinked <=> IsRing(running \cup {Head}, next, previous)
  BY DEF WellLinked, Ring, IsRing

(* An alarm unlinked, by the program or by its callback, leaves the list   *)
(* whole.                                                                  *)
LEMMA UnlinkedLeaves ==
  ASSUME AlarmTypeOK, WellLinked, NEW a \in running, running' = running \ {a},
         \A n \in Node \ {a} :
           /\ next'[n] = IF n = previous[a] THEN next[a] ELSE next[n]
           /\ previous'[n] = IF n = next[a] THEN previous[a] ELSE previous[n]
  PROVE  WellLinked'
<1> DEFINE nodes == running \cup {Head}
<1>1. nodes \in SUBSET Node /\ a \in Alarm \cap nodes /\ Head \in nodes
  BY DEF AlarmTypeOK, Node
<1>2. IsRing(nodes, next, previous)
  BY RingIs
<1>3. \A n \in nodes \ {a} :
        next'[n] = IF n = previous[a] THEN next[a] ELSE next[n]
  BY <1>1
<1>4. \A n \in nodes \ {a} :
        previous'[n] = IF n = next[a] THEN previous[a] ELSE previous[n]
  BY <1>1
<1>5. next \in Pointers /\ previous \in Pointers
  BY DEF AlarmTypeOK
<1>6. nodes \ {a} = (running \cup {Head})'
  BY <1>1
<1> HIDE DEF nodes
<1>7. IsRing(nodes \ {a}, next', previous')
  BY <1>1, <1>2, <1>3, <1>4, <1>5, RingShrinks
<1> QED BY <1>6, <1>7 DEF WellLinked, Ring, IsRing

(* Outside a tick, what a step of a call has to keep. *)
LEMMA CallKeeps ==
  ASSUME AlarmInv, AlarmTypeOK', WellLinked', CallInv', LooseInv',
         isr = "off", isr' = "off",
         \A a \in running' : time'[a] > nticks'
  PROVE  AlarmInv'
  BY DEF AlarmInv, NoneOverdue

LEMMA CallBegins ==
  ASSUME AlarmInv, UseAlarms
  PROVE  AlarmInv'
<1> USE DEF AlarmInv
<1>1. isr = "off" /\ isr' = "off" /\ MIE' = FALSE /\ op = "none"
      /\ UNCHANGED <<nticks, listVars, alarm>>
  BY DEF UseAlarms, At, Program, CallStart, CallStop, DisableAll
<1>2. WellLinked'
  BY <1>1 DEF WellLinked, Ring, listVars
<1>3. \A a \in running' : time'[a] > nticks'
  BY <1>1 DEF NoneOverdue, listVars
<1>4. LooseInv'
  BY <1>1 DEF LooseInv, listVars
<1>5. PICK a \in Alarm : (\E n \in Delays : CallStart(a, n)) \/ CallStop(a)
  BY DEF UseAlarms
<1>6. CASE \E n \in Delays : CallStart(a, n)
  <2>1. a \notin running /\ op' = "start_time" /\ the_alarm' = a /\ delay' \in Nat
    BY <1>6 DEF CallStart
  <2>2. AlarmTypeOK' /\ CallInv'
    BY <1>1, <2>1
       DEF AlarmTypeOK, CallInv, Altering, Starting, Stopping, listVars
  <2> QED BY <1>1, <1>2, <1>3, <1>4, <2>2, CallKeeps
<1>7. CASE CallStop(a)
  <2>1. next[a] # Nil /\ op' = "stop_unlink" /\ the_alarm' = a /\ delay' = delay
    BY <1>7 DEF CallStop
  <2>2. AlarmTypeOK' /\ CallInv'
    BY <1>1, <2>1
       DEF AlarmTypeOK, CallInv, Altering, Starting, Stopping, listVars
  <2> QED BY <1>1, <1>2, <1>3, <1>4, <2>2, CallKeeps
<1> QED BY <1>5, <1>6, <1>7

LEMMA StartTimeStep ==
  ASSUME AlarmInv, StartTime
  PROVE  AlarmInv'
<1> USE DEF AlarmInv
<1>1. /\ op = "start_time" /\ op' = "start_link" /\ isr = "off"
      /\ time' = [time EXCEPT ![the_alarm] = delay + nticks + 1]
      /\ UNCHANGED <<isr, MIE, nticks, next, previous, running, alarm,
                     the_alarm, delay>>
  BY DEF StartTime, Doing, Program
<1>2. the_alarm \in Alarm \ running /\ MIE = FALSE
  BY <1>1 DEF CallInv, Altering, Starting
<1>3. time'[the_alarm] > nticks /\ \A a \in running : time'[a] = time[a]
  BY <1>1, <1>2 DEF AlarmTypeOK
<1>4. AlarmTypeOK'
  <2>1. time' \in [Alarm -> Nat]
    BY <1>1, <1>2 DEF AlarmTypeOK
  <2> QED BY <1>1, <2>1 DEF AlarmTypeOK
<1>5. WellLinked' /\ LooseInv'
  BY <1>1 DEF WellLinked, Ring, LooseInv
<1>6. CallInv'
  BY <1>1, <1>2, <1>3 DEF CallInv, Altering, Starting, Stopping
<1>7. \A a \in running' : time'[a] > nticks'
  BY <1>1, <1>3 DEF NoneOverdue
<1> QED BY <1>1, <1>4, <1>5, <1>6, <1>7, CallKeeps

LEMMA StartLinkStep ==
  ASSUME AlarmInv, StartLink
  PROVE  AlarmInv'
<1> USE DEF AlarmInv
<1>1. /\ isr = "off" /\ op \in {"start_link", "start_insert"}
      /\ UNCHANGED <<isr, MIE, nticks, time, alarm, the_alarm, delay>>
  BY DEF StartLink, Doing, Program
<1> DEFINE a == the_alarm
<1>2. a \in Alarm \ running /\ MIE = FALSE /\ time[a] > nticks
  BY <1>1 DEF CallInv, Altering, Starting
<1>3. a \in Node /\ Head \in Node /\ a # Head
      /\ next[Head] \in running \cup {Head}
  BY <1>2 DEF Node, WellLinked, Ring
<1>4. CASE op = "start_link"
  <2>1. /\ op' = "start_insert" /\ running' = running
        /\ previous' = [previous EXCEPT ![a] = Head]
        /\ next' = [next EXCEPT ![a] = next[Head]]
    BY <1>4 DEF StartLink, Doing, PointTo
  <2>2. \A n \in Node \ {a} : next'[n] = next[n] /\ previous'[n] = previous[n]
    BY <2>1 DEF AlarmTypeOK, Pointers
  <2>3. next'[a] = next'[Head] /\ previous'[a] = Head
    BY <1>3, <2>1, <2>2 DEF AlarmTypeOK, Pointers
  <2>4. AlarmTypeOK'
    BY <1>1, <1>3, <2>1 DEF AlarmTypeOK, Pointers, Node
  <2>5. WellLinked'
    <3>1. running \cup {Head} \subseteq Node \ {a}
      BY <1>2, <1>3 DEF AlarmTypeOK, Node
    <3> QED BY <2>1, <2>2, <3>1 DEF WellLinked, Ring
  <2>6. CallInv'
    BY <1>1, <1>2, <2>1, <2>3 DEF CallInv, Altering, Starting, Stopping
  <2>7. LooseInv'
    BY <1>1, <1>4, <2>1, <2>2 DEF LooseInv, Node
  <2>8. \A b \in running' : time'[b] > nticks'
    BY <1>1, <2>1 DEF NoneOverdue
  <2> QED BY <1>1, <2>4, <2>5, <2>6, <2>7, <2>8, CallKeeps
<1>5. CASE op = "start_insert"
  <2>1. /\ op' = "alarm_done" /\ running' = running \cup {a}
        /\ previous' = [previous EXCEPT ![next[Head]] = a]
        /\ next' = [next EXCEPT ![Head] = a]
    BY <1>5 DEF StartLink, Doing, PointFrom
  <2>2. next[a] = next[Head] /\ previous[a] = Head
    BY <1>5 DEF CallInv
  <2>3. AlarmTypeOK'
    BY <1>1, <1>2, <1>3, <2>1 DEF AlarmTypeOK, Pointers, Node
  <2>4. WellLinked'
    <3> DEFINE nodes == running \cup {Head}
    <3>1. nodes \in SUBSET Node /\ a \in Alarm \ nodes /\ Head \in nodes
      BY <1>2, <1>3 DEF AlarmTypeOK, Node
    <3>2. IsRing(nodes, next, previous)
      BY RingIs
    <3>3. IsRing(nodes \cup {a}, next', previous')
      BY <2>1, <2>2, <3>1, <3>2, RingGrows DEF AlarmTypeOK
    <3>4. nodes \cup {a} = (running \cup {Head})'
      BY <2>1
    <3> QED BY <3>3, <3>4 DEF WellLinked, Ring, IsRing
  <2>5. CallInv'
    BY <1>1, <1>2, <2>1 DEF CallInv, Altering, Starting, Stopping
  <2>6. LooseInv'
    <3> SUFFICES ASSUME NEW b \in Alarm \ running'
                 PROVE  next'[b] = Nil \/ (next'[b] = b /\ previous'[b] = b)
      BY DEF LooseInv
    <3>1. b \in Node /\ b # a /\ b # Head /\ b # next[Head]
      BY <1>3, <2>1 DEF Node
    <3>2. next'[b] = next[b] /\ previous'[b] = previous[b]
      BY <2>1, <3>1 DEF AlarmTypeOK, Pointers
    <3> QED BY <1>5, <2>1, <3>1, <3>2 DEF LooseInv
  <2>7. \A b \in running' : time'[b] > nticks'
    BY <1>1, <1>2, <2>1 DEF NoneOverdue
  <2> QED BY <1>1, <2>3, <2>4, <2>5, <2>6, <2>7, CallKeeps
<1> QED BY <1>1, <1>4, <1>5

LEMMA AlarmDoneStep ==
  ASSUME AlarmInv, AlarmDone
  PROVE  AlarmInv'
<1> USE DEF AlarmInv
<1>1. /\ isr = "off" /\ op = "alarm_done" /\ op' = "none" /\ delay' = 0
      /\ UNCHANGED <<isr, nticks, listVars, alarm>>
  BY DEF AlarmDone, Doing, Program
<1>2. AlarmTypeOK' /\ WellLinked'
  BY <1>1 DEF AlarmTypeOK, WellLinked, Ring, listVars
<1>3. CallInv' /\ LooseInv'
  BY <1>1 DEF CallInv, LooseInv, Altering, Starting, Stopping, listVars
<1>4. \A b \in running' : time'[b] > nticks'
  BY <1>1 DEF NoneOverdue, listVars
<1> QED BY <1>1, <1>2, <1>3, <1>4, CallKeeps

LEMMA StopStep ==
  ASSUME AlarmInv, StopUnlink
  PROVE  AlarmInv'
<1> USE DEF AlarmInv
<1>1. /\ isr = "off" /\ op \in {"stop_unlink", "stop_isolate"}
      /\ UNCHANGED <<isr, MIE, nticks, time, alarm, the_alarm, delay>>
  BY DEF StopUnlink, Doing, Program
<1> DEFINE a == the_alarm
<1>2. a \in Alarm /\ a \in Node /\ MIE = FALSE /\ Head \in Node
  BY <1>1 DEF CallInv, Altering, Stopping, Node
<1>3. CASE op = "stop_unlink"
  <2>1. /\ op' = "stop_isolate" /\ running' = running \ {a}
        /\ previous' = [previous EXCEPT ![next[a]] = previous[a]]
        /\ next' = [next EXCEPT ![previous[a]] = next[a]]
    BY <1>3 DEF StopUnlink, Doing, Unlink
  <2>3. CASE a \in running
    <3>1. next[a] \in running \cup {Head} /\ previous[a] \in running \cup {Head}
      BY <2>3 DEF WellLinked, Ring
    <3>2. next[a] \in Node /\ previous[a] \in Node
      BY <3>1, <1>2 DEF AlarmTypeOK, Node
    <3>3. AlarmTypeOK'
      BY <1>1, <2>1, <3>2 DEF AlarmTypeOK, Pointers
    <3>4. /\ \A n \in Node : next'[n] = IF n = previous[a] THEN next[a] ELSE next[n]
          /\ \A n \in Node : previous'[n] =
                               IF n = next[a] THEN previous[a] ELSE previous[n]
      BY <2>1 DEF AlarmTypeOK, Pointers
    <3>5. WellLinked'
      BY <2>1, <2>3, <3>4, UnlinkedLeaves
    <3>6. LooseInv'
      <4> SUFFICES ASSUME NEW b \in Alarm \ running', b # a
                   PROVE  next'[b] = Nil \/ (next'[b] = b /\ previous'[b] = b)
        BY <1>1, <2>1 DEF LooseInv
      <4>1. b \in Node /\ b \notin running /\ b # next[a] /\ b # previous[a]
        BY <2>1, <3>1 DEF Node
      <4> QED BY <1>3, <3>4, <4>1 DEF LooseInv
    <3>7. CallInv'
      BY <1>1, <1>2, <2>1 DEF CallInv, Altering, Starting, Stopping
    <3>8. \A b \in running' : time'[b] > nticks'
      BY <1>1, <2>1 DEF NoneOverdue
    <3> QED BY <1>1, <3>3, <3>5, <3>6, <3>7, <3>8, CallKeeps
  <2>4. CASE a \notin running
    <3>1. next[a] = a /\ previous[a] = a
      BY <1>2, <1>3, <2>4 DEF LooseInv, CallInv
    <3>2. next' = next /\ previous' = previous /\ running' = running
      BY <2>1, <2>4, <3>1 DEF AlarmTypeOK, Pointers
    <3>3. AlarmTypeOK' /\ WellLinked'
      BY <1>1, <3>2 DEF AlarmTypeOK, WellLinked, Ring
    <3>4. LooseInv' /\ CallInv'
      BY <1>1, <1>2, <1>3, <2>1, <2>4, <3>2
         DEF LooseInv, CallInv, Altering, Starting, Stopping
    <3>5. \A b \in running' : time'[b] > nticks'
      BY <1>1, <3>2 DEF NoneOverdue
    <3> QED BY <1>1, <3>3, <3>4, <3>5, CallKeeps
  <2> QED BY <2>3, <2>4
<1>4. CASE op = "stop_isolate"
  <2>1. /\ op' = "alarm_done" /\ running' = running
        /\ previous' = [previous EXCEPT ![a] = a]
        /\ next' = [next EXCEPT ![a] = a]
    BY <1>4 DEF StopUnlink, Doing, Isolate
  <2>2. a \notin running
    BY <1>4 DEF CallInv
  <2>3. /\ next'[a] = a /\ previous'[a] = a
        /\ \A n \in Node \ {a} : next'[n] = next[n] /\ previous'[n] = previous[n]
    BY <1>2, <2>1 DEF AlarmTypeOK, Pointers
  <2>4. AlarmTypeOK'
    BY <1>1, <1>2, <2>1 DEF AlarmTypeOK, Pointers
  <2>5. WellLinked'
    <3>1. running \cup {Head} \subseteq Node \ {a}
      BY <1>2, <2>2 DEF AlarmTypeOK, Node
    <3> QED BY <2>1, <2>3, <3>1 DEF WellLinked, Ring
  <2>6. LooseInv'
    BY <1>4, <2>1, <2>3 DEF LooseInv, Node
  <2>7. CallInv'
    BY <1>1, <1>2, <2>1 DEF CallInv, Altering, Starting, Stopping
  <2>8. \A b \in running' : time'[b] > nticks'
    BY <1>1, <2>1 DEF NoneOverdue
  <2> QED BY <1>1, <2>4, <2>5, <2>6, <2>7, <2>8, CallKeeps
<1> QED BY <1>1, <1>3, <1>4

-----------------------------------------------------------------------------
(* The tick. *)
LEMMA NoCallInTick ==
  ASSUME AlarmInv, isr \in {"tick", "walk"}
  PROVE  op \notin Altering
  BY DEF AlarmInv, CallInv

LEMMA TickStep ==
  ASSUME AlarmInv, Tick
  PROVE  AlarmInv'
<1> USE DEF AlarmInv
<1>1. /\ isr = "tick" /\ isr' = "walk" /\ op' = op
      /\ nticks' = nticks + 1 /\ alarm' = next[Head]
      /\ UNCHANGED <<listVars, the_alarm, delay>>
  BY DEF Tick
<1>2. op \notin Altering
  BY <1>1, NoCallInTick
<1>3. next[Head] \in running \cup {Head} /\ previous[next[Head]] = Head
  BY DEF WellLinked, Ring
<1>4. AlarmTypeOK'
  BY <1>1, <1>3 DEF AlarmTypeOK, listVars, Node
<1>5. WellLinked'
  BY <1>1 DEF WellLinked, Ring, listVars
<1>6. CallInv' /\ LooseInv'
  BY <1>1, <1>2 DEF CallInv, LooseInv, Altering, Starting, Stopping, listVars
<1>7. NoneOverdue'
  BY <1>1 DEF NoneOverdue
<1>8. next[Head] = Head => running = {}
  <2> SUFFICES ASSUME next[Head] = Head PROVE running = {}
    OBVIOUS
  <2>1. {Head} \in SUBSET (running \cup {Head}) /\ {Head} # {}
        /\ \A n \in {Head} : next[n] \in {Head}
    OBVIOUS
  <2>2. {Head} = running \cup {Head}
    BY <2>1 DEF WellLinked, Ring
  <2> QED BY <2>2 DEF AlarmTypeOK
<1>9. Head \notin running
  BY DEF AlarmTypeOK
<1>10. \A a \in running : time[a] \in Nat /\ time[a] > nticks /\ nticks \in Nat
  BY <1>1 DEF NoneOverdue, AlarmTypeOK
<1>11. \A n \in running : next[n] \in running \cup {Head}
  BY DEF WellLinked, Ring
<1>12. Ahead(running)'
  BY <1>1, <1>3, <1>8, <1>9, <1>10, <1>11 DEF Ahead, listVars
<1> QED BY <1>4, <1>5, <1>6, <1>7, <1>12

LEMMA TickDoneStep ==
  ASSUME AlarmInv, TickDone
  PROVE  AlarmInv'
<1> USE DEF AlarmInv
<1>1. /\ isr = "walk" /\ isr' = "off" /\ op' = op /\ alarm = Head
      /\ UNCHANGED <<nticks, listVars, alarm, the_alarm, delay>>
  BY DEF TickDone, timerVars, alarmVars
<1>2. op \notin Altering
  BY <1>1, NoCallInTick
<1>3. AlarmTypeOK' /\ WellLinked'
  BY <1>1 DEF AlarmTypeOK, WellLinked, Ring, listVars
<1>4. CallInv' /\ LooseInv'
  BY <1>1, <1>2 DEF CallInv, LooseInv, Altering, Starting, Stopping, listVars
<1>5. NoneOverdue'
  BY <1>1 DEF NoneOverdue, Ahead, listVars
<1> QED BY <1>1, <1>3, <1>4, <1>5

(* The callback of the alarm the walk has come to leaves it due later, or  *)
(* out of the list.                                                        *)
LEMMA WalkStep ==
  ASSUME AlarmInv, Walk
  PROVE  AlarmInv'
<1> USE DEF AlarmInv
<1>1. /\ isr = "walk" /\ isr' = "walk" /\ op' = op /\ alarm # Head
      /\ alarm' = next[alarm]
      /\ UNCHANGED <<nticks, the_alarm, delay>>
      /\ IF Overdue(alarm) THEN Callback(alarm) ELSE UNCHANGED listVars
  BY DEF Walk, WalkOn, cpuVars
<1>2. op \notin Altering
  BY <1>1, NoCallInTick
<1>3. PICK todo \in SUBSET running : Ahead(todo)
  BY <1>1
<1>r. PICK rest \in SUBSET todo : rest = todo \ {alarm}
  OBVIOUS
<1>4. alarm \in todo /\ alarm \in running /\ alarm \in Alarm /\ alarm \in Node
  BY <1>1, <1>3 DEF Ahead, AlarmTypeOK, Node
<1>5. /\ next[alarm] \in running \cup {Head} /\ previous[next[alarm]] = alarm
      /\ previous[alarm] \in running \cup {Head} /\ next[previous[alarm]] = alarm
  BY <1>4 DEF WellLinked, Ring
<1>6. next[alarm] # alarm
  <2> SUFFICES ASSUME next[alarm] = alarm PROVE FALSE
    OBVIOUS
  <2>1. {alarm} \in SUBSET (running \cup {Head}) /\ {alarm} # {}
        /\ \A n \in {alarm} : next[n] \in {alarm}
    BY <1>4
  <2>2. {alarm} = running \cup {Head}
    BY <2>1 DEF WellLinked, Ring
  <2> QED BY <1>1, <2>2
<1>7. previous[alarm] \notin todo /\ next[alarm] \in rest \cup {Head}
  BY <1>3, <1>4, <1>6, <1>r DEF Ahead
<1>8. \A n \in rest : next[n] \in rest \cup {Head}
  <2> SUFFICES ASSUME NEW n \in rest, next[n] = alarm PROVE FALSE
    BY <1>3, <1>r DEF Ahead
  <2>1. previous[next[n]] = n
    BY DEF WellLinked, Ring
  <2> QED BY <1>7, <2>1
<1>9. next[alarm] = Head => rest = {}
  <2> SUFFICES ASSUME next[alarm] = Head, NEW n \in rest PROVE FALSE
    OBVIOUS
  <2>1. \A m \in rest : next[m] # Head
    BY <1>4, <1>5, <1>r DEF WellLinked, Ring
  <2>2. \A m \in rest : next[m] \in rest
    BY <1>8, <2>1
  <2>3. rest \in SUBSET (running \cup {Head}) /\ rest # {}
    OBVIOUS
  <2>4. rest = running \cup {Head}
    BY <2>2, <2>3 DEF WellLinked, Ring
  <2> QED BY <2>4 DEF AlarmTypeOK
<1>10. \A a \in rest : time[a] >= nticks
  BY <1>3, <1>r DEF Ahead
<1>11. \A a \in running \ todo : time[a] > nticks
  BY <1>3 DEF Ahead
<1>12. time[alarm] >= nticks /\ time[alarm] \in Nat /\ nticks \in Nat
  BY <1>3, <1>4 DEF Ahead, AlarmTypeOK
<1>13. NoneOverdue'
  BY <1>1 DEF NoneOverdue
<1>14. CASE UNCHANGED <<next, previous, running>>
            /\ time'[alarm] > nticks /\ time' \in [Alarm -> Nat]
            /\ \A a \in Alarm \ {alarm} : time'[a] = time[a]
  <2>1. AlarmTypeOK'
    BY <1>1, <1>5, <1>14 DEF AlarmTypeOK, Node
  <2>2. WellLinked' /\ CallInv' /\ LooseInv'
    BY <1>1, <1>2, <1>14 DEF WellLinked, Ring, CallInv, LooseInv, Altering,
                             Starting, Stopping
  <2>3. \A a \in rest : time'[a] >= nticks
    BY <1>10, <1>14, <1>r DEF AlarmTypeOK
  <2>4. \A a \in running \ rest : time'[a] > nticks
    BY <1>11, <1>14, <1>r DEF AlarmTypeOK
  <2>5. Ahead(rest)'
    BY <1>1, <1>5, <1>7, <1>8, <1>9, <1>14, <1>r, <2>3, <2>4 DEF Ahead
  <2>6. rest \in SUBSET running'
    BY <1>14, <1>r
  <2> QED BY <1>13, <2>1, <2>2, <2>5, <2>6
<1>15. CASE Removed(alarm) /\ UNCHANGED time
  <2>1. /\ running' = running \ {alarm} /\ time' = time
        /\ \A n \in Node \ {alarm} :
             /\ next'[n] = IF n = previous[alarm] THEN next[alarm] ELSE next[n]
             /\ previous'[n] =
                  IF n = next[alarm] THEN previous[alarm] ELSE previous[n]
        /\ next'[alarm] = alarm /\ previous'[alarm] = alarm
    BY <1>4, <1>15 DEF Removed, AlarmTypeOK, Pointers
  <2>2. AlarmTypeOK'
    <3>1. next[alarm] \in Node /\ previous[alarm] \in Node
      BY <1>5 DEF AlarmTypeOK, Node
    <3>2. next' \in Pointers /\ previous' \in Pointers
      BY <1>4, <1>15, <3>1 DEF Removed, AlarmTypeOK, Pointers
    <3> QED BY <1>1, <2>1, <3>1, <3>2 DEF AlarmTypeOK
  <2>3. WellLinked'
    BY <1>4, <2>1, UnlinkedLeaves
  <2>4. CallInv'
    BY <1>1, <1>2 DEF CallInv, Altering, Starting, Stopping
  <2>5. LooseInv'
    <3> SUFFICES ASSUME NEW b \in Alarm \ running', b # alarm
                 PROVE  next'[b] = Nil \/ (next'[b] = b /\ previous'[b] = b)
      BY <2>1 DEF LooseInv
    <3>1. b \in Node /\ b \notin running /\ b # next[alarm] /\ b # previous[alarm]
      BY <1>5, <2>1 DEF Node
    <3> QED BY <1>2, <2>1, <3>1 DEF LooseInv, Altering, Starting, Stopping
  <2>6. rest \in SUBSET running'
    BY <1>r, <2>1
  <2>7. \A n \in rest : next'[n] \in rest \cup {Head}
    BY <1>7, <1>8, <1>r, <2>1 DEF AlarmTypeOK, Node
  <2>8. previous'[next[alarm]] \notin rest
    <3>1. next[alarm] \in Node \ {alarm}
      BY <1>5, <1>6 DEF AlarmTypeOK, Node
    <3> QED BY <1>7, <1>r, <2>1, <3>1
  <2>9. \A a \in running' \ rest : time'[a] > nticks
    BY <1>11, <1>r, <2>1
  <2>10. Ahead(rest)'
    BY <1>1, <1>7, <1>9, <1>10, <2>1, <2>7, <2>8, <2>9 DEF Ahead
  <2> QED BY <1>13, <2>2, <2>3, <2>4, <2>5, <2>6, <2>10
<1>16. CASE ~Overdue(alarm)
  <2>1. UNCHANGED listVars /\ time[alarm] > nticks
    BY <1>1, <1>12, <1>16 DEF Overdue
  <2> QED BY <1>14, <2>1 DEF listVars, AlarmTypeOK
<1>17. CASE Overdue(alarm)
  <2>1. CASE \E p \in Periods \ {0} : time' = [time EXCEPT ![alarm] = @ + p]
             /\ UNCHANGED <<next, previous, running>>
    <3>1. PICK p \in Periods \ {0} : time' = [time EXCEPT ![alarm] = @ + p]
      BY <2>1
    <3>2. p \in Nat /\ p > 0
      OBVIOUS
    <3>3. time'[alarm] = time[alarm] + p
          /\ \A a \in Alarm \ {alarm} : time'[a] = time[a]
      BY <1>4, <3>1 DEF AlarmTypeOK
    <3>4. time' \in [Alarm -> Nat]
      BY <1>4, <1>12, <3>1, <3>2 DEF AlarmTypeOK
    <3> QED BY <1>12, <1>14, <2>1, <3>2, <3>3, <3>4
  <2> QED BY <1>1, <1>15, <1>17, <2>1 DEF Callback
<1> QED BY <1>16, <1>17

LEMMA AlarmPreserved == AlarmInv /\ [Next]_vars => AlarmInv'
<1> SUFFICES ASSUME AlarmInv, [Next]_vars PROVE AlarmInv'
  OBVIOUS
<1>1. CallInv
  BY DEF AlarmInv
<1> QED BY <1>1, AlarmsTouched, ApartPreserves, CallBegins, StartTimeStep,
           StartLinkStep, StopStep, AlarmDoneStep, TickStep, WalkStep,
           TickDoneStep DEF AlarmStep

(* What is linked is whole at any time, for any number of alarms started,  *)
(* stopped and ended in any order (alt_llist.h, alt_alarm_start.c:78-85,   *)
(* alt_tick.c:92-122).                                                     *)
THEOREM AlarmsStayLinked == Spec => []WellLinked
<1>1. AlarmInv => WellLinked
  BY DEF AlarmInv
<1> QED BY <1>1, AlarmInitially, AlarmPreserved, PTL DEF Spec

(* Each alarm is called at the tick it asked for (alt_tick.c:105).         *)
THEOREM AlarmsAreCalled == Spec => []NoneOverdue
<1>1. AlarmInv => NoneOverdue
  BY DEF AlarmInv
<1> QED BY <1>1, AlarmInitially, AlarmPreserved, PTL DEF Spec

-----------------------------------------------------------------------------
(* Sleeping and the time of day. *)
USE ClockAssumption

Asleep == op \in {"sleep_start", "sleep_spin"}

(* What a step does to the parts a sleep depends on.                       *)
Counted == Count /\ UNCHANGED <<op, sleepVars>>
ReadByProgram == GetTime("program") /\ UNCHANGED <<op, sleepVars>>
ApartFromSleep ==
  /\ UNCHANGED <<sleepVars, mtime>>
  /\ \/ op' = op /\ reading'["program"] = reading["program"]
     \/ ~Asleep /\ ~Asleep'

LEMMA SleepTouched ==
  ASSUME ClockInv, [Next]_vars
  PROVE  \/ ApartFromSleep \/ Counted \/ ReadByProgram
         \/ \E us \in Sleeps : CallSleep(us)
         \/ SleepStep
<1> USE DEF ApartFromSleep, Asleep, wallVars, timerVars, clockVars
<1>1. CASE StartUp
  <2>1. CASE InitClock \/ ArmTimer
    BY <1>1, <2>1 DEF StartUp, InitClock, ArmTimer, At, Program, InitIrq,
         InitDriver, AddDevice, RedirectAll, Exit, Halt
  <2>2. CASE ~(InitClock \/ ArmTimer)
    BY <1>1, <2>2 DEF StartUp, InitIrq, InitDriver, CallRegister, AddDevice,
         RedirectAll, Exit, Halt, At, cpuVars
  <2> QED BY <2>1, <2>2
<1>2. CASE Main
  <2>1. CASE UseAlarms
    BY <2>1 DEF UseAlarms, CallStart, CallStop
  <2>2. CASE UseSleep
    BY <2>2 DEF UseSleep
  <2>3. CASE UseTimeOfDay
    BY <2>3 DEF UseTimeOfDay, SetTimeOfDay, cpuVars
  <2>4. CASE UseHandlers
    BY <2>4 DEF UseHandlers, CallRegister
  <2>5. CASE UseFiles
    BY <2>5 DEF UseFiles, cpuVars
  <2>6. CASE AlarmStep /\ UNCHANGED wallVars
    BY <2>6 DEF AlarmStep, StartTime, StartLink, StopUnlink, AlarmDone, Doing
  <2>7. CASE RegisterStep /\ UNCHANGED <<timerVars, wallVars>>
    BY <2>7 DEF RegisterStep, RegisterSet, RegisterEnable, RegisterDone, Doing
  <2> QED BY <1>2, <2>1, <2>2, <2>3, <2>4, <2>5, <2>6, <2>7 DEF Main
<1>3. CASE TrapRoutine
  <2>1. CASE Trap \/ PlatformIsr
    BY <1>3, <2>1 DEF TrapRoutine, Trap, PlatformIsr, LookPending, CallHandler,
                      TimerTrap, TimerIsr, Rearm, Tick, Walk, TickDone, Program
  <2>2. CASE TimerTrap \/ Rearm
    <3>1. UNCHANGED <<op, mtime, sleepVars>>
      BY <1>3, <2>2 DEF TrapRoutine, TimerTrap, Rearm
    <3>2. reading'["program"] = reading["program"]
      BY <2>2 DEF TimerTrap, Rearm, BeginReading, SetMtimecmp, ClockInv,
                  ClockTypeOK, Reader
    <3> QED BY <3>1, <3>2
  <2>3. CASE Tick \/ Walk \/ TickDone
    BY <1>3, <2>3 DEF TrapRoutine, Tick, Walk, TickDone, cpuVars
  <2> QED BY <1>3, <2>1, <2>2, <2>3 DEF TrapRoutine, TimerIsr
<1>4. ASSUME NEW r \in Reader, GetTime(r), UNCHANGED wallVars
      PROVE  ApartFromSleep \/ ReadByProgram
  <2>1. UNCHANGED <<op, mtime, sleepVars>>
    BY <1>4 DEF GetTime, cpuVars
  <2>2. CASE r = "program"
    BY <1>4, <2>1, <2>2 DEF ReadByProgram
  <2>3. CASE r = "isr"
    <3>1. reading'["program"] = reading["program"]
      BY <1>4, <2>3 DEF GetTime, ReadMtime, ClockInv, ClockTypeOK, Reader
    <3> QED BY <2>1, <3>1
  <2> QED BY <2>2, <2>3 DEF Reader
<1>5. CASE Environment
  <2>1. CASE Raise /\ UNCHANGED <<timerVars, wallVars>>
    BY <2>1 DEF Raise, cpuVars
  <2>2. CASE Count /\ UNCHANGED wallVars
    BY <2>2 DEF Count, Counted, cpuVars
  <2> QED BY <1>5, <2>1, <2>2 DEF Environment
<1>6. CASE UNCHANGED vars
  BY <1>6 DEF vars, cpuVars
<1> QED BY <1>1, <1>2, <1>3, <1>4, <1>5, <1>6 DEF Next

-----------------------------------------------------------------------------
(* The program's reading lies between the call of usleep and now, as long  *)
(* as the high word has not moved since it was read.                       *)
Between(t) == sleeping.from <= t /\ t <= mtime

SpanInv ==
  LET r == reading["program"]
  IN  /\ r.step \in {"low", "again"} => r.high <= mtime \div Word
      /\ r.step = "again" /\ mtime \div Word = r.high =>
           Between(Joined(r.high, r.low))
      /\ r.step = "done" => Between(Joined(r.high, r.low))

SleepInv ==
  /\ sleeping \in [counts : Nat, from : Nat]
  /\ timestamp_offset \in Nat
  /\ Asleep => /\ sleeping.from <= mtime
               /\ end_time = sleeping.counts % Word
               /\ SpanInv
  /\ op = "sleep_spin" => sleeping.from <= timestamp_offset

LEMMA SleepInitially == Init => SleepInv
  BY DEF Init, ProcessorInit, WallInit, Awake, SleepInv, Asleep

(* The words of a finished reading, as the time they stand for. *)
LEMMA ProgramWords ==
  ASSUME ClockInv
  PROVE  /\ TimeRead("program") = Joined(reading["program"].high,
                                         reading["program"].low)
         /\ TimeRead("program") \in Nat
<1>1. reading["program"].high \in Nat /\ reading["program"].low \in Nat
  BY DEF ClockInv, ClockTypeOK, Reader
<1> QED BY <1>1, JoinedIsNat DEF TimeRead, Joined

LEMMA AnewIsHigh ==
  ASSUME ClockInv, Anew
  PROVE  reading'["program"].step = "high"
  BY DEF Anew, Unread, ClockInv, ClockTypeOK, Reader

LEMMA SleepPreserved == ClockInv /\ SleepInv /\ [Next]_vars => SleepInv'
<1> SUFFICES ASSUME ClockInv, SleepInv, [Next]_vars PROVE SleepInv'
  OBVIOUS
<1>1. CASE ApartFromSleep
  <2>1. CASE op' = op /\ reading'["program"] = reading["program"]
    BY <1>1, <2>1 DEF ApartFromSleep, sleepVars, SleepInv, SpanInv, Between,
                      Asleep
  <2>2. CASE ~Asleep /\ ~Asleep'
    BY <1>1, <2>2 DEF ApartFromSleep, sleepVars, SleepInv, Asleep
  <2> QED BY <1>1, <2>1, <2>2 DEF ApartFromSleep
<1>2. CASE Counted
  <2>1. mtime' = mtime + 1 /\ mtime \in Nat
        /\ UNCHANGED <<op, reading, timestamp_offset, end_time, sleeping>>
    BY <1>2 DEF Counted, Count, sleepVars, ClockInv, ClockTypeOK
  <2>2. /\ mtime \div Word \in Nat /\ mtime' \div Word \in Nat
        /\ mtime \div Word <= mtime' \div Word
    BY <2>1, WordsJoin
  <2>3. /\ reading["program"].high \in Nat
        /\ Joined(reading["program"].high, reading["program"].low) \in Nat
        /\ sleeping.from \in Nat
    BY JoinedIsNat DEF ClockInv, ClockTypeOK, Reader, SleepInv
  <2>4. ASSUME Asleep PROVE SpanInv'
    <3> DEFINE before == mtime \div Word
               after == mtime' \div Word
               t == Joined(reading["program"].high, reading["program"].low)
    <3>1. Between(t) => Between(t)'
      BY <2>1, <2>3 DEF Between
    <3>2. /\ reading' = reading /\ SpanInv
          /\ before \in Nat /\ after \in Nat /\ before <= after
      BY <2>1, <2>2, <2>4 DEF SleepInv
    <3> QED BY <2>3, <3>1, <3>2 DEF SpanInv
  <2> QED BY <2>1, <2>3, <2>4 DEF SleepInv, Asleep
<1>3. CASE ReadByProgram
  <2>1. UNCHANGED <<op, mtime, timestamp_offset, end_time, sleeping>>
    BY <1>3 DEF ReadByProgram, GetTime, sleepVars
  <2>2. /\ mtime \in Nat /\ mtime \div Word \in Nat /\ (mtime % Word) \in Nat
        /\ mtime = Joined(mtime \div Word, mtime % Word)
    BY WordsJoin DEF ClockInv, ClockTypeOK
  <2>3. ASSUME Asleep PROVE SpanInv'
    <3> DEFINE old == reading["program"]
               new == reading'["program"]
    <3>1. sleeping.from <= mtime /\ sleeping.from \in Nat
      BY <2>3 DEF SleepInv
    <3>2. CASE old.step = "high"
      <4>1. new.step = "low" /\ new.high = mtime \div Word
        BY <1>3, <3>2 DEF ReadByProgram, GetTime, ReadMtime, Reading,
                          ClockInv, ClockTypeOK, Reader
      <4> QED BY <2>1, <2>2, <4>1 DEF SpanInv
    <3>3. CASE old.step = "low"
      <4>1. /\ new.step = "again" /\ new.high = old.high
            /\ new.low = mtime % Word
        BY <1>3, <3>3 DEF ReadByProgram, GetTime, ReadMtime, Reading,
                          ClockInv, ClockTypeOK, Reader
      <4>2. old.high <= mtime \div Word
        BY <2>3, <3>3 DEF SleepInv, SpanInv
      <4>3. mtime \div Word = old.high => Between(Joined(new.high, new.low))
        BY <2>2, <3>1, <4>1 DEF Between
      <4> QED BY <2>1, <4>1, <4>2, <4>3 DEF SpanInv, Between
    <3>4. CASE old.step = "again"
      <4>1. /\ new.high = old.high /\ new.low = old.low
            /\ new.step = IF mtime \div Word = old.high THEN "done" ELSE "high"
        BY <1>3, <3>4 DEF ReadByProgram, GetTime, ReadMtime, Reading,
                          ClockInv, ClockTypeOK, Reader
      <4> QED BY <2>1, <2>3, <3>4, <4>1 DEF SleepInv, SpanInv, Between
    <3> QED BY <1>3, <3>2, <3>3, <3>4
            DEF ReadByProgram, GetTime, ReadMtime, Reading
  <2> QED BY <2>1, <2>3 DEF SleepInv, Asleep
<1>4. ASSUME NEW us \in Sleeps, CallSleep(us) PROVE SleepInv'
  <2>1. /\ op' = "sleep_start" /\ mtime' = mtime /\ mtime \in Nat
        /\ timestamp_offset' = timestamp_offset
        /\ sleeping' = [counts |-> CPU_FREQUENCY_MHZ * us, from |-> mtime]
        /\ end_time' = (CPU_FREQUENCY_MHZ * us) % Word
    BY <1>4 DEF CallSleep, awakeVars, ClockInv, ClockTypeOK
  <2>2. CPU_FREQUENCY_MHZ * us \in Nat
    OBVIOUS
  <2>3. reading'["program"].step = "high"
    BY <1>4, AnewIsHigh DEF CallSleep
  <2> QED BY <2>1, <2>2, <2>3 DEF SleepInv, SpanInv
<1>5. CASE StartTimestamp
  <2>1. /\ op = "sleep_start" /\ op' = "sleep_spin" /\ mtime' = mtime
        /\ UNCHANGED <<end_time, sleeping>>
        /\ timestamp_offset' = TimeRead("program")
        /\ reading["program"].step = "done"
    BY <1>5 DEF StartTimestamp, Doing, Reading, awakeVars
  <2>2. reading'["program"].step = "high"
    BY <1>5, AnewIsHigh DEF StartTimestamp
  <2>3. Between(TimeRead("program")) /\ TimeRead("program") \in Nat
    BY <2>1, ProgramWords DEF SleepInv, SpanInv, Asleep
  <2> QED BY <2>1, <2>2, <2>3 DEF SleepInv, SpanInv, Between, Asleep
<1>6. CASE Spin
  <2>1. op = "sleep_spin" /\ UNCHANGED <<mtime, timestamp_offset>>
    BY <1>6 DEF Spin, Doing, awakeVars
  <2>2. CASE Anew /\ UNCHANGED <<op, end_time, sleeping>>
    BY <2>1, <2>2, AnewIsHigh DEF SleepInv, SpanInv, Asleep
  <2>3. CASE op' = "none" /\ sleeping' = Awake
    BY <2>1, <2>3 DEF SleepInv, Asleep, Awake
  <2> QED BY <1>6, <2>2, <2>3 DEF Spin
<1> QED BY <1>1, <1>2, <1>3, <1>4, <1>5, <1>6, SleepTouched DEF SleepStep

(* usleep never returns early, wherever the words of mtime wrap and        *)
(* whatever interrupts it, if its counts fit their 32 bits                 *)
(* (alt_busy_sleep.c:99-103, mtimer.c:30-41).                              *)
THEOREM SleepsLongEnough == Spec => SleepsEnough
<1> DEFINE Long == op = "sleep_spin" /\ op' # op /\ sleeping.counts < Word =>
                     mtime - sleeping.from >= sleeping.counts
<1>1. ASSUME ClockInv, SleepInv, [Next]_vars PROVE Long
  <2> SUFFICES ASSUME op = "sleep_spin", op' # op, sleeping.counts < Word
               PROVE  mtime - sleeping.from >= sleeping.counts
    OBVIOUS
  <2>1. Spin
    BY <1>1, SleepTouched
       DEF ApartFromSleep, Asleep, Counted, ReadByProgram, CallSleep, SleepStep,
           StartTimestamp, Doing
  <2>2. /\ reading["program"].step = "done"
        /\ ~(TimeRead("program") - timestamp_offset < end_time)
    BY <2>1 DEF Spin, Reading, Timestamp
  <2>3. /\ Between(TimeRead("program")) /\ TimeRead("program") \in Nat
        /\ end_time = sleeping.counts % Word
    BY <1>1, <2>2, ProgramWords DEF SleepInv, SpanInv, Asleep
  <2>4. /\ sleeping.counts \in Nat /\ sleeping.from \in Nat
        /\ timestamp_offset \in Nat /\ mtime \in Nat
        /\ sleeping.from <= timestamp_offset
    BY <1>1 DEF SleepInv, ClockInv, ClockTypeOK
  <2>5. sleeping.counts % Word = sleeping.counts
    BY <2>4
  <2> QED BY <2>2, <2>3, <2>4, <2>5 DEF Between
<1>2. ClockInv /\ SleepInv /\ [Next]_vars => [Long]_<<op, sleeping>>
  BY <1>1
<1> QED BY <1>2, ClockInitially, ClockPreserved, SleepInitially, SleepPreserved,
           PTL DEF Spec, SleepsEnough

-----------------------------------------------------------------------------
(* The time of day.  K, the microseconds of a tick, divides a second.      *)
K == ALT_US \div TicksPerSecond

LEMMA Rate == K \in Nat /\ ALT_US = TicksPerSecond * K
<1>1. ALT_US = TicksPerSecond * K + (ALT_US % TicksPerSecond)
  BY DEF K
<1> QED BY <1>1 DEF K

(* The whole seconds of n ticks and the rest make n ticks. *)
LEMMA TicksSplit ==
  ASSUME NEW n \in Nat
  PROVE  /\ n \div TicksPerSecond \in Nat
         /\ Microseconds(n) \in 0 .. ALT_US - 1
         /\ (n \div TicksPerSecond) * ALT_US + Microseconds(n) = n * K
<1> DEFINE R == TicksPerSecond
           q == n \div R
           r == n % R
<1>1. /\ q \in Nat /\ r \in 0 .. R - 1 /\ n = R * q + r
  OBVIOUS
<1>2. K \in Nat /\ K # 0 /\ ALT_US = R * K
  BY Rate
<1> HIDE DEF q, r
<1>3. n * K = q * ALT_US + r * K
  <2>1. (R * q + r) * K = (R * q) * K + r * K
    BY <1>1, <1>2
  <2>2. (R * q) * K = q * (R * K)
    BY <1>1, <1>2
  <2> QED BY <1>1, <1>2, <2>1, <2>2
<1>4. r * K \in 0 .. ALT_US - 1
  <2>1. r * K \in Nat
    BY <1>1, <1>2
  <2>2. (r + 1) * K <= R * K
    BY <1>1, <1>2
  <2>3. (r + 1) * K = r * K + K
    BY <1>1, <1>2
  <2> QED BY <1>1, <1>2, <2>1, <2>2, <2>3
<1>5. (q * ALT_US + r * K) % ALT_US = r * K
  BY <1>1, <1>4
<1>6. Microseconds(n) = r * K
  BY <1>3, <1>5 DEF Microseconds, K
<1> QED BY <1>1, <1>3, <1>4, <1>6 DEF q

DayInv ==
  /\ told \in [time : [tv_sec : Nat, tv_usec : 0 .. ALT_US - 1], nticks : Nat]
  /\ told.nticks <= nticks
  /\ alt_resettime.tv_sec \in Int
  /\ alt_resettime.tv_usec \in 1 - ALT_US .. ALT_US - 1
  /\ InMicroseconds(alt_resettime) =
       InMicroseconds(told.time) - told.nticks * K

LEMMA DayInitially == Init => DayInv
<1> SUFFICES ASSUME WallInit, TimerInit PROVE DayInv
  BY DEF Init
<1>1. 0 * K = 0 /\ 0 * ALT_US = 0
  BY Rate
<1> QED BY <1>1 DEF WallInit, TimerInit, DayInv, Time, InMicroseconds

LEMMA DayTouched ==
  [Next]_vars => \/ UNCHANGED dayVars /\ nticks' \in {nticks, nticks + 1}
                 \/ \E t \in Times : SetTimeOfDay(t)
<1> SUFFICES ASSUME [Next]_vars
             PROVE  \/ UNCHANGED dayVars /\ nticks' \in {nticks, nticks + 1}
                    \/ \E t \in Times : SetTimeOfDay(t)
  OBVIOUS
<1> USE DEF wallVars, timerVars, alarmVars, awakeVars
<1>1. CASE StartUp
  BY <1>1 DEF StartUp, InitIrq, InitDriver, AddDevice, InitClock, ArmTimer,
              RedirectAll, Exit, Halt
<1>2. CASE Main
  <2>1. CASE UseTimeOfDay
    BY <2>1 DEF UseTimeOfDay
  <2>2. CASE ~UseTimeOfDay
    BY <1>2, <2>2 DEF Main, UseAlarms, CallStart, CallStop, UseSleep, CallSleep,
         UseHandlers, UseFiles, AlarmStep, StartTime, StartLink, StopUnlink,
         AlarmDone, SleepStep, StartTimestamp, Spin
  <2> QED BY <2>1, <2>2
<1>3. CASE TrapRoutine
  BY <1>3 DEF TrapRoutine, TimerTrap, TimerIsr, Rearm, Tick, Walk, TickDone
<1>4. CASE \E r \in Reader : GetTime(r) /\ UNCHANGED wallVars
  BY <1>4 DEF GetTime
<1>5. CASE Environment
  BY <1>5 DEF Environment, Count
<1>6. CASE UNCHANGED vars
  BY <1>6 DEF vars
<1> QED BY <1>1, <1>2, <1>3, <1>4, <1>5, <1>6 DEF Next

LEMMA DayPreserved == ClockInv /\ DayInv /\ [Next]_vars => DayInv'
<1> SUFFICES ASSUME ClockInv, DayInv, [Next]_vars PROVE DayInv'
  OBVIOUS
<1>1. nticks \in Nat
  BY DEF ClockInv, ClockTypeOK
<1>2. CASE UNCHANGED dayVars /\ nticks' \in {nticks, nticks + 1}
  BY <1>1, <1>2 DEF DayInv, dayVars, InMicroseconds
<1>3. ASSUME NEW t \in Times, SetTimeOfDay(t) PROVE DayInv'
  <2> DEFINE q == nticks \div TicksPerSecond
             m == Microseconds(nticks)
  <2>1. q \in Nat /\ m \in 0 .. ALT_US - 1 /\ q * ALT_US + m = nticks * K
    BY <1>1, TicksSplit
  <2>2. t.tv_sec \in Nat /\ t.tv_usec \in 0 .. ALT_US - 1
        /\ t \in [tv_sec : Nat, tv_usec : 0 .. ALT_US - 1]
    OBVIOUS
  <2>3. /\ nticks' = nticks /\ told' = [time |-> t, nticks |-> nticks]
        /\ alt_resettime'.tv_sec = t.tv_sec - q
        /\ alt_resettime'.tv_usec = t.tv_usec - m
    BY <1>3 DEF SetTimeOfDay, Time, timerVars, alarmVars
  <2> HIDE DEF q, m
  <2>4. (t.tv_sec - q) * ALT_US = t.tv_sec * ALT_US - q * ALT_US
    BY <2>1, <2>2
  <2>5. InMicroseconds(alt_resettime') = InMicroseconds(t) - nticks * K
    <3>1. t.tv_sec * ALT_US \in Int /\ q * ALT_US \in Int /\ nticks * K \in Int
      BY <1>1, <2>1, <2>2, Rate
    <3> QED BY <2>1, <2>2, <2>3, <2>4, <3>1 DEF InMicroseconds
  <2> QED BY <1>1, <2>1, <2>2, <2>3, <2>5 DEF DayInv, InMicroseconds
<1> QED BY <1>2, <1>3, DayTouched

LEMMA DayIsTold == ClockInv /\ DayInv => TellsTheTime
<1> SUFFICES ASSUME ClockInv, DayInv PROVE TellsTheTime
  OBVIOUS
<1> DEFINE q == nticks \div TicksPerSecond
           m == Microseconds(nticks)
           sec == alt_resettime.tv_sec + q
           usec == alt_resettime.tv_usec + m
           total == InMicroseconds(told.time) + (nticks - told.nticks) * K
<1>1. nticks \in Nat /\ told.nticks \in Nat /\ told.nticks <= nticks /\ K \in Nat
  BY Rate DEF ClockInv, ClockTypeOK, DayInv
<1>2. q \in Nat /\ m \in 0 .. ALT_US - 1 /\ q * ALT_US + m = nticks * K
  BY <1>1, TicksSplit
<1>3. sec \in Int /\ usec \in 1 - ALT_US .. 2 * ALT_US - 2
  BY <1>2 DEF DayInv
<1>4. /\ total \in Nat
      /\ sec * ALT_US + usec = total
  <2>1. told.time.tv_sec * ALT_US \in Nat /\ told.time.tv_usec \in Nat
    BY DEF DayInv
  <2>2. (nticks - told.nticks) * K \in Nat
    BY <1>1
  <2>3. (nticks - told.nticks) * K = nticks * K - told.nticks * K
    BY <1>1
  <2>4. /\ alt_resettime.tv_sec * ALT_US \in Int
        /\ alt_resettime.tv_usec \in Int /\ q * ALT_US \in Int
        /\ nticks * K \in Int /\ told.nticks * K \in Int
    BY <1>1, <1>2 DEF DayInv
  <2>5. sec * ALT_US = alt_resettime.tv_sec * ALT_US + q * ALT_US
    BY <1>2 DEF DayInv
  <2>6. InMicroseconds(told.time) \in Nat
    BY <2>1 DEF InMicroseconds
  <2>7. alt_resettime.tv_sec * ALT_US + alt_resettime.tv_usec =
          InMicroseconds(told.time) - told.nticks * K
    BY DEF DayInv, InMicroseconds
  <2>8. total \in Nat
    BY <2>2, <2>6
  <2>9. m \in Int
    BY <1>2
  <2> DEFINE a == alt_resettime.tv_sec * ALT_US
             b == q * ALT_US
             c == sec * ALT_US
             n == nticks * K
             o == told.nticks * K
             p == (nticks - told.nticks) * K
             w == InMicroseconds(told.time)
             u == alt_resettime.tv_usec
  <2>10. /\ u \in Int /\ a \in Int /\ b \in Int /\ n \in Int /\ o \in Int /\ w \in Int
         /\ a + u = w - o /\ b + m = n /\ p = n - o
         /\ c = a + b
    BY <1>2, <2>3, <2>4, <2>5, <2>6, <2>7
  <2> HIDE DEF a, b, c, n, o, p, w, u, m, q
  <2>11. c + (u + m) = w + p
    BY <2>9, <2>10
  <2> QED BY <2>8, <2>11 DEF c, w, p, u
<1> HIDE DEF q, m
<1>5. TimeOfDay = Normal(sec, usec)
  BY DEF TimeOfDay, q, m
<1> HIDE DEF sec, usec, total
<1>6. ~(usec < 0 /\ sec <= 0)
  <2> SUFFICES ASSUME usec < 0, sec <= 0 PROVE FALSE
    OBVIOUS
  <2>1. sec * ALT_US <= 0
    BY <1>3
  <2> QED BY <1>3, <1>4, <2>1
<1>7. TimeOfDay.tv_usec \in 0 .. ALT_US - 1 /\ InMicroseconds(TimeOfDay) = total
  <2>1. /\ (sec - 1) * ALT_US = sec * ALT_US - ALT_US
        /\ (sec + 1) * ALT_US = sec * ALT_US + ALT_US
        /\ sec * ALT_US \in Int
    BY <1>3
  <2>2. CASE usec < 0
    BY <1>3, <1>4, <1>5, <1>6, <2>1, <2>2 DEF Normal, Time, InMicroseconds
  <2>3. CASE usec >= ALT_US
    BY <1>3, <1>4, <1>5, <2>1, <2>3 DEF Normal, Time, InMicroseconds
  <2>4. CASE usec \in 0 .. ALT_US - 1
    BY <1>3, <1>4, <1>5, <2>4 DEF Normal, Time, InMicroseconds
  <2> QED BY <1>3, <2>2, <2>3, <2>4
<1> QED BY <1>7 DEF TellsTheTime, total, K

(* The time of day is exact at any tick, for every time set and every rate *)
(* of the clock that divides a second (alt_gettod.c:91-112,                *)
(* alt_settod.c:82-84).                                                    *)
THEOREM TimeIsExact == Spec => []TellsTheTime
<1>1. ClockInv /\ DayInv => TellsTheTime
  BY DayIsTold
<1> QED BY <1>1, ClockInitially, ClockPreserved, DayInitially, DayPreserved,
           PTL DEF Spec
=============================================================================
