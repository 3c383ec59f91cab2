--------------------------- MODULE SchedulerProofs --------------------------
(***************************************************************************)
(* One task at a time, in its own memory, for every table of tasks and     *)
(* however deeply the scheduler's interrupt is nested.                     *)
(***************************************************************************)
EXTENDS Scheduler, TLAPS

(* An activation that has a task, and still holds the mutex.               *)
HasTask == activations # <<>> /\ Top.stage \in {"called", "runs", "returned"}

(* All activations but the last have done their work, and all found the    *)
(* access mode of the kernel when they began.                              *)
Stacked ==
  \A k \in DOMAIN activations :
    /\ activations[k].currentMode = "KERNEL"
    /\ k < Len(activations) => activations[k].stage = "unlocked"

Locked == lock = 1 <=> activations # <<>> /\ Top.stage # "unlocked"

Pointed == HasTask => proc_info = Top.task /\ procIndex = Top.task

Charged == flagProcActive = 1 <=> activations # <<>> /\ Top.stage = "runs"

Masked == at = "cliRunShell" <=> sreg_i = 0

Idle == at = "cliRunShell" => activations = <<>>

SchedulerInv ==
  /\ SchedulerTypeOK /\ Stacked /\ Locked /\ Pointed /\ Charged
  /\ MemoryBelongsToRunner /\ Masked /\ Idle

-----------------------------------------------------------------------------
(* The table and its indices.                                             *)
LEMMA TableFacts ==
  ASSUME ProcessNodeTable \in Tables
  PROVE  /\ numberOfTasks \in Nat /\ Indices \subseteq Nat /\ Nobody \notin Indices
         /\ \A i \in Indices : ListGetNode(i) \in Task
<1>1. ProcessNodeTable \in Seq(Task) /\ Nobody \notin Nat
  BY SchedulerAssumption
<1>2. numberOfTasks \in Nat
  BY <1>1 DEF numberOfTasks
<1>3. Indices \subseteq Nat
  BY <1>2 DEF Indices
<1>4. ASSUME NEW i \in Indices PROVE ListGetNode(i) \in Task
  <2> HIDE DEF Task
  <2>1. i + 1 \in 1 .. Len(ProcessNodeTable)
    BY <1>2 DEF Indices, numberOfTasks
  <2> QED BY <1>1, <2>1 DEF ListGetNode
<1> QED BY <1>1, <1>2, <1>3, <1>4

LEMMA TaskFields ==
  ASSUME NEW i, ListGetNode(i) \in Task
  PROVE  Privilege(i) \in {"KERNEL", "USER"} /\ ListGetNode(i).priority \in 0 .. ByteSize - 1
BY DEF Task, Privilege

LEMMA Sizes == /\ ByteSize \in Nat /\ ByteSize > 0 /\ WordSize \in Nat /\ WordSize > 0
               /\ \A n \in Nat : n % ByteSize \in 0 .. ByteSize - 1 /\ n % WordSize \in 0 .. WordSize - 1
BY SchedulerAssumption

(* The stack of activations.                                               *)
LEMMA TopOf ==
  ASSUME activations \in Seq(Activation), activations # <<>>
  PROVE  /\ Len(activations) \in Nat /\ Len(activations) > 0
         /\ Len(activations) \in DOMAIN activations /\ DOMAIN activations = 1 .. Len(activations)
         /\ Top \in Activation /\ Top = activations[Len(activations)]
BY DEF Top

(* A step of the activation on top changes its stage and nothing else of   *)
(* the stack.                                                              *)
LEMMA GoesOn ==
  ASSUME activations \in Seq(Activation), NEW from \in Stages, NEW to \in Stages, Goes(from, to)
  PROVE  /\ activations # <<>> /\ activations' # <<>> /\ Len(activations') = Len(activations)
         /\ activations' \in Seq(Activation)
         /\ DOMAIN activations' = DOMAIN activations
         /\ Top.stage = from /\ Top'.stage = to
         /\ Top'.task = Top.task /\ Top'.currentMode = Top.currentMode
         /\ \A k \in DOMAIN activations :
              /\ activations'[k].currentMode = activations[k].currentMode
              /\ k < Len(activations) => activations'[k] = activations[k]
<1>1. activations # <<>> /\ Top.stage = from
  BY DEF Goes
<1>2. /\ Len(activations) \in DOMAIN activations /\ Top \in Activation
      /\ Len(activations) \in Nat /\ DOMAIN activations = 1 .. Len(activations)
  BY <1>1, TopOf
<1>3. activations' = [activations EXCEPT ![Len(activations)] = [Top EXCEPT !.stage = to]]
  BY DEF Goes, Top
<1>4. /\ [Top EXCEPT !.stage = to] \in Activation
      /\ [Top EXCEPT !.stage = to].stage = to /\ [Top EXCEPT !.stage = to].task = Top.task
      /\ [Top EXCEPT !.stage = to].currentMode = Top.currentMode
  BY <1>2 DEF Activation
<1>5. /\ Len(activations') = Len(activations) /\ activations' \in Seq(Activation)
      /\ DOMAIN activations' = DOMAIN activations
  BY <1>2, <1>3, <1>4
<1>6. Top' = [Top EXCEPT !.stage = to]
  BY <1>2, <1>3, <1>5 DEF Top
<1>7. activations' # <<>>
  BY <1>1, <1>2, <1>5
<1>8. ASSUME NEW k \in DOMAIN activations
      PROVE  /\ activations'[k].currentMode = activations[k].currentMode
             /\ k < Len(activations) => activations'[k] = activations[k]
  <2>1. CASE k = Len(activations)
    BY <1>2, <1>3, <1>4, <2>1 DEF Top
  <2>2. CASE k # Len(activations)
    BY <1>2, <1>3, <2>2
  <2> QED BY <2>1, <2>2
<1> QED BY <1>1, <1>4, <1>5, <1>6, <1>7, <1>8

LEMMA NextIndexIn ==
  ASSUME ProcessNodeTable \in Tables, procIndex \in Indices \cup {0}, numberOfTasks > 0
  PROVE  NextIndex \in Indices /\ 0 \in Indices /\ procIndex \in Indices
BY TableFacts DEF NextIndex, Indices

LEMMA InitInv == Init => SchedulerInv
<1> SUFFICES ASSUME Init PROVE SchedulerInv
  OBVIOUS
<1>1. SchedulerTypeOK
  <2>1. ProcessNodeTable \in Tables
    BY DEF Init
  <2>2. \A i \in Indices : ListGetNode(i).priority \in Nat
    BY <2>1, TableFacts, TaskFields, Sizes
  <2>3. counter \in [Indices -> 0 .. ByteSize - 1]
    BY <2>2, Sizes DEF Init
  <2>4. service \in [0 .. 2 -> {"dummyFunction", "TIMER", "MAIN"}]
    BY DEF Init, SchedulerStart, SetInterruptService, dummyFunctions
  <2>5. time_slice \in [Indices -> 0 .. WordSize - 1]
    BY Sizes DEF Init
  <2>6. activations \in Seq(Activation) /\ Len(activations) <= MaxDepth
    BY SchedulerAssumption DEF Init
  <2> QED BY <2>1, <2>3, <2>4, <2>5, <2>6 DEF Init, SchedulerTypeOK
<1> QED BY <1>1 DEF Init, SchedulerInv, Stacked, Locked, Pointed, Charged, HasTask,
     MemoryBelongsToRunner, Masked, Idle
-----------------------------------------------------------------------------
(* The table never changes, so neither do the indices into it.             *)
LEMMA SameTable ==
  ASSUME ProcessNodeTable' = ProcessNodeTable
  PROVE  /\ numberOfTasks' = numberOfTasks /\ Indices' = Indices /\ Activation' = Activation
         /\ \A i : Privilege(i)' = Privilege(i)
BY DEF numberOfTasks, Indices, Activation, Privilege, ListGetNode

(* The main loop.                                                          *)
LEMMA MainLoopStep == SchedulerInv /\ MainLoop => SchedulerInv'
<1> SUFFICES ASSUME SchedulerInv, MainLoop PROVE SchedulerInv'
  OBVIOUS
<1>1. /\ activations = <<>> /\ UNCHANGED <<ProcessNodeTable, taskVars, procIndex, proc_info, lock,
                                           flagProcActive, memoryVars, service, activations>>
      /\ \/ at' = "cliRunShell" /\ sreg_i' = 0
         \/ at' = "loop" /\ sreg_i' = 1
  BY DEF MainLoop, BeginShell, EndShell, EnableGlobalInterrupts, DisableGlobalInterrupts
<1>2. SchedulerTypeOK'
  BY <1>1, SameTable DEF SchedulerInv, SchedulerTypeOK, taskVars, memoryVars
<1>3. Stacked' /\ Locked' /\ Pointed' /\ Charged' /\ MemoryBelongsToRunner'
  BY <1>1, SameTable DEF SchedulerInv, Stacked, Locked, Pointed, HasTask, Charged,
     MemoryBelongsToRunner, memoryVars, Top
<1>4. Masked' /\ Idle'
  BY <1>1 DEF SchedulerInv, Masked, Idle
<1> QED BY <1>2, <1>3, <1>4 DEF SchedulerInv

(* The timer touches the task that runs, which is one of the table.        *)
LEMMA TimerStep ==
  ASSUME SchedulerInv, NEW t, _ISR_SCHEDULER_TIMER__(t) PROVE SchedulerInv'
<1>1. UNCHANGED <<ProcessNodeTable, counter, procIndex, proc_info, lock, flagProcActive,
                  memoryVars, service, sreg_i, at, activations>>
  BY DEF _ISR_SCHEDULER_TIMER__
<1>2. proc_info \in Indices
  BY TopOf DEF _ISR_SCHEDULER_TIMER__, SchedulerInv, SchedulerTypeOK, Charged, Pointed, HasTask,
     Activation
<1>3. time_slice' \in [Indices -> 0 .. WordSize - 1]
  <2>1. time_slice[proc_info] \in 0 .. WordSize - 1
    BY <1>2 DEF SchedulerInv, SchedulerTypeOK
  <2>2. time_slice[proc_info] + 1 \in Nat
    BY <2>1, Sizes
  <2>3. TimeSliceAfter(time_slice[proc_info]) \in 0 .. WordSize - 1
    BY <2>2, Sizes DEF TimeSliceAfter
  <2> QED BY <1>2, <2>3 DEF _ISR_SCHEDULER_TIMER__, SchedulerInv, SchedulerTypeOK
<1>4. flags' \in [Indices -> SUBSET {"INITIATE", "SHUTDOWN_RQ"}]
  BY <1>2 DEF _ISR_SCHEDULER_TIMER__, SchedulerInv, SchedulerTypeOK
<1>5. SchedulerTypeOK'
  BY <1>1, <1>3, <1>4, SameTable DEF SchedulerInv, SchedulerTypeOK, memoryVars
<1>6. Stacked' /\ Locked' /\ Pointed' /\ Charged' /\ MemoryBelongsToRunner' /\ Masked' /\ Idle'
  BY <1>1, SameTable DEF SchedulerInv, Stacked, Locked, Pointed, HasTask, Charged,
     MemoryBelongsToRunner, memoryVars, Masked, Idle, Top
<1> QED BY <1>5, <1>6 DEF SchedulerInv

(* With the mutex free, nobody on the stack has a task, and the memory is  *)
(* the kernel's.                                                           *)
LEMMA FreeMutex ==
  ASSUME SchedulerInv, MutexLock
  PROVE  /\ ~HasTask /\ ~(activations # <<>> /\ Top.stage # "unlocked")
         /\ heap = Nobody /\ procSuperBlock = Nobody /\ mode = "KERNEL" /\ flagProcActive = 0
BY DEF SchedulerInv, MutexLock, Locked, HasTask, MemoryBelongsToRunner, SchedulerTypeOK, Charged

(* A task that is not due.                                                 *)
LEMMA WaitsStep ==
  ASSUME SchedulerInv, NEW t, _ISR_SCHEDULER_MAIN__Waits(t) PROVE SchedulerInv'
<1> DEFINE i == NextIndex
<1>1. /\ UNCHANGED <<ProcessNodeTable, flags, time_slice, lock, flagProcActive, mode,
                     service, sreg_i, at, activations>>
      /\ counter' = [counter EXCEPT ![i] = (@ + 1) % ByteSize]
      /\ proc_info' = i /\ procIndex' = IndexAfter(i)
      /\ heap' = Nobody /\ procSuperBlock' = Nobody /\ MutexLock /\ numberOfTasks > 0
  BY DEF _ISR_SCHEDULER_MAIN__Waits
<1>2. i \in Indices /\ 0 \in Indices
  BY <1>1, NextIndexIn DEF SchedulerInv, SchedulerTypeOK
<1>3. counter' \in [Indices -> 0 .. ByteSize - 1]
  <2>1. counter[i] \in 0 .. ByteSize - 1
    BY <1>2 DEF SchedulerInv, SchedulerTypeOK
  <2>2. counter[i] + 1 \in Nat
    BY <2>1, Sizes
  <2>3. (counter[i] + 1) % ByteSize \in 0 .. ByteSize - 1
    BY <2>2, Sizes
  <2> QED BY <1>1, <1>2, <2>3 DEF SchedulerInv, SchedulerTypeOK
<1>4. procIndex' \in Indices
  BY <1>1, <1>2 DEF IndexAfter
<1> HIDE DEF i
<1>5. SchedulerTypeOK'
  BY <1>1, <1>2, <1>3, <1>4, SameTable DEF SchedulerInv, SchedulerTypeOK
<1>6. Stacked' /\ Locked' /\ Pointed' /\ Charged' /\ MemoryBelongsToRunner' /\ Masked' /\ Idle'
  BY <1>1, FreeMutex DEF SchedulerInv, Stacked, Locked, Pointed, HasTask, Charged,
     MemoryBelongsToRunner, Masked, Idle, Top
<1> QED BY <1>5, <1>6 DEF SchedulerInv
(* A call puts a new activation on a stack whose others are all done.      *)
LEMMA CallsStep ==
  ASSUME SchedulerInv, NEW t, _ISR_SCHEDULER_MAIN__Calls(t) PROVE SchedulerInv'
<1> DEFINE i == NextIndex
           a == [stage |-> "called", task |-> i, currentMode |-> mode]
<1>1. /\ UNCHANGED <<ProcessNodeTable, flagProcActive, service, at>>
      /\ counter' = [counter EXCEPT ![i] = 0] /\ time_slice' = [time_slice EXCEPT ![i] = 0]
      /\ flags' = [flags EXCEPT ![i] = @ \cup {"INITIATE"}]
      /\ procIndex' = i /\ proc_info' = i /\ heap' = i /\ procSuperBlock' = i
      /\ mode' = Privilege(i) /\ lock' = 1 /\ sreg_i = 1 /\ sreg_i' = 1
      /\ activations' = Append(activations, a)
      /\ MutexLock /\ numberOfTasks > 0 /\ Len(activations) < MaxDepth
  BY DEF _ISR_SCHEDULER_MAIN__Calls, EnableGlobalInterrupts
<1>2. i \in Indices /\ Privilege(i) \in {"KERNEL", "USER"}
  BY <1>1, NextIndexIn, TableFacts, TaskFields DEF SchedulerInv, SchedulerTypeOK
<1>3. a \in Activation /\ a.stage = "called" /\ a.task = i /\ a.currentMode = "KERNEL"
  BY <1>1, <1>2, FreeMutex DEF Activation, Stages
<1> HIDE DEF i, a
<1>4. /\ activations \in Seq(Activation) /\ MaxDepth \in Nat
      /\ Len(activations) \in Nat /\ DOMAIN activations = 1 .. Len(activations)
  BY SchedulerAssumption DEF SchedulerInv, SchedulerTypeOK
<1>5. /\ activations' \in Seq(Activation) /\ Len(activations') = Len(activations) + 1
      /\ DOMAIN activations' = 1 .. Len(activations) + 1
      /\ activations'[Len(activations) + 1] = a
      /\ \A k \in 1 .. Len(activations) : activations'[k] = activations[k]
  BY <1>1, <1>3, <1>4
<1>6. activations' # <<>> /\ Top' = a
  BY <1>4, <1>5 DEF Top
<1>7. counter' \in [Indices -> 0 .. ByteSize - 1] /\ time_slice' \in [Indices -> 0 .. WordSize - 1]
  BY <1>1, <1>2, Sizes DEF SchedulerInv, SchedulerTypeOK
<1>8. flags' \in [Indices -> SUBSET {"INITIATE", "SHUTDOWN_RQ"}]
  BY <1>1, <1>2 DEF SchedulerInv, SchedulerTypeOK
<1>9. SchedulerTypeOK'
  BY <1>1, <1>2, <1>4, <1>5, <1>7, <1>8, SameTable DEF SchedulerInv, SchedulerTypeOK
<1>10. Stacked'
  <2>1. ASSUME NEW k \in DOMAIN activations PROVE activations[k].stage = "unlocked"
    <3>1. CASE k = Len(activations)
      <4>1. activations # <<>>
        BY <1>4
      <4> QED BY <1>1, <3>1, <4>1, FreeMutex DEF Top
    <3>2. CASE k # Len(activations)
      BY <1>4, <3>2 DEF SchedulerInv, Stacked
    <3> QED BY <3>1, <3>2
  <2>2. ASSUME NEW k \in DOMAIN activations'
        PROVE  /\ activations'[k].currentMode = "KERNEL"
               /\ k < Len(activations') => activations'[k].stage = "unlocked"
    <3>1. CASE k = Len(activations) + 1
      BY <1>3, <1>4, <1>5, <3>1
    <3>2. CASE k \in 1 .. Len(activations)
      BY <1>4, <1>5, <2>1, <3>2 DEF SchedulerInv, Stacked
    <3> QED BY <1>4, <1>5, <3>1, <3>2
  <2> QED BY <2>2 DEF Stacked
<1>11. Locked' /\ Pointed' /\ Charged'
  BY <1>1, <1>3, <1>6, FreeMutex DEF Locked, Pointed, HasTask, Charged
<1>12. MemoryBelongsToRunner'
  BY <1>1, <1>2, <1>3, <1>6, SameTable DEF MemoryBelongsToRunner
<1>13. Masked' /\ Idle'
  BY <1>1 DEF SchedulerInv, Masked, Idle
<1> QED BY <1>9, <1>10, <1>11, <1>12, <1>13 DEF SchedulerInv

(* What every step of the top activation keeps, given that the parts that  *)
(* depend on the stage hold after it.                                      *)
LEMMA TopStep ==
  ASSUME SchedulerInv, NEW from \in Stages, NEW to \in Stages, Goes(from, to),
         procIndex' \in Indices \cup {0}, {proc_info', heap', procSuperBlock'} \subseteq Indices \cup {Nobody},
         lock' \in {0, 1}, flagProcActive' \in {0, 1}, mode' \in {"KERNEL", "USER"},
         Locked', Pointed', Charged', MemoryBelongsToRunner'
  PROVE  SchedulerInv'
<1>1. activations \in Seq(Activation)
  BY DEF SchedulerInv, SchedulerTypeOK
<1>2. UNCHANGED <<ProcessNodeTable, counter, flags, time_slice, service, sreg_i, at>>
  BY DEF Goes, taskVars
<1>3. SchedulerTypeOK'
  BY <1>1, <1>2, GoesOn, SameTable DEF SchedulerInv, SchedulerTypeOK
<1>4. Stacked'
  BY <1>1, GoesOn DEF SchedulerInv, Stacked
<1>5. Masked' /\ Idle'
  BY <1>1, <1>2, GoesOn DEF SchedulerInv, Masked, Idle
<1> QED BY <1>3, <1>4, <1>5 DEF SchedulerInv

LEMMA TaskRunsStep == SchedulerInv /\ TaskRuns => SchedulerInv'
<1> SUFFICES ASSUME SchedulerInv, TaskRuns PROVE SchedulerInv'
  OBVIOUS
<1>1. /\ Goes("called", "runs") /\ flagProcActive' = 1
      /\ UNCHANGED <<procIndex, proc_info, lock, heap, procSuperBlock, mode>>
  BY DEF TaskRuns, memoryVars
<1>2. /\ activations # <<>> /\ activations' # <<>> /\ Top.stage = "called" /\ Top'.stage = "runs"
      /\ Top'.task = Top.task /\ ProcessNodeTable' = ProcessNodeTable
  BY <1>1, GoesOn DEF SchedulerInv, SchedulerTypeOK, Stages, Goes
<1>3. Locked' /\ Pointed' /\ Charged'
  BY <1>1, <1>2 DEF SchedulerInv, Locked, Pointed, HasTask, Charged
<1>4. MemoryBelongsToRunner'
  BY <1>1, <1>2, SameTable DEF SchedulerInv, MemoryBelongsToRunner
<1> QED BY <1>1, <1>3, <1>4, TopStep DEF SchedulerInv, SchedulerTypeOK, Stages

LEMMA TaskReturnsStep == SchedulerInv /\ TaskReturns => SchedulerInv'
<1> SUFFICES ASSUME SchedulerInv, TaskReturns PROVE SchedulerInv'
  OBVIOUS
<1>1. /\ Goes("runs", "returned") /\ flagProcActive' = 0
      /\ UNCHANGED <<procIndex, proc_info, lock, heap, procSuperBlock, mode>>
  BY DEF TaskReturns, memoryVars
<1>2. /\ activations # <<>> /\ activations' # <<>> /\ Top.stage = "runs" /\ Top'.stage = "returned"
      /\ Top'.task = Top.task /\ ProcessNodeTable' = ProcessNodeTable
  BY <1>1, GoesOn DEF SchedulerInv, SchedulerTypeOK, Stages, Goes
<1>3. Locked' /\ Pointed' /\ Charged'
  BY <1>1, <1>2 DEF SchedulerInv, Locked, Pointed, HasTask, Charged
<1>4. MemoryBelongsToRunner'
  BY <1>1, <1>2, SameTable DEF SchedulerInv, MemoryBelongsToRunner
<1> QED BY <1>1, <1>3, <1>4, TopStep DEF SchedulerInv, SchedulerTypeOK, Stages

(* The access mode that is restored is the one found, the kernel's.        *)
LEMMA LeaveTaskStep == SchedulerInv /\ LeaveTask => SchedulerInv'
<1> SUFFICES ASSUME SchedulerInv, LeaveTask PROVE SchedulerInv'
  OBVIOUS
<1>1. /\ Goes("returned", "left") /\ procIndex' = IndexAfter(procIndex)
      /\ heap' = Nobody /\ procSuperBlock' = Nobody /\ mode' = Top.currentMode
      /\ UNCHANGED <<proc_info, lock, flagProcActive>>
  BY DEF LeaveTask, ModeRestored
<1>2. /\ activations # <<>> /\ activations' # <<>> /\ Top.stage = "returned" /\ Top'.stage = "left"
      /\ ProcessNodeTable' = ProcessNodeTable
  BY <1>1, GoesOn DEF SchedulerInv, SchedulerTypeOK, Stages, Goes
<1>3. mode' = "KERNEL"
  BY <1>1, <1>2, TopOf DEF SchedulerInv, SchedulerTypeOK, Stacked
<1>4. procIndex' \in Indices \cup {0}
  BY <1>1 DEF IndexAfter, SchedulerInv, SchedulerTypeOK
<1>5. Locked' /\ Pointed' /\ Charged'
  BY <1>1, <1>2 DEF SchedulerInv, Locked, Pointed, HasTask, Charged
<1>6. MemoryBelongsToRunner'
  BY <1>1, <1>2, <1>3 DEF MemoryBelongsToRunner
<1> QED BY <1>1, <1>3, <1>4, <1>5, <1>6, TopStep DEF SchedulerInv, SchedulerTypeOK, Stages

LEMMA MutexUnlockStep == SchedulerInv /\ MutexUnlock => SchedulerInv'
<1> SUFFICES ASSUME SchedulerInv, MutexUnlock PROVE SchedulerInv'
  OBVIOUS
<1>1. /\ Goes("left", "unlocked") /\ lock' = 0
      /\ UNCHANGED <<procIndex, proc_info, flagProcActive, heap, procSuperBlock, mode>>
  BY DEF MutexUnlock, memoryVars
<1>2. /\ activations # <<>> /\ activations' # <<>> /\ Top.stage = "left" /\ Top'.stage = "unlocked"
      /\ ProcessNodeTable' = ProcessNodeTable
  BY <1>1, GoesOn DEF SchedulerInv, SchedulerTypeOK, Stages, Goes
<1>3. Locked' /\ Pointed' /\ Charged'
  BY <1>1, <1>2 DEF SchedulerInv, Locked, Pointed, HasTask, Charged
<1>4. MemoryBelongsToRunner'
  BY <1>1, <1>2 DEF SchedulerInv, MemoryBelongsToRunner
<1> QED BY <1>1, <1>3, <1>4, TopStep DEF SchedulerInv, SchedulerTypeOK, Stages

(* What is left on the stack when an activation returns is done too.       *)
LEMMA ReturnStep == SchedulerInv /\ ReturnFromInterrupt => SchedulerInv'
<1> SUFFICES ASSUME SchedulerInv, ReturnFromInterrupt PROVE SchedulerInv'
  OBVIOUS
<1>1. /\ activations # <<>> /\ Top.stage = "unlocked" /\ sreg_i' = 1
      /\ activations' = SubSeq(activations, 1, Len(activations) - 1)
      /\ UNCHANGED <<ProcessNodeTable, counter, flags, time_slice, procIndex, proc_info, lock,
                     flagProcActive, heap, procSuperBlock, mode, service, at>>
  BY DEF ReturnFromInterrupt, EnableGlobalInterrupts, taskVars, memoryVars
<1>2. /\ activations \in Seq(Activation) /\ Len(activations) \in Nat \ {0}
      /\ Len(activations) <= MaxDepth /\ DOMAIN activations = 1 .. Len(activations)
  BY <1>1, TopOf DEF SchedulerInv, SchedulerTypeOK
<1>3. /\ activations' \in Seq(Activation) /\ Len(activations') = Len(activations) - 1
      /\ DOMAIN activations' = 1 .. Len(activations) - 1
      /\ \A k \in 1 .. Len(activations) - 1 : activations'[k] = activations[k]
  BY <1>1, <1>2
<1>4. activations' # <<>> => Top'.stage = "unlocked"
  <2> SUFFICES ASSUME activations' # <<>> PROVE Top'.stage = "unlocked"
    OBVIOUS
  <2>1. Len(activations) - 1 \in 1 .. Len(activations) - 1
    BY <1>2, <1>3
  <2>2. Top' = activations[Len(activations) - 1]
    BY <1>3, <2>1 DEF Top
  <2> QED BY <1>2, <2>1, <2>2 DEF SchedulerInv, Stacked
<1>5. SchedulerTypeOK'
  <2>1. Len(activations') <= MaxDepth
    BY <1>2, <1>3, SchedulerAssumption
  <2> QED BY <1>1, <1>3, <2>1, SameTable DEF SchedulerInv, SchedulerTypeOK
<1>6. Stacked'
  BY <1>2, <1>3 DEF SchedulerInv, Stacked
<1>7. Locked' /\ Pointed' /\ Charged' /\ MemoryBelongsToRunner'
  BY <1>1, <1>4 DEF SchedulerInv, Locked, Pointed, HasTask, Charged, MemoryBelongsToRunner
<1>8. Masked' /\ Idle'
  BY <1>1 DEF SchedulerInv, Masked, Idle
<1> QED BY <1>5, <1>6, <1>7, <1>8 DEF SchedulerInv

-----------------------------------------------------------------------------
LEMMA StutterStep == SchedulerInv /\ UNCHANGED vars => SchedulerInv'
BY SameTable DEF SchedulerInv, SchedulerTypeOK, Stacked, Locked, Pointed, HasTask, Charged,
   MemoryBelongsToRunner, Masked, Idle, vars, taskVars, memoryVars, Top

LEMMA StepInv == SchedulerInv /\ [Next]_vars => SchedulerInv'
<1> SUFFICES ASSUME SchedulerInv, [Next]_vars PROVE SchedulerInv'
  OBVIOUS
<1>1. CASE \E t \in Timers : Interrupt(t)
  BY <1>1, TimerStep, WaitsStep, CallsStep DEF Interrupt
<1>2. CASE SchedulerGoesOn
  BY <1>2, TaskRunsStep, LeaveTaskStep, MutexUnlockStep, ReturnStep DEF SchedulerGoesOn
<1>3. CASE TaskReturns
  BY <1>3, TaskReturnsStep
<1>4. CASE MainLoop
  BY <1>4, MainLoopStep
<1>5. CASE UNCHANGED vars
  BY <1>5, StutterStep
<1> QED BY <1>1, <1>2, <1>3, <1>4, <1>5 DEF Next

LEMMA AlwaysInv == Spec => []SchedulerInv
BY InitInv, StepInv, PTL DEF Spec

(* The scheduler's state is well formed for every table of tasks, so no    *)
(* pointer it follows leaves the table (scheduler.c:219-298).              *)
THEOREM SchedulerTypeCorrect == Spec => []SchedulerTypeOK
<1>1. SchedulerInv => SchedulerTypeOK
  BY DEF SchedulerInv
<1> QED BY <1>1, AlwaysInv, PTL

(* However deeply the scheduler's interrupt is nested, one activation at   *)
(* most has a task, and it holds the mutex (scheduler.c:216).              *)
THEOREM MutexCorrect == Spec => []OneTaskAtATime
<1>1. SchedulerInv => OneTaskAtATime
  <2> SUFFICES ASSUME SchedulerInv, NEW k \in DOMAIN activations, activations[k].stage # "unlocked"
               PROVE  k = Len(activations) /\ lock = 1
    BY DEF OneTaskAtATime
  <2>1. activations # <<>>
    OBVIOUS
  <2>2. k \in 1 .. Len(activations) /\ Len(activations) \in Nat
    BY <2>1, TopOf DEF SchedulerInv, SchedulerTypeOK
  <2>3. k = Len(activations)
    BY <2>2 DEF SchedulerInv, Stacked
  <2> QED BY <2>1, <2>3 DEF SchedulerInv, Locked, Top
<1> QED BY <1>1, AlwaysInv, PTL

(* A task runs with its own heap, super block and privilege, and everybody *)
(* else with the kernel's (scheduler.c:228-243, 285-292).                  *)
THEOREM MemoryCorrect == Spec => []MemoryBelongsToRunner
<1>1. SchedulerInv => MemoryBelongsToRunner
  BY DEF SchedulerInv
<1> QED BY <1>1, AlwaysInv, PTL

(* The timer charges its ticks to the task that runs (scheduler.c:308-312). *)
THEOREM ChargeCorrect == Spec => []TicksAreCharged
<1>1. SchedulerInv => TicksAreCharged
  BY DEF SchedulerInv, SchedulerTypeOK, TicksAreCharged, Charged, Pointed, HasTask
<1> QED BY <1>1, AlwaysInv, PTL

(* The shell is alone on the processor (main.c:157-161).                   *)
THEOREM ShellCorrect == Spec => []ShellAlone
<1>1. SchedulerInv => ShellAlone
  BY DEF SchedulerInv, SchedulerTypeOK, ShellAlone, Masked, Idle, Locked
<1> QED BY <1>1, AlwaysInv, PTL
=============================================================================
