------------------------------ MODULE Scheduler -----------------------------
(***************************************************************************)
(* The scheduler and its interrupts (kernel/scheduler.c, mutex.c,          *)
(* interrupt.c, virtual.c and the main loop of main.c).                    *)
(*                                                                         *)
(* Timer 1 runs the scheduler, which calls one task from within its        *)
(* interrupt with interrupts enabled; timer 0 counts how long that task    *)
(* takes.  The main loop polls the shell with interrupts disabled.  Code   *)
(* that runs with interrupts disabled is one step.  The table of tasks is  *)
(* a constant: the bodies of TaskCreate and TaskDestroy are commented out. *)
(***************************************************************************)
EXTENDS Naturals, Sequences

CONSTANTS
  Tables,       (* the tables of tasks, as sequences; one may be empty    *)
  Nobody,       (* no task: all of the heap, no super block, a null pointer *)
  ByteSize,     (* 256, the values of priority and counter                *)
  WordSize,     (* 65536, the values of time_slice                        *)
  SuggestAfter, (* 100 ticks, then a task is asked to shut down           *)
  MaxDepth      (* bound on the activations of the scheduler on the stack *)

(* A task is code of someone else: it may never return.                    *)
Task == [type : {"TSR", "VOLATILE"}, privilege : {"KERNEL", "USER"},
         priority : 0 .. ByteSize - 1, returns : BOOLEAN]

ASSUME SchedulerAssumption ==
  /\ Tables \subseteq Seq(Task)
  /\ Nobody \notin Nat
  /\ {ByteSize, WordSize, MaxDepth} \subseteq Nat \ {0} /\ SuggestAfter \in Nat

VARIABLES
  ProcessNodeTable,
  counter, flags, time_slice,  (* of each task                            *)
  procIndex, proc_info,
  lock,                        (* of the mutex mux                        *)
  flagProcActive,
  heap, procSuperBlock, mode,  (* what memory accesses are limited to     *)
  service,                     (* what the timer interrupts call          *)
  sreg_i,                      (* whether interrupts are enabled          *)
  at,                          (* where the main loop is                  *)
  activations  (* of the scheduler that have not returned: how far each   *)
               (* is, the task it called, the access mode to restore      *)

taskVars == <<counter, flags, time_slice>>
memoryVars == <<heap, procSuperBlock, mode>>
vars == <<ProcessNodeTable, taskVars, procIndex, proc_info, lock, flagProcActive, memoryVars,
          service, sreg_i, at, activations>>

numberOfTasks == Len(ProcessNodeTable)
Indices == 0 .. numberOfTasks - 1
ListGetNode(i) == ProcessNodeTable[i + 1]

-----------------------------------------------------------------------------
(* Setting a service sets those of the later timers too.                   *)
SetInterruptService(s, index, f) == [i \in 0 .. 2 |-> IF i >= index THEN f ELSE s[i]]

dummyFunctions == [i \in 0 .. 2 |-> "dummyFunction"]

(* Slip: the scheduler is set first, and then the timer everywhere.        *)
ServicesSwapped ==
  SetInterruptService(SetInterruptService(dummyFunctions, 1, "MAIN"), 0, "TIMER")

SchedulerStart ==
  SetInterruptService(SetInterruptService(dummyFunctions, 0, "TIMER"), 1, "MAIN")

(* The timers that are started: 0 and 1.                                   *)
Timers == {0, 1}

(* A new task is due for its first call at once.                           *)
Init ==
  /\ ProcessNodeTable \in Tables
  /\ counter = [i \in Indices |-> (ListGetNode(i).priority + 1) % ByteSize]
  /\ flags = [i \in Indices |-> {}]
  /\ time_slice = [i \in Indices |-> 0]
  /\ procIndex = 0 /\ proc_info = Nobody
  /\ lock = 0 /\ flagProcActive = 0
  /\ heap = Nobody /\ procSuperBlock = Nobody /\ mode = "KERNEL"
  /\ service = SchedulerStart
  /\ sreg_i = 1 /\ at = "loop"
  /\ activations = <<>>

-----------------------------------------------------------------------------
(* The main loop: cliRunShell between cli and sei.                         *)
EnableGlobalInterrupts == sreg_i' = 1

(* Slip: interrupts stay enabled.                                          *)
InterruptsLeftEnabled == sreg_i' = 1

DisableGlobalInterrupts == sreg_i' = 0

BeginShell ==
  /\ activations = <<>> /\ at = "loop"
  /\ DisableGlobalInterrupts
  /\ at' = "cliRunShell"
  /\ UNCHANGED <<ProcessNodeTable, taskVars, procIndex, proc_info, lock, flagProcActive,
                 memoryVars, service, activations>>

EndShell ==
  /\ activations = <<>> /\ at = "cliRunShell"
  /\ EnableGlobalInterrupts
  /\ at' = "loop"
  /\ UNCHANGED <<ProcessNodeTable, taskVars, procIndex, proc_info, lock, flagProcActive,
                 memoryVars, service, activations>>

-----------------------------------------------------------------------------
(* The timer interrupt: a task that has run for too long is asked to shut  *)
(* down, and nothing else is ever done about it.                           *)
(* Slip: the time slice is too small for the limit it is compared with.    *)
TimeSliceNarrow(s) == (s + 1) % (SuggestAfter + 1)

TimeSliceAfter(s) == (s + 1) % WordSize

_ISR_SCHEDULER_TIMER__(t) ==
  /\ sreg_i = 1 /\ service[t] = "TIMER"
  /\ flagProcActive = 1
  /\ time_slice' = [time_slice EXCEPT ![proc_info] = TimeSliceAfter(@)]
  /\ flags' = [flags EXCEPT ![proc_info] =
                 IF TimeSliceAfter(time_slice[proc_info]) > SuggestAfter
                 THEN @ \cup {"SHUTDOWN_RQ"} ELSE @]
  /\ UNCHANGED <<ProcessNodeTable, counter, procIndex, proc_info, lock, flagProcActive,
                 memoryVars, service, sreg_i, at, activations>>

(* The scheduler interrupt.  Without tasks, or while an earlier activation *)
(* holds the mutex, it returns at once.                                    *)
(* Slip: the mutex is not looked at.                                       *)
MutexIgnored == TRUE

MutexLock == lock = 0

NextIndex == IF procIndex + 1 >= numberOfTasks THEN 0 ELSE procIndex + 1

(* A volatile task is meant to be gone from the table now.                 *)
(* Slip: the index steps back to the task before it.                       *)
IndexBefore(i) == IF ListGetNode(i).type = "VOLATILE" THEN i - 1 ELSE i

IndexAfter(i) == IF ListGetNode(i).type = "VOLATILE" THEN 0 ELSE i

Due(i) == counter[i] > ListGetNode(i).priority

(* A task that is not due costs one round of its counter.                  *)
_ISR_SCHEDULER_MAIN__Waits(t) ==
  LET i == NextIndex
  IN
  /\ sreg_i = 1 /\ service[t] = "MAIN"
  /\ numberOfTasks > 0 /\ MutexLock
  /\ ~Due(i)
  /\ counter' = [counter EXCEPT ![i] = (@ + 1) % ByteSize]
  /\ proc_info' = i /\ procIndex' = IndexAfter(i)
  /\ heap' = Nobody /\ procSuperBlock' = Nobody
  /\ UNCHANGED <<ProcessNodeTable, flags, time_slice, lock, flagProcActive, mode,
                 service, sreg_i, at, activations>>

(* A task that is due gets its heap and access mode.                       *)
Privilege(i) == ListGetNode(i).privilege

_ISR_SCHEDULER_MAIN__Calls(t) ==
  LET i == NextIndex
  IN
  /\ sreg_i = 1 /\ service[t] = "MAIN"
  /\ numberOfTasks > 0 /\ MutexLock
  /\ Len(activations) < MaxDepth
  /\ Due(i)
  /\ lock' = 1
  /\ procIndex' = i /\ proc_info' = i
  /\ mode' = Privilege(i) /\ procSuperBlock' = i /\ heap' = i
  /\ counter' = [counter EXCEPT ![i] = 0]
  /\ flags' = [flags EXCEPT ![i] = @ \cup {"INITIATE"}]
  /\ time_slice' = [time_slice EXCEPT ![i] = 0]
  /\ EnableGlobalInterrupts
  /\ activations' = Append(activations, [stage |-> "called", task |-> i, currentMode |-> mode])
  /\ UNCHANGED <<ProcessNodeTable, flagProcActive, service, at>>

(* The activation on top of the stack goes on, with interrupts enabled.    *)
Top == activations[Len(activations)]

Goes(from, to) ==
  /\ activations # <<>> /\ Top.stage = from
  /\ activations' = [activations EXCEPT ![Len(activations)].stage = to]
  /\ UNCHANGED <<ProcessNodeTable, taskVars, service, sreg_i, at>>

TaskRuns ==
  /\ Goes("called", "runs")
  /\ flagProcActive' = 1
  /\ UNCHANGED <<procIndex, proc_info, lock, memoryVars>>

TaskReturns ==
  /\ Goes("runs", "returned")
  /\ flagProcActive' = 0
  /\ UNCHANGED <<procIndex, proc_info, lock, memoryVars>>

(* Slip: the task's access mode is left set.                               *)
ModeKept(m) == mode

ModeRestored(m) == m

LeaveTask ==
  /\ Goes("returned", "left")
  /\ procIndex' = IndexAfter(procIndex)
  /\ heap' = Nobody /\ procSuperBlock' = Nobody
  /\ mode' = ModeRestored(Top.currentMode)
  /\ UNCHANGED <<proc_info, lock, flagProcActive>>

MutexUnlock ==
  /\ Goes("left", "unlocked")
  /\ lock' = 0
  /\ UNCHANGED <<procIndex, proc_info, flagProcActive, memoryVars>>

ReturnFromInterrupt ==
  /\ activations # <<>> /\ Top.stage = "unlocked"
  /\ activations' = SubSeq(activations, 1, Len(activations) - 1)
  /\ EnableGlobalInterrupts
  /\ UNCHANGED <<ProcessNodeTable, taskVars, procIndex, proc_info, lock, flagProcActive,
                 memoryVars, service, at>>

Interrupt(t) ==
  \/ _ISR_SCHEDULER_TIMER__(t)
  \/ _ISR_SCHEDULER_MAIN__Waits(t)
  \/ _ISR_SCHEDULER_MAIN__Calls(t)

SchedulerGoesOn == TaskRuns \/ LeaveTask \/ MutexUnlock \/ ReturnFromInterrupt

MainLoop == BeginShell \/ EndShell

Next == (\E t \in Timers : Interrupt(t)) \/ SchedulerGoesOn \/ TaskReturns \/ MainLoop

(* A timer's interrupt stays pending until it is served, and between two   *)
(* interrupts at least one instruction of the interrupted code runs.  The  *)
(* kernel's code goes on; a task returns if it is one that does.           *)
Fairness ==
  /\ \A t \in Timers : SF_vars(Interrupt(t))
  /\ WF_vars(SchedulerGoesOn)
  /\ \A d \in 1 .. MaxDepth : SF_vars(ReturnFromInterrupt /\ Len(activations) = d)
  /\ WF_vars(TaskReturns /\ ListGetNode(Top.task).returns)
  /\ SF_vars(MainLoop)

Spec == Init /\ [][Next]_vars /\ Fairness

-----------------------------------------------------------------------------
Stages == {"called", "runs", "returned", "left", "unlocked"}

Activation == [stage : Stages, task : Indices, currentMode : {"KERNEL", "USER"}]

(* The state of the scheduler is well formed.                              *)
SchedulerTypeOK ==
  /\ ProcessNodeTable \in Tables
  /\ counter \in [Indices -> 0 .. ByteSize - 1]
  /\ flags \in [Indices -> SUBSET {"INITIATE", "SHUTDOWN_RQ"}]
  /\ time_slice \in [Indices -> 0 .. WordSize - 1]
  /\ procIndex \in Indices \cup {0}
  /\ {proc_info, heap, procSuperBlock} \subseteq Indices \cup {Nobody}
  /\ lock \in {0, 1} /\ flagProcActive \in {0, 1}
  /\ mode \in {"KERNEL", "USER"}
  /\ service \in [0 .. 2 -> {"dummyFunction", "TIMER", "MAIN"}]
  /\ sreg_i \in {0, 1} /\ at \in {"loop", "cliRunShell"}
  /\ activations \in Seq(Activation)
  /\ Len(activations) <= MaxDepth

(* The mutex is what keeps a second task from being called while one runs  *)
(* with interrupts enabled (scheduler.c:216): it is held from the call of  *)
(* a task to the unlock, and by one activation at most.                    *)
OneTaskAtATime ==
  \A k \in DOMAIN activations :
    activations[k].stage # "unlocked" => k = Len(activations) /\ lock = 1

(* Whoever runs has the memory and the access mode that are its own        *)
(* (scheduler.c:228-243, 285-292), whatever interrupts it: a task its own  *)
(* heap, super block and privilege, and everybody else those of the kernel. *)
MemoryBelongsToRunner ==
  IF activations # <<>> /\ Top.stage \in {"called", "runs", "returned"}
  THEN Top.task \in Indices /\ heap = Top.task /\ procSuperBlock = Top.task
       /\ mode = Privilege(Top.task)
  ELSE heap = Nobody /\ procSuperBlock = Nobody /\ mode = "KERNEL"

(* The ticks of the timer are charged to the task that runs, and to no     *)
(* task while none does (scheduler.c:308-312).                             *)
TicksAreCharged ==
  IF activations # <<>> /\ Top.stage = "runs"
  THEN flagProcActive = 1 /\ proc_info = Top.task /\ procIndex = Top.task
  ELSE flagProcActive = 0

(* The shell, which uses the bus and the file system, is never interrupted *)
(* and never runs on top of a task (main.c:157-161).                       *)
ShellAlone == at = "cliRunShell" => sreg_i = 0 /\ activations = <<>> /\ lock = 0

Running(i) == activations # <<>> /\ Top.stage = "runs" /\ Top.task = i

AllIndices == UNION {0 .. Len(T) - 1 : T \in Tables}

AllReturn == \A i \in Indices : ListGetNode(i).returns

AllResident == \A i \in Indices : ListGetNode(i).type = "TSR"

(* If tasks return, every task is called again and again                   *)
(* (scheduler.c:219-273), as long as all are resident, but for the one     *)
(* priority that a counter of a byte cannot exceed.                        *)
EveryTaskIsCalled ==
  \A i \in AllIndices :
    []<>(i \in Indices /\ AllReturn /\ AllResident /\ ListGetNode(i).priority < ByteSize - 1
           => Running(i))

(* A task that runs on and on has been asked to shut down                  *)
(* (scheduler.c:315-318).                                                  *)
HangsAreNoticed ==
  []<>(activations = <<>> \/ Top.stage # "runs" \/ "SHUTDOWN_RQ" \in flags[Top.task])
=============================================================================
