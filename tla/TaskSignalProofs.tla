-------------------------- MODULE TaskSignalProofs --------------------------
(***************************************************************************)
(* init is never ended and the kernel never panics; signals reach their    *)
(* tasks, and dead children somebody who reaps them: for every size of the *)
(* task table and every set of wait queues.                                *)
(*                                                                         *)
(* The properties about signals and children are not inductive by          *)
(* themselves.  SignalInv adds that a recorded signal which has come to be *)
(* ignored belongs to a task on its way through the signal loop, and       *)
(* ChildInv what keeps a waiting parent reachable; both rest on the        *)
(* invariants proved before.                                               *)
(*                                                                         *)
(* The alarms that send SIGALRM by the clock are neither forgotten, late   *)
(* nor early: AlarmInv compares every alarm in ticks with the clock, with  *)
(* what was asked for and with the call in progress.                       *)
(***************************************************************************)
EXTENDS TaskProofs, Alarm

-----------------------------------------------------------------------------
(* init, and the panics.                                                   *)

\* A signal sent to any task leaves init's protection in place.
LEMMA SendKeepsInit ==
    ASSUME TypeRest, InitSafe, NEW t \in Slot, NEW s \in Sig \ {SIGALRM}, SignalSend(t, s)
    PROVE  /\ received'[init] \subseteq {SIGALRM, SIGCHLD, SIGCONT}
           /\ SIGALRM \in received'[init] <=> SIGALRM \in received[init]
           /\ pending[init] => pending'[init]
<1>1. init \in Slot /\ received \in [Slot -> SUBSET Sig] /\ pending \in [Slot -> BOOLEAN]
  BY QueueFacts DEF TypeRest
<1>2. received[init] \subseteq {SIGALRM, SIGCHLD, SIGCONT}
  BY DEF InitSafe
<1>3. CASE exited[t] \/ handler[t][s] = "IGN"
  BY <1>2, <1>3 DEF SignalSend
<1>4. CASE ~(exited[t] \/ handler[t][s] = "IGN")
  <2>1. /\ received' = [received EXCEPT ![t] = @ \cup {s}]
        /\ pending' = [pending EXCEPT ![t] = TRUE]
    BY <1>4 DEF SignalSend
  <2>2. t = init => s \in {SIGCHLD, SIGCONT}
    BY <1>4 DEF InitSafe, Sig
  <2>3. QED
    BY <1>1, <1>2, <2>1, <2>2
<1>5. QED
  BY <1>3, <1>4

\* intr_leave and signal_handle.
LEMMA ReturnSafe == ASSUME TInv, InitSafe, Return PROVE InitSafe' /\ (panic' => panic)
<1> USE DEF At
<1>1. mode # "pick" /\ TypeRest /\ TypeOK /\ CoreInv /\ ModeInv /\ init \in Slot
  BY TypeParts, QueueFacts DEF TInv, Return, LeaveSignal, LeaveStop, StopOver, LeaveSched,
     LeaveUser, LeaveExec, ScanDone, ScanSignal
<1>2. curr \in Slot /\ curr # NoTask
  BY <1>1, Running
<1>3. CASE LeaveSignal
  BY <1>1, <1>2, <1>3 DEF LeaveSignal, InitSafe, Alive, TypeRest, tabvars, SIGALRM
<1>4. CASE LeaveStop
  <2>1. /\ curr' \in {curr, NoTask} /\ (panic' => panic)
        /\ mode' = IF curr' = NoTask THEN "pick" ELSE "stop"
        /\ \A t \in Slot : cont'[t] \in {cont[t], "stop"}
    BY <1>1, <1>2, <1>4, TaskSuspendInv DEF LeaveStop, SleepPlace, SleepType, Cont
  <2>2. QED
    BY <1>1, <1>4, <2>1, QueueFacts DEF LeaveStop, InitSafe, Alive, sigvars, loopvars
<1>5. CASE StopOver
  BY <1>5 DEF StopOver, InitSafe, Alive, tabvars, sigvars, loopvars
<1>6. CASE LeaveSched
  <2>1. /\ curr' \in {curr, NoTask} /\ (panic' => panic)
        /\ mode' = IF curr' = NoTask THEN "pick" ELSE "leave"
        /\ \A t \in Slot : cont'[t] \in {cont[t], "leave"}
    BY <1>1, <1>2, <1>6, SchedRunnableInv DEF LeaveSched, Cont
  <2>2. QED
    BY <1>1, <1>6, <2>1, QueueFacts DEF LeaveSched, InitSafe, Alive, sigvars, loopvars
<1>7. CASE LeaveUser
  BY <1>7 DEF LeaveUser, InitSafe, Alive, tabvars, sigvars, loopvars
<1>8. ASSUME NEW ok \in BOOLEAN, LeaveExec(ok) PROVE InitSafe' /\ (panic' => panic)
  <2>1. curr # init
    BY <1>8 DEF LeaveExec, InitSafe
  <2>2. handler'[init] = handler[init]
    BY <1>1, <1>8, <2>1 DEF LeaveExec, DoExec, TypeRest
  <2>3. received'[init] = received[init]
    BY <1>1, <1>8, <2>1 DEF LeaveExec, TypeRest
  <2>4. /\ pending'[init] = pending[init] /\ armed'[init] = armed[init]
        /\ exec'[init] = exec[init]
    BY <1>1, <1>8, <2>1 DEF LeaveExec, TypeRest
  <2>5. QED
    BY <1>8, <2>1, <2>2, <2>3, <2>4 DEF LeaveExec, InitSafe, Alive
<1>9. CASE ScanDone
  <2>1. CASE pending[curr]
    BY <1>1, <1>2, <1>9, <2>1 DEF ScanDone, InitSafe, Alive, TypeRest, tabvars, SIGALRM
  <2>2. CASE ~pending[curr]
    <3>1. curr = init => SIGALRM \notin received[init]
      BY <1>9, <2>2 DEF ScanDone, DueSigs, InitSafe, SIGALRM
    <3>2. QED
      BY <1>1, <1>2, <1>9, <2>2, <3>1 DEF ScanDone, InitSafe, Alive, tabvars
  <2>3. QED
    BY <2>1, <2>2
<1>10. CASE ScanSignal
  <2>1. PICK s \in DueSigs :
          /\ \A r \in DueSigs : s <= r
          /\ received' = [received EXCEPT ![curr] = @ \ {s}]
          /\ handler' = IF handler[curr][s] = "FN"
                        THEN [handler EXCEPT ![curr][s] = "DFL"] ELSE handler
          /\ IF handler[curr][s] = "DFL" /\ s \notin HarmlessSig
             THEN mode' = "exit" /\ sigpos' = 0
             ELSE UNCHANGED mode /\ sigpos' = s + 1
    BY <1>10 DEF ScanSignal
  <2>2. UNCHANGED <<used, exited, exec, armed, cont, pending, sigret, curr, panic>>
    BY <1>10 DEF ScanSignal, tabvars
  <2>3. CASE curr # init
    <3>1. received'[init] = received[init] /\ handler'[init] = handler[init]
      BY <1>1, <2>1, <2>3 DEF TypeRest
    <3>2. QED
      BY <2>2, <2>3, <3>1 DEF InitSafe, Alive
  <2>4. CASE curr = init
    <3>1. s \in received[init] /\ s \in {SIGALRM, SIGCHLD, SIGCONT} /\ mode = "scan"
      BY <1>10, <2>1, <2>4 DEF DueSigs, InitSafe, ScanSignal
    <3>2. s = SIGALRM => handler[init][s] = "FN" /\ ~armed[init]
      BY <3>1 DEF InitSafe
    <3>3. mode' = "scan" /\ sigpos' = s + 1
      BY <2>1, <2>4, <3>1, <3>2 DEF HarmlessSig
    <3>4. received'[init] = received[init] \ {s}
      BY <1>1, <2>1, <2>4 DEF TypeRest
    <3>5. \A r \in Sig : r # s => handler'[init][r] = handler[init][r]
      BY <1>1, <2>1, <2>4 DEF TypeRest
    <3>6. \A r \in {SIGKILL, SIGSTOP, SIGEXEC, SIGOOM} : handler'[init][r] = "IGN"
      BY <3>1, <3>5 DEF InitSafe, Sig, SIGKILL, SIGSTOP, SIGCONT, SIGALRM, SIGCHLD, SIGEXEC, SIGOOM
    <3>7. armed'[init] \/ SIGALRM \in received'[init] => handler'[init][SIGALRM] = "FN"
      BY <2>2, <3>2, <3>4, <3>5 DEF InitSafe, Sig
    <3>8. SIGALRM \in received'[init] => pending'[init] \/ sigpos' <= SIGALRM
      <4>1. SUFFICES ASSUME SIGALRM \in received'[init], ~pending'[init]
                     PROVE  sigpos' <= SIGALRM
        OBVIOUS
      <4>2. SIGALRM \in DueSigs /\ s # SIGALRM
        BY <2>2, <2>4, <3>4, <4>1 DEF InitSafe, DueSigs
      <4>3. s <= SIGALRM
        BY <2>1, <4>2
      <4>4. s \in {14, 18, 12} /\ SIGALRM = 14
        BY <3>1 DEF SIGALRM, SIGCHLD, SIGCONT
      <4>5. QED
        BY <3>3, <4>2, <4>3, <4>4
    <3>9. QED
      BY <2>2, <2>4, <3>1, <3>3, <3>4, <3>6, <3>7, <3>8 DEF InitSafe, Alive
  <2>5. QED
    BY <2>3, <2>4
<1>11. QED
  BY <1>3, <1>4, <1>5, <1>6, <1>7, <1>8, <1>9, <1>10 DEF Return, Outcome

\* task_exit: only tasks other than init get there.
LEMMA ExitSafe ==
    ASSUME TInv, InitSafe, ExitChildren \/ ExitNotify
    PROVE  InitSafe' /\ (panic' => panic)
<1> USE DEF At
<1>1. mode # "pick" /\ TypeRest /\ TypeOK /\ CoreInv /\ ModeInv /\ init \in Slot
  BY TypeParts, QueueFacts DEF TInv, ExitChildren, ExitNotify
<1>2. curr \in Slot /\ curr # NoTask /\ SIGCHLD \in Sig \ {SIGALRM}
  BY <1>1, Running DEF Sig, SIGCHLD, SIGALRM
<1>3. curr # init
  BY DEF InitSafe, ExitChildren, ExitNotify
<1>4. CASE ExitChildren
  <2>1. mode' = "notify" /\ UNCHANGED <<used, exited, exec, armed, cont, handler, sigpos, sigret, curr>>
    BY <1>3, <1>4 DEF ExitChildren, loopvars
  <2>2. CASE Zombies(curr) # {}
    <3>1. SignalSend(init, SIGCHLD)
      BY <1>3, <1>4, <2>2 DEF ExitChildren
    <3>2. panic' => panic
      BY <1>1, <1>2, <3>1, SignalSendInv
    <3>3. /\ received'[init] \subseteq {SIGALRM, SIGCHLD, SIGCONT}
          /\ SIGALRM \in received'[init] <=> SIGALRM \in received[init]
          /\ pending[init] => pending'[init]
      BY <1>1, <1>2, <3>1, SendKeepsInit
    <3>4. QED
      BY <1>3, <2>1, <3>2, <3>3 DEF InitSafe, Alive
  <2>3. CASE Zombies(curr) = {}
    <3>1. UNCHANGED <<received, pending, panic>>
      BY <1>3, <1>4, <2>3 DEF ExitChildren
    <3>2. QED
      BY <1>3, <2>1, <3>1 DEF InitSafe, Alive
  <2>4. QED
    BY <2>2, <2>3
<1>5. CASE ExitNotify
  <2>1. Heir \in Slot
    BY <1>1, <1>2 DEF Heir, TypeRest
  <2>2. SignalSend(Heir, SIGCHLD)
    BY <1>5 DEF ExitNotify
  <2>3. panic' => panic
    BY <1>1, <1>2, <2>1, <2>2, SignalSendInv
  <2>4. /\ received'[init] \subseteq {SIGALRM, SIGCHLD, SIGCONT}
        /\ SIGALRM \in received'[init] <=> SIGALRM \in received[init]
        /\ pending[init] => pending'[init]
    BY <1>1, <1>2, <2>1, <2>2, SendKeepsInit
  <2>5. exited'[init] = exited[init]
    BY <1>1, <1>3, <1>5 DEF ExitNotify, TypeOK
  <2>6. QED
    BY <1>1, <1>3, <1>5, <2>3, <2>4, <2>5, QueueFacts
    DEF ExitNotify, InitSafe, Alive, loopvars
<1>6. QED
  BY <1>4, <1>5

\* The dispatcher.
LEMMA PickSafe == ASSUME TInv, InitSafe, Pick PROVE InitSafe' /\ (panic' => panic)
<1> USE DEF At
<1>1. mode = "pick" /\ TypeRest /\ curr = NoTask /\ init \in Slot /\ init # NoTask
  BY TypeParts, QueueFacts DEF TInv, Pick, ModeInv
<1>2. panic' => panic
  BY PickInv
<1>3. UNCHANGED <<used, exited, exec, armed, handler, received, pending, sigpos, sigret>>
  BY DEF Pick, sigvars, loopvars
<1>4. CASE NonEmpty = {}
  BY <1>1, <1>2, <1>3, <1>4 DEF Pick, InitSafe, Alive
<1>5. CASE NonEmpty # {}
  <2>1. PICK p \in NonEmpty : Dispatch(p)
    BY <1>5 DEF Pick
  <2> DEFINE t == Head(q[p])
  <2>2. \/ UNCHANGED <<curr, mode, cont>>
        \/ curr' = t /\ mode' = cont[t] /\ cont' = [cont EXCEPT ![t] = "leave"]
    BY <2>1 DEF Dispatch
  <2> HIDE DEF t
  <2>3. cont'[init] \in {cont[init], "leave"}
    BY <1>1, <2>2 DEF TypeRest
  <2>4. curr' = init => mode' = cont[init]
    BY <1>1, <2>2
  <2>5. cont[init] \in {"leave", "stop", "block"}
    BY <1>1 DEF InitSafe, TypeRest, Cont
  <2>6. QED
    BY <1>1, <1>2, <1>3, <2>3, <2>4, <2>5 DEF InitSafe, Alive
<1>6. QED
  BY <1>4, <1>5

\* The first steps of a new task, which is not init.
LEMMA EntrySafe ==
    ASSUME TInv, InitSafe, AfterFork \/ AfterForkSched \/ AfterForkUser
                           \/ \E ok \in BOOLEAN : NewTaskEntry(ok)
    PROVE  InitSafe' /\ (panic' => panic)
<1> USE DEF At
<1>1. mode # "pick" /\ TypeRest /\ TypeOK /\ CoreInv /\ ModeInv /\ init \in Slot
  BY TypeParts, QueueFacts DEF TInv, AfterFork, AfterForkSched, AfterForkUser, NewTaskEntry
<1>2. curr \in Slot /\ curr # NoTask /\ init # NoTask /\ curr # init
  BY <1>1, Running, QueueFacts
  DEF InitSafe, AfterFork, AfterForkSched, AfterForkUser, NewTaskEntry
<1>3. CASE AfterFork
  <2>1. pending'[init] = pending[init]
    BY <1>1, <1>2, <1>3 DEF AfterFork, TypeRest
  <2>2. QED
    BY <1>2, <1>3, <2>1 DEF AfterFork, InitSafe, Alive, tabvars
<1>4. CASE AfterForkSched
  <2>1. /\ curr' \in {curr, NoTask} /\ (panic' => panic)
        /\ \A t \in Slot \ {curr} : cont'[t] = cont[t]
    BY <1>1, <1>2, <1>4, SchedRunnableInv DEF AfterForkSched, Cont
  <2>2. QED
    BY <1>1, <1>2, <1>4, <2>1 DEF AfterForkSched, InitSafe, Alive, sigvars, loopvars
<1>5. CASE AfterForkUser
  BY <1>2, <1>5 DEF AfterForkUser, InitSafe, Alive, tabvars, sigvars, loopvars
<1>6. ASSUME NEW ok \in BOOLEAN, NewTaskEntry(ok) PROVE InitSafe' /\ (panic' => panic)
  <2>1. handler'[init] = handler[init]
    BY <1>1, <1>2, <1>6 DEF NewTaskEntry, DoExec, TypeRest
  <2>2. exec'[init] = exec[init] /\ armed'[init] = armed[init]
    BY <1>1, <1>2, <1>6 DEF NewTaskEntry, TypeRest
  <2>3. QED
    BY <1>2, <1>6, <2>1, <2>2 DEF NewTaskEntry, InitSafe, Alive, loopvars
<1>7. QED
  BY <1>3, <1>4, <1>5, <1>6

\* The loops that wake, signal and wait.
LEMMA LoopSafe ==
    ASSUME TInv, InitSafe, KillNext \/ BlockAgain \/ BlockOver \/ WakeNext
    PROVE  InitSafe' /\ (panic' => panic)
<1> USE DEF At
<1>1. mode # "pick" /\ TypeRest /\ TypeOK /\ CoreInv /\ ModeInv /\ init \in Slot
  BY TypeParts, QueueFacts DEF TInv, KillNext, BlockAgain, BlockOver, WakeNext
<1>2. curr \in Slot /\ curr # NoTask /\ init # NoTask /\ (panic' => panic)
  BY <1>1, Running, QueueFacts, LoopInv
<1>3. CASE KillNext
  <2>1. PICK t \in targets :
          /\ SignalSend(t, killsig)
          /\ mode' \in {"leave", mode}
    BY <1>3 DEF KillNext
  <2>2. t \in Slot /\ killsig \in Sig \ {SIGALRM}
    BY <1>1 DEF TypeRest, ModeInv
  <2>3. /\ received'[init] \subseteq {SIGALRM, SIGCHLD, SIGCONT}
        /\ SIGALRM \in received'[init] <=> SIGALRM \in received[init]
        /\ pending[init] => pending'[init]
    BY <1>1, <2>1, <2>2, SendKeepsInit
  <2>4. QED
    BY <1>2, <1>3, <2>1, <2>3 DEF KillNext, InitSafe, Alive, tabvars
<1>4. CASE BlockAgain
  <2>1. bq[curr] \in SleepPlace /\ WaitType(bq[curr]) \in SleepType
    BY <1>1, <1>2 DEF TypeRest, SleepPlace, SleepType, WaitType
  <2>2. /\ curr' \in {curr, NoTask}
        /\ mode' = IF curr' = NoTask THEN "pick" ELSE "leave"
        /\ \A t \in Slot : cont'[t] \in {cont[t], "block"}
    BY <1>1, <1>2, <1>4, <2>1, TaskSuspendInv DEF BlockAgain, Cont
  <2>3. QED
    BY <1>1, <1>2, <1>4, <2>2 DEF BlockAgain, InitSafe, Alive, sigvars, loopvars
<1>5. CASE BlockOver
  BY <1>5 DEF BlockOver, InitSafe, Alive, sigvars, loopvars
<1>6. CASE WakeNext
  <2>1. mode' \in {"leave", mode}
    BY <1>6 DEF WakeNext
  <2>2. QED
    BY <1>2, <1>6, <2>1 DEF WakeNext, InitSafe, Alive, tabvars, sigvars
<1>7. QED
  BY <1>3, <1>4, <1>5, <1>6

\* The system calls.
LEMMA SyscallSafe == ASSUME TInv, InitSafe, Syscall PROVE InitSafe'
<1> USE DEF At
<1>1. /\ mode = "user" /\ TypeRest /\ TypeOK /\ CoreInv /\ ModeInv
      /\ init \in Slot /\ init # NoTask
  BY TypeParts, QueueFacts DEF TInv, Syscall, SysFork, SysNewtask, SysExit, SysPause, SysExec,
     SysWaitSleep, SysWaitReap, SysKill, SysSignal, SysNice, SysAlarm, SysBlock, SysWake
<1>2. curr \in Slot /\ curr # NoTask /\ used[init] /\ ~exited[init]
  BY <1>1, Running DEF InitSafe, Alive
<1>3. SIGALRM \in received[init] => curr # init /\ pending[init]
  BY <1>1 DEF InitSafe
<1>4. ASSUME NEW t \in Slot, NEW ok \in BOOLEAN, SysFork(t, ok) PROVE InitSafe'
  <2>1. t # init
    BY <1>2, <1>4 DEF SysFork, FreeSlot
  <2>2. handler'[init] = handler[init] /\ received'[init] = received[init]
    BY <1>1, <1>4, <2>1 DEF SysFork, TypeRest
  <2>3. /\ used'[init] = used[init] /\ cont'[init] = cont[init]
        /\ pending'[init] = pending[init]
    BY <1>1, <1>4, <2>1 DEF SysFork, TypeRest, TypeOK
  <2>4. UNCHANGED <<exited, exec, armed, sigpos, sigret, curr>> /\ mode' = "leave"
    BY <1>4 DEF SysFork, loopvars
  <2>5. QED
    BY <1>3, <2>2, <2>3, <2>4 DEF InitSafe, Alive
<1>5. ASSUME NEW t \in Slot, SysNewtask(t) PROVE InitSafe'
  <2>1. t # init
    BY <1>2, <1>5 DEF SysNewtask, FreeSlot
  <2>2. handler'[init] = handler[init] /\ received'[init] = received[init]
    BY <1>1, <1>5, <2>1 DEF SysNewtask, TypeRest
  <2>3. /\ used'[init] = used[init] /\ cont'[init] = cont[init]
        /\ exec'[init] = exec[init]
    BY <1>1, <1>5, <2>1 DEF SysNewtask, TypeRest, TypeOK
  <2>4. UNCHANGED <<exited, armed, pending, sigpos, sigret, curr>> /\ mode' = "leave"
    BY <1>5 DEF SysNewtask, loopvars
  <2>5. QED
    BY <1>3, <2>2, <2>3, <2>4 DEF InitSafe, Alive
<1>6. CASE SysExit
  BY <1>3, <1>6 DEF SysExit, InitSafe, Alive, tabvars, sigvars, loopvars
<1>7. CASE SysPause
  <2>1. /\ curr' \in {curr, NoTask}
        /\ mode' = IF curr' = NoTask THEN "pick" ELSE "leave"
        /\ \A t \in Slot : cont'[t] \in {cont[t], "leave"}
    BY <1>1, <1>2, <1>7, TaskSuspendInv DEF SysPause, SleepPlace, SleepType, Cont
  <2>2. QED
    BY <1>1, <1>3, <1>7, <2>1 DEF SysPause, InitSafe, Alive, sigvars, loopvars
<1>8. CASE SysExec
  <2>1. exec'[init] = exec[init]
    BY <1>1, <1>8 DEF SysExec, TypeRest
  <2>2. QED
    BY <1>3, <1>8, <2>1 DEF SysExec, InitSafe, Alive, sigvars, loopvars
<1>9. ASSUME NEW w \in Slot \cup {NoTask}, SysWaitSleep(w) PROVE InitSafe'
  <2>1. /\ curr' \in {curr, NoTask}
        /\ mode' = IF curr' = NoTask THEN "pick" ELSE "leave"
        /\ \A t \in Slot : cont'[t] \in {cont[t], "leave"}
    <3>1. XWaitQ \in SleepPlace /\ WAIT_INTR \in SleepType /\ "leave" \in Cont
      BY QueueFacts DEF SleepPlace, SleepType, Cont
    <3>2. QED
      BY <1>1, <1>2, <1>9, <3>1, TaskSuspendInv DEF SysWaitSleep
  <2>2. QED
    BY <1>1, <1>3, <1>9, <2>1 DEF SysWaitSleep, InitSafe, Alive, sigvars, loopvars
<1>10. ASSUME NEW w, NEW z \in Slot, SysWaitReap(w, z) PROVE InitSafe'
  <2>1. z # init
    BY <1>2, <1>10 DEF SysWaitReap, Zombies
  <2>2. handler'[init] = handler[init] /\ received'[init] = received[init]
    BY <1>1, <1>10, <2>1 DEF SysWaitReap, TypeRest
  <2>3. /\ used'[init] = used[init] /\ exited'[init] = exited[init]
        /\ exec'[init] = exec[init] /\ armed'[init] = armed[init]
        /\ cont'[init] = cont[init] /\ pending'[init] = pending[init]
    BY <1>1, <1>10, <2>1 DEF SysWaitReap, TypeRest, TypeOK
  <2>4. UNCHANGED <<sigpos, sigret, curr>> /\ mode' = "leave"
    BY <1>10 DEF SysWaitReap, loopvars
  <2>5. QED
    BY <1>3, <2>2, <2>3, <2>4 DEF InitSafe, Alive
<1>11. ASSUME NEW ts, NEW s, SysKill(ts, s) PROVE InitSafe'
  BY <1>3, <1>11 DEF SysKill, InitSafe, Alive, tabvars, sigvars
<1>12. ASSUME NEW s \in Sig, NEW d \in Disposition, SysSignal(s, d) PROVE InitSafe'
  <2>1. /\ UNCHANGED <<used, exited, exec, armed, cont, sigpos, sigret, curr>>
        /\ mode' = "leave"
    BY <1>12 DEF SysSignal, loopvars
  <2>2. \A r \in Sig : handler'[init][r] = handler[init][r] \/ (r = SIGALRM /\ handler'[init][r] = "FN")
    <3>1. handler \in [Slot -> [Sig -> Disposition]]
      BY <1>1 DEF TypeRest
    <3>2. handler' = [handler EXCEPT ![curr][s] = IF s = SIGCONT /\ d = "IGN" THEN "DFL" ELSE d]
      BY <1>12 DEF SysSignal
    <3>3. curr = init => s = SIGALRM /\ d = "FN"
      BY <1>12 DEF SysSignal
    <3>4. QED
      BY <1>1, <1>2, <3>1, <3>2, <3>3
  <2>3. /\ received'[init] \subseteq {SIGALRM, SIGCHLD, SIGCONT}
        /\ SIGALRM \in received'[init] <=> SIGALRM \in received[init]
        /\ pending[init] => pending'[init]
    <3>1. CASE SignalSend(init, SIGCHLD)
      <4>1. SIGCHLD \in Sig \ {SIGALRM}
        BY DEF Sig, SIGCHLD, SIGALRM
      <4>2. QED
        BY <1>1, <3>1, <4>1, SendKeepsInit
    <3>2. CASE UNCHANGED <<received, pending>>
      BY <3>2 DEF InitSafe
    <3>3. CASE s = SIGCHLD /\ received' = [received EXCEPT ![curr] = @ \cup {SIGCHLD}]
               /\ pending' = [pending EXCEPT ![curr] = TRUE]
      <4>1. SIGCHLD # SIGALRM
        BY DEF SIGCHLD, SIGALRM
      <4>2. curr # init
        BY <1>12, <3>3, <4>1 DEF SysSignal
      <4>3. received'[init] = received[init] /\ pending'[init] = pending[init]
        BY <1>1, <3>3, <4>2 DEF TypeRest
      <4>4. QED
        BY <4>3 DEF InitSafe
    <3>4. QED
      BY <1>12, <3>1, <3>2, <3>3 DEF SysSignal
  <2>4. \A r \in {SIGKILL, SIGSTOP, SIGEXEC, SIGOOM} : handler'[init][r] = "IGN"
    <3>1. \A r \in {SIGKILL, SIGSTOP, SIGEXEC, SIGOOM} : r # SIGALRM /\ r \in Sig
      BY DEF Sig, SIGKILL, SIGSTOP, SIGALRM, SIGEXEC, SIGOOM
    <3>2. QED
      BY <2>2, <3>1 DEF InitSafe
  <2>5. armed'[init] \/ SIGALRM \in received'[init] => handler'[init][SIGALRM] = "FN"
    BY <2>1, <2>2, <2>3 DEF InitSafe, Sig
  <2>6. QED
    BY <1>3, <2>1, <2>3, <2>4, <2>5 DEF InitSafe, Alive
<1>13. ASSUME NEW inc, SysNice(inc) PROVE InitSafe'
  BY <1>3, <1>13 DEF SysNice, InitSafe, Alive, sigvars, loopvars
<1>14. ASSUME NEW on \in BOOLEAN, SysAlarm(on) PROVE InitSafe'
  <2>1. curr # init => armed'[init] = armed[init]
    BY <1>1, <1>14 DEF SysAlarm, TypeRest
  <2>2. UNCHANGED <<used, exited, exec, cont, handler, received, pending, sigpos, sigret, curr>>
        /\ mode' = "leave" /\ (curr = init => handler[init][SIGALRM] = "FN")
    BY <1>14 DEF SysAlarm, sigvars, loopvars
  <2>3. QED
    BY <1>3, <2>1, <2>2 DEF InitSafe, Alive
<1>15. ASSUME NEW c \in WaitQueue, SysBlock(c) PROVE InitSafe'
  <2>1. /\ curr' \in {curr, NoTask}
        /\ mode' = IF curr' = NoTask THEN "pick" ELSE "leave"
        /\ \A t \in Slot : cont'[t] \in {cont[t], "block"}
    <3>1. c \in SleepPlace /\ WaitType(c) \in SleepType /\ "block" \in Cont
      BY DEF SleepPlace, SleepType, Cont, WaitType
    <3>2. QED
      BY <1>1, <1>2, <1>15, <3>1, TaskSuspendInv DEF SysBlock
  <2>2. QED
    BY <1>1, <1>3, <1>15, <2>1 DEF SysBlock, InitSafe, Alive, sigvars, loopvars
<1>16. ASSUME NEW c, SysWake(c) PROVE InitSafe'
  BY <1>3, <1>16 DEF SysWake, InitSafe, Alive, tabvars, sigvars
<1>17. Outcome("fork") \subseteq BOOLEAN /\ TrapSig \subseteq Sig
  BY TaskAssumption DEF Outcome
<1>18. QED
  BY <1>4, <1>5, <1>6, <1>7, <1>8, <1>9, <1>10, <1>11, <1>12, <1>13, <1>14, <1>15, <1>16, <1>17
  DEF Syscall

\* Interrupt handlers.
LEMMA InterruptSafe == ASSUME TInv, InitSafe, Interrupt PROVE InitSafe'
<1>1. TypeRest /\ init \in Slot
  BY TypeParts, QueueFacts DEF TInv
<1>2. /\ AfterIntr \in {mode, "leave"} /\ AfterIntr # "user"
       /\ (mode = "scan" => AfterIntr = "scan")
  BY DEF AfterIntr
<1>3. CASE ClockTick
  BY <1>2, <1>3 DEF ClockTick, InitSafe, Alive, tabvars, sigvars, loopvars
<1>4. ASSUME NEW t \in Slot, NEW again \in BOOLEAN, ClockAlarm(t, again) PROVE InitSafe'
  <2>1. /\ UNCHANGED <<used, exited, exec, cont, handler, sigpos, sigret, curr>>
        /\ mode' = AfterIntr
        /\ armed' = [armed EXCEPT ![t] = again] /\ armed[t] /\ (t = init => ~again)
        /\ SignalSend(t, SIGALRM)
    BY <1>4 DEF ClockAlarm, loopvars
  <2>2. CASE t # init
    <3>1. received'[init] = received[init] /\ pending'[init] = pending[init]
      BY <1>1, <2>1, <2>2 DEF SignalSend, TypeRest
    <3>2. armed'[init] = armed[init]
      BY <1>1, <2>1, <2>2 DEF TypeRest
    <3>3. QED
      BY <1>2, <2>1, <3>1, <3>2 DEF InitSafe, Alive
  <2>3. CASE t = init
    <3>1. handler[init][SIGALRM] = "FN" /\ ~exited[init]
      BY <2>1, <2>3 DEF InitSafe, Alive
    <3>2. received'[init] = received[init] \cup {SIGALRM} /\ pending'[init] = TRUE
      BY <1>1, <2>1, <2>3, <3>1 DEF SignalSend, TypeRest
    <3>3. armed'[init] = FALSE
      BY <1>1, <2>1, <2>3 DEF TypeRest
    <3>4. QED
      BY <1>2, <2>1, <3>1, <3>2, <3>3 DEF InitSafe, Alive
  <2>4. QED
    BY <2>2, <2>3
<1>5. ASSUME NEW c, IntrBegin(c) PROVE InitSafe'
  BY <1>5 DEF IntrBegin, InitSafe, Alive, tabvars, sigvars, loopvars
<1>6. CASE IntrWake
  <2>1. mode' \in {AfterIntr, mode}
    BY <1>6 DEF IntrWake
  <2>2. QED
    BY <1>2, <1>6, <2>1 DEF IntrWake, InitSafe, Alive, tabvars, sigvars, loopvars
<1>7. QED
  BY <1>3, <1>4, <1>5, <1>6 DEF Interrupt

-----------------------------------------------------------------------------
SafeInv == TInv /\ InitSafe /\ NoPanic

(* The state after boot satisfies the invariant about init. *)
LEMMA InitSafeInv == ASSUME Init PROVE SafeInv
<1>1. TInv /\ init \in Slot
  BY InitTInv, QueueFacts
<1>2. InitSafe
  <2>1. \A s \in Sig : handler[init][s] = IF s \in {SIGCHLD, SIGCONT} THEN "DFL"
                                          ELSE IF s = SIGALRM THEN "FN" ELSE "IGN"
    BY <1>1 DEF Init
  <2>2. \A s \in {SIGKILL, SIGSTOP, SIGEXEC, SIGOOM} :
            s \in Sig /\ s \notin {SIGCHLD, SIGCONT, SIGALRM}
    BY DEF Sig, SIGKILL, SIGSTOP, SIGCONT, SIGALRM, SIGCHLD, SIGEXEC, SIGOOM
  <2>3. QED
    BY <1>1, <2>1, <2>2 DEF Init, InitSafe, Alive
<1>3. QED
  BY <1>1, <1>2 DEF SafeInv, NoPanic, Init

(* Every step keeps the invariant about init. *)
LEMMA NextSafeInv == ASSUME SafeInv, [Next]_vars PROVE SafeInv'
<1>1. TInv /\ InitSafe /\ NoPanic /\ TInv'
  BY NextTInv DEF SafeInv
<1>2. CASE Kernel
  <2>1. Outcome("newtask") \subseteq BOOLEAN
    BY DEF Outcome
  <2>2. InitSafe' /\ (panic' => panic)
    BY <1>1, <1>2, <2>1, ReturnSafe, ExitSafe, PickSafe, EntrySafe, LoopSafe DEF Kernel
  <2>3. QED
    BY <1>1, <2>2 DEF SafeInv, NoPanic
<1>3. CASE Syscall
  <2>1. Outcome("fork") \subseteq BOOLEAN /\ TrapSig \subseteq Sig
    BY TaskAssumption DEF Outcome
  <2>2. panic' => panic
    BY <1>1, <1>3, <2>1, CreateInv, SleepInv, CallInv, ReapInv, SysSignalInv DEF Syscall
  <2>3. QED
    BY <1>1, <1>3, <2>2, SyscallSafe DEF SafeInv, NoPanic
<1>4. CASE Interrupt
  BY <1>1, <1>4, InterruptInv, InterruptSafe DEF SafeInv, NoPanic
<1>5. CASE UNCHANGED vars
  <2>1. InitSafe'
    BY <1>1, <1>5 DEF InitSafe, Alive, vars, tabvars, sigvars, loopvars
  <2>2. QED
    BY <1>1, <1>5, <2>1 DEF SafeInv, NoPanic, vars
<1>6. QED
  BY <1>2, <1>3, <1>4, <1>5 DEF Next

(* The invariant about init always holds. *)
LEMMA SafeInvAlways == Spec => []SafeInv
BY InitSafeInv, NextSafeInv, PTL DEF Spec

\* init is never ended by a signal, by its own timer or by a failing exec or fork:
\* signal_handle, signal_send_k and clock_intr keep its protection in place.
THEOREM InitNeverEnds == Spec => []InitSafe
<1>1. SafeInv => InitSafe
  BY DEF SafeInv
<1>2. QED
  BY <1>1, SafeInvAlways, PTL

\* No call of panic() in task.c and sched.c is reached.
THEOREM NeverPanics == Spec => []NoPanic
<1>1. SafeInv => NoPanic
  BY DEF SafeInv
<1>2. QED
  BY <1>1, SafeInvAlways, PTL
-----------------------------------------------------------------------------
(* Signals and children.                                                   *)

\* A recorded signal that is ignored is one that its task ignored meanwhile, in
\* sys_signal, and the loop of signal_handle is going to drop it.
IgnoredGone ==
    \A t \in Slot : Alive(t) => \A s \in received[t] : handler[t][s] = "IGN" =>
        /\ t = curr
        /\ (mode = "leave" /\ pending[t]) \/ mode \in {"scan", "exit", "notify"}

SignalInv == NoSleepOnSignal /\ SignalsNoticed /\ IgnoredGone

-----------------------------------------------------------------------------
(* What the operators that the actions share do to a task.                 *)

\* task_resume makes one task runnable.
LEMMA ResumeShape ==
    ASSUME TInv, NEW t \in Slot, TaskResume(t)
    PROVE  /\ paused' = [paused EXCEPT ![t] = 0]
           /\ \A u \in Slot \ {t} : queue'[u] = queue[u]
           /\ queue'[t] = XWaitQ => queue[t] = XWaitQ /\ paused[t] = 0
<1>1. /\ paused \in [Slot -> {0, WAIT_NOINTR, WAIT_INTR}] /\ queue \in [Slot -> Queue \cup {NoQueue}]
      /\ prio[t] \in ReadyQueue
  BY DEF TInv, TypeOK
<1>2. XWaitQ \notin ReadyQueue /\ XWaitQ # NoQueue
  BY TaskAssumption DEF ReadyQueue, NoQueue
<1>3. CASE paused[t] # 0
  BY <1>1, <1>2, <1>3 DEF TaskResume
<1>4. CASE paused[t] = 0
  BY <1>1, <1>4 DEF TaskResume, runvars
<1>5. QED
  BY <1>3, <1>4

\* signal_send_k: the signal is recorded, and an interruptible sleep is over.
LEMMA SendShape ==
    ASSUME TInv, NEW t \in Slot, NEW s \in Sig, SignalSend(t, s)
    PROVE  /\ \A u \in Slot \ {t} :
                /\ paused'[u] = paused[u] /\ queue'[u] = queue[u]
                /\ received'[u] = received[u] /\ pending'[u] = pending[u] /\ stopped'[u] = stopped[u]
           /\ IF exited[t] \/ handler[t][s] = "IGN"
              THEN /\ paused' = paused /\ queue' = queue
                   /\ received' = received /\ pending' = pending /\ stopped' = stopped
              ELSE /\ received'[t] = received[t] \cup {s} /\ pending'[t] /\ paused'[t] # WAIT_INTR
                   /\ queue'[t] = XWaitQ => queue[t] = XWaitQ /\ paused[t] # WAIT_INTR
<1>1. /\ paused \in [Slot -> {0, WAIT_NOINTR, WAIT_INTR}] /\ queue \in [Slot -> Queue \cup {NoQueue}]
      /\ received \in [Slot -> SUBSET Sig] /\ pending \in [Slot -> BOOLEAN]
      /\ stopped \in [Slot -> BOOLEAN]
  BY DEF TInv, TypeOK
<1>2. CASE exited[t] \/ handler[t][s] = "IGN"
  BY <1>2 DEF SignalSend, runvars
<1>3. CASE ~(exited[t] \/ handler[t][s] = "IGN")
  <2>1. /\ stopped' = [stopped EXCEPT ![t] = (@ /\ s \notin {SIGCONT, SIGKILL}) \/ s = SIGSTOP]
        /\ received' = [received EXCEPT ![t] = @ \cup {s}]
        /\ pending' = [pending EXCEPT ![t] = TRUE]
    BY <1>3 DEF SignalSend
  <2>2. /\ received'[t] = received[t] \cup {s} /\ pending'[t]
        /\ \A u \in Slot \ {t} : /\ received'[u] = received[u] /\ pending'[u] = pending[u]
                                 /\ stopped'[u] = stopped[u]
    BY <1>1, <2>1
  <2>3. /\ \A u \in Slot \ {t} : paused'[u] = paused[u] /\ queue'[u] = queue[u]
        /\ paused'[t] # WAIT_INTR
        /\ queue'[t] = XWaitQ => queue[t] = XWaitQ /\ paused[t] # WAIT_INTR
    <3>1. CASE SignalWakes(t)
      <4>1. TaskResume(t)
        BY <1>3, <3>1 DEF SignalSend
      <4> QED BY <1>1, <3>1, <4>1, ResumeShape DEF SignalWakes, WAIT_INTR
    <3>2. CASE ~SignalWakes(t)
      BY <1>3, <3>2 DEF SignalSend, SignalWakes, runvars
    <3> QED BY <3>1, <3>2
  <2> QED BY <1>3, <2>2, <2>3
<1>4. QED
  BY <1>2, <1>3

\* sched() called by a runnable task puts nobody to sleep.
LEMMA SchedShape ==
    ASSUME TInv, curr \in Slot, NEW c, SchedRunnable(c)
    PROVE  /\ paused' = paused
           /\ \A u \in Slot : queue'[u] = XWaitQ => queue[u] = XWaitQ
           /\ \/ curr' = curr /\ mode' = c
              \/ curr' = NoTask /\ mode' = "pick"
<1>1. queue \in [Slot -> Queue \cup {NoQueue}] /\ prio[curr] \in ReadyQueue
  BY DEF TInv, TypeOK
<1>2. XWaitQ \notin ReadyQueue
  BY TaskAssumption DEF ReadyQueue
<1>3. QED
  BY <1>1, <1>2 DEF SchedRunnable

\* task_suspend: the task sleeps, or has a signal pending and is not stopped.
LEMMA SuspendShape ==
    ASSUME TInv, curr \in Slot, NEW tq, NEW ty, NEW c, NEW e, TaskSuspend(tq, ty, c, e)
    PROVE  \/ /\ paused' = paused /\ queue' = queue /\ curr' = curr /\ mode' = e
              /\ pending[curr] /\ ty = WAIT_INTR
           \/ /\ paused' = [paused EXCEPT ![curr] = ty]
              /\ queue' = IF tq = NoQueue THEN queue ELSE [queue EXCEPT ![curr] = tq]
              /\ curr' = NoTask /\ mode' = "pick"
              /\ ~(pending[curr] /\ ~stopped[curr] /\ ty = WAIT_INTR)
<1>1. CASE Interrupted(ty)
  BY <1>1 DEF TaskSuspend, Interrupted, runvars
<1>2. CASE ~Interrupted(ty)
  BY <1>2 DEF TaskSuspend, Interrupted
<1>3. QED
  BY <1>1, <1>2

-----------------------------------------------------------------------------
(* The steps that record signals but neither take them nor change what     *)
(* tasks do with them.                                                     *)

\* No signal for u; if u goes to sleep, then with none pending or stopped.
TaskSame(u) ==
    /\ pending'[u] = pending[u] /\ stopped'[u] = stopped[u] /\ received'[u] = received[u]
    /\ paused'[u] = WAIT_INTR => paused[u] = WAIT_INTR \/ (pending[u] => stopped[u])

\* u is sent a signal that it does not ignore.
TaskSent(u) ==
    /\ \E s \in Sig : handler[u][s] # "IGN" /\ received'[u] = received[u] \cup {s}
    /\ pending'[u] /\ paused'[u] # WAIT_INTR

\* The processor stays, or is at no place that the signal loop leads through, or exits.
Moves ==
    \/ curr' = curr /\ mode' = mode /\ sigpos' = sigpos
    \/ mode \notin {"leave", "scan", "exit", "notify"}
    \/ mode = "leave" /\ ~pending[curr]
    \/ curr' = curr /\ mode = "exit" /\ mode' = "notify"
    \/ mode = "notify" /\ exited'[curr]

(* What every such step has in common keeps SignalInv. *)
LEMMA SteadyStep ==
    ASSUME TInv, SignalInv, Moves, used' = used, handler' = handler,
           \A u \in Slot : exited[u] => exited'[u],
           \A u \in Slot : TaskSame(u) \/ TaskSent(u)
    PROVE  SignalInv'
<1>1. NoSleepOnSignal'
  BY DEF SignalInv, NoSleepOnSignal, TaskSame, TaskSent
<1>2. ASSUME NEW t \in Slot, Alive(t)', received'[t] # {}, ~pending'[t]
      PROVE  \/ t = curr' /\ mode' = "scan" /\ \A s \in received'[t] : s >= sigpos'
             \/ t = curr' /\ mode' \in {"exit", "notify"}
  <2>1. TaskSame(t)
    BY <1>2 DEF TaskSent
  <2>2. Alive(t) /\ received[t] # {} /\ ~pending[t] /\ received'[t] = received[t]
    BY <1>2, <2>1 DEF TaskSame, Alive
  <2>3. \/ t = curr /\ mode = "scan" /\ \A s \in received[t] : s >= sigpos
        \/ t = curr /\ mode \in {"exit", "notify"}
    BY <2>2 DEF SignalInv, SignalsNoticed
  <2> QED BY <1>2, <2>2, <2>3 DEF Moves, Alive
<1>3. SignalsNoticed'
  BY <1>2 DEF SignalsNoticed
<1>4. ASSUME NEW t \in Slot, Alive(t)', NEW s \in received'[t], handler'[t][s] = "IGN"
      PROVE  /\ t = curr'
             /\ (mode' = "leave" /\ pending'[t]) \/ mode' \in {"scan", "exit", "notify"}
  <2>1. Alive(t) /\ s \in received[t] /\ (pending[t] => pending'[t])
    BY <1>4 DEF TaskSame, TaskSent, Alive
  <2>2. t = curr /\ ((mode = "leave" /\ pending[t]) \/ mode \in {"scan", "exit", "notify"})
    BY <1>4, <2>1 DEF SignalInv, IgnoredGone
  <2> QED BY <1>4, <2>1, <2>2 DEF Moves, Alive
<1>5. IgnoredGone'
  BY <1>4 DEF IgnoredGone
<1>6. QED
  BY <1>1, <1>3, <1>5 DEF SignalInv

(* A step that sends one signal. *)
LEMMA SendStep ==
    ASSUME TInv, SignalInv, Moves, used' = used, handler' = handler,
           \A u \in Slot : exited[u] => exited'[u],
           NEW t \in Slot, NEW s \in Sig, SignalSend(t, s)
    PROVE  SignalInv'
<1>1. ASSUME NEW u \in Slot PROVE TaskSame(u) \/ TaskSent(u)
  <2>1. CASE u = t
    BY <2>1, SendShape DEF TaskSame, TaskSent
  <2>2. CASE u # t
    BY <2>2, SendShape DEF TaskSame
  <2> QED BY <2>1, <2>2
<1>2. QED
  BY <1>1, SteadyStep

(* A step that sends none and puts nobody to sleep. *)
LEMMA CalmStep ==
    ASSUME TInv, SignalInv, Moves, UNCHANGED <<used, exited, sigvars>>,
           \A u \in Slot : paused'[u] = WAIT_INTR => paused[u] = WAIT_INTR
    PROVE  SignalInv'
<1>1. \A u \in Slot : TaskSame(u)
  BY DEF TaskSame, sigvars
<1>2. used' = used /\ exited' = exited /\ handler' = handler
  BY DEF sigvars
<1>3. QED
  BY <1>1, <1>2, SteadyStep

(* A step that goes to sleep in task_suspend, or finds a signal and does not. *)
LEMMA SuspendStep ==
    ASSUME TInv, SignalInv, UNCHANGED <<used, exited, sigvars>>, curr \in Slot,
           mode \notin {"leave", "scan", "exit", "notify"} \/ (mode = "leave" /\ ~pending[curr]),
           NEW tq, NEW ty, NEW c, NEW e, TaskSuspend(tq, ty, c, e)
    PROVE  SignalInv'
<1>1. paused \in [Slot -> {0, WAIT_NOINTR, WAIT_INTR}]
  BY DEF TInv, TypeOK
<1>2. \A u \in Slot : TaskSame(u)
  BY <1>1, SuspendShape DEF TaskSame, sigvars
<1>3. used' = used /\ exited' = exited /\ handler' = handler
  BY DEF sigvars
<1>4. Moves
  BY DEF Moves
<1>5. QED
  BY <1>2, <1>3, <1>4, SteadyStep

-----------------------------------------------------------------------------
(* One step per action.                                                    *)

\* Every signal is above 0, where the signal loop starts.
LEMMA SigAbove == \A s \in Sig : s \in Nat /\ s >= 1
BY DEF Sig, SIGKILL, SIGSTOP, SIGCONT, SIGALRM, SIGCHLD, SIGEXEC, SIGOOM

\* intr_leave and the loop of signal_handle.
LEMMA ReturnSignals == ASSUME TInv, SignalInv, Return PROVE SignalInv'
<1> USE DEF At
<1>1. mode # "pick" /\ TypeOK
  BY DEF TInv, Return, LeaveSignal, LeaveStop, StopOver, LeaveSched, LeaveUser,
     LeaveExec, ScanDone, ScanSignal
<1>2. curr \in Slot /\ curr # NoTask /\ Alive(curr) /\ paused[curr] = 0
  BY <1>1, Running DEF TInv, CoreInv, Core, Living, Asleep, Alive
<1>t. /\ received \in [Slot -> SUBSET Sig] /\ pending \in [Slot -> BOOLEAN]
      /\ handler \in [Slot -> [Sig -> Disposition]] /\ sigpos \in Nat
  BY <1>1 DEF TypeOK
<1>3. CASE LeaveSignal
  <2>1. NoSleepOnSignal'
    BY <1>3, <1>t DEF LeaveSignal, SignalInv, NoSleepOnSignal, runvars
  <2>2. SignalsNoticed'
    BY <1>2, <1>3, <1>t, SigAbove DEF LeaveSignal, SignalInv, SignalsNoticed, Alive, tabvars
  <2>3. IgnoredGone'
    BY <1>2, <1>3, <1>t DEF LeaveSignal, SignalInv, IgnoredGone, Alive, tabvars
  <2> QED BY <2>1, <2>2, <2>3 DEF SignalInv
<1>4. CASE LeaveStop
  BY <1>2, <1>4, SuspendStep DEF LeaveStop
<1>5. CASE StopOver
  <2>1. Moves /\ UNCHANGED <<used, exited, sigvars, paused>>
    BY <1>5 DEF StopOver, Moves, tabvars, runvars
  <2> QED BY <2>1, CalmStep
<1>6. CASE LeaveSched
  <2>1. Moves /\ UNCHANGED <<used, exited, sigvars, paused>>
    BY <1>2, <1>6, SchedShape DEF LeaveSched, Moves
  <2> QED BY <2>1, CalmStep
<1>7. CASE LeaveUser
  <2>1. Moves /\ UNCHANGED <<used, exited, sigvars, paused>>
    BY <1>7 DEF LeaveUser, Moves, tabvars, runvars
  <2> QED BY <2>1, CalmStep
<1>8. ASSUME NEW ok \in BOOLEAN, LeaveExec(ok) PROVE SignalInv'
  <2>1. /\ mode = "leave" /\ mode' = "leave" /\ curr' = curr /\ ~pending[curr]
        /\ UNCHANGED <<used, exited, paused, stopped>>
        /\ received' = (IF ok THEN received ELSE [received EXCEPT ![curr] = @ \cup {SIGEXEC}])
        /\ pending' = [pending EXCEPT ![curr] = @ \/ ~ok]
        /\ handler' = (IF ok THEN DoExec(curr) ELSE [DoExec(curr) EXCEPT ![curr][SIGEXEC] = "DFL"])
    BY <1>8 DEF LeaveExec, runvars
  <2>2. received[curr] = {}
    BY <1>2, <2>1 DEF SignalInv, SignalsNoticed
  <2>3. /\ \A u \in Slot \ {curr} : /\ received'[u] = received[u] /\ pending'[u] = pending[u]
                                       /\ handler'[u] = handler[u]
        /\ received'[curr] = IF ok THEN {} ELSE {SIGEXEC}
        /\ pending'[curr] = ~ok
    BY <1>2, <1>t, <2>1, <2>2 DEF DoExec
  <2>4. ~ok => handler'[curr][SIGEXEC] = "DFL"
    <3>1. SIGEXEC \in Sig
      BY DEF Sig
    <3> QED BY <1>2, <1>t, <2>1, <3>1 DEF DoExec
  <2>5. NoSleepOnSignal'
    BY <1>2, <2>1, <2>3 DEF SignalInv, NoSleepOnSignal, WAIT_INTR
  <2>6. SignalsNoticed'
    BY <1>2, <2>1, <2>3 DEF SignalInv, SignalsNoticed, Alive
  <2>7. IgnoredGone'
    BY <1>2, <2>1, <2>3, <2>4 DEF SignalInv, IgnoredGone, Alive
  <2> QED BY <2>5, <2>6, <2>7 DEF SignalInv
<1>9. CASE ScanDone
  <2>1. UNCHANGED <<used, exited, paused, handler, received, stopped, curr>> /\ mode = "scan"
    BY <1>9 DEF ScanDone, tabvars, runvars
  <2>2. CASE pending[curr]
    <3>1. pending' = [pending EXCEPT ![curr] = FALSE] /\ sigpos' = 1 /\ mode' = "scan"
      BY <1>9, <2>2, <2>1 DEF ScanDone
    <3>2. NoSleepOnSignal'
      BY <1>t, <2>1, <3>1 DEF SignalInv, NoSleepOnSignal
    <3>3. SignalsNoticed'
      BY <1>2, <1>t, <2>1, <3>1, SigAbove DEF SignalInv, SignalsNoticed, Alive
    <3>4. IgnoredGone'
      BY <1>t, <2>1, <3>1 DEF SignalInv, IgnoredGone, Alive
    <3> QED BY <3>2, <3>3, <3>4 DEF SignalInv
  <2>3. CASE ~pending[curr]
    <3>1. pending' = pending /\ DueSigs = {}
      BY <1>9, <2>3 DEF ScanDone
    <3>2. received[curr] = {}
      BY <1>2, <1>t, <2>1, <2>3, <3>1, SigAbove DEF SignalInv, SignalsNoticed, DueSigs
    <3>3. NoSleepOnSignal'
      BY <2>1, <3>1 DEF SignalInv, NoSleepOnSignal
    <3>4. SignalsNoticed'
      BY <2>1, <3>1, <3>2 DEF SignalInv, SignalsNoticed, Alive
    <3>5. IgnoredGone'
      BY <2>1, <3>1, <3>2 DEF SignalInv, IgnoredGone, Alive
    <3> QED BY <3>3, <3>4, <3>5 DEF SignalInv
  <2> QED BY <2>2, <2>3
<1>10. CASE ScanSignal
  <2>1. /\ UNCHANGED <<used, exited, paused, pending, stopped, curr>> /\ mode = "scan"
    BY <1>10 DEF ScanSignal, tabvars, runvars
  <2>2. PICK s \in DueSigs :
          /\ \A r \in DueSigs : s <= r
          /\ received' = [received EXCEPT ![curr] = @ \ {s}]
          /\ handler' = (IF handler[curr][s] = "FN" THEN [handler EXCEPT ![curr][s] = "DFL"] ELSE handler)
          /\ \/ mode' = "exit"
             \/ mode' = "scan" /\ sigpos' = s + 1
    BY <1>10, <2>1 DEF ScanSignal
  <2>3. s \in received[curr] /\ s \in Sig /\ s >= sigpos
    BY <1>2, <1>t DEF DueSigs
  <2>4. /\ \A u \in Slot \ {curr} : received'[u] = received[u] /\ handler'[u] = handler[u]
        /\ received'[curr] = received[curr] \ {s}
        /\ \A r \in Sig : handler'[curr][r] = "IGN" => handler[curr][r] = "IGN"
    BY <1>2, <1>t, <2>2, <2>3
  <2>5. NoSleepOnSignal'
    BY <2>1 DEF SignalInv, NoSleepOnSignal
  <2>6. SignalsNoticed'
    <3>1. ASSUME NEW t \in Slot \ {curr}, Alive(t)', received'[t] # {} PROVE pending'[t]
      BY <2>1, <2>4, <3>1 DEF SignalInv, SignalsNoticed, Alive
    <3>2. ASSUME ~pending[curr], mode' = "scan", NEW r \in received'[curr] PROVE r >= sigpos'
      <4>1. r \in received[curr] /\ r # s /\ r \in Sig
        BY <1>2, <1>t, <2>4, <3>2
      <4>2. r >= sigpos
        BY <1>2, <2>1, <3>2, <4>1 DEF SignalInv, SignalsNoticed
      <4>3. s <= r
        BY <2>2, <4>1, <4>2 DEF DueSigs
      <4>4. s \in Nat /\ r \in Nat /\ sigpos' = s + 1
        BY <2>2, <2>3, <3>2, <4>1, SigAbove
      <4> QED BY <4>1, <4>3, <4>4
    <3> QED BY <1>2, <2>1, <2>2, <3>1, <3>2 DEF SignalsNoticed
  <2>7. IgnoredGone'
    BY <2>1, <2>2, <2>4 DEF SignalInv, IgnoredGone, Alive
  <2> QED BY <2>5, <2>6, <2>7 DEF SignalInv
<1>11. QED
  <2>1. Outcome("exec") \subseteq BOOLEAN
    BY DEF Outcome
  <2> QED BY <1>3, <1>4, <1>5, <1>6, <1>7, <1>8, <1>9, <1>10, <2>1 DEF Return

\* task_exit and the dispatcher.
LEMMA ExitSignals ==
    ASSUME TInv, SignalInv, ExitChildren \/ ExitNotify \/ Pick PROVE SignalInv'
<1> USE DEF At
<1>1. TypeOK /\ init \in Slot /\ SIGCHLD \in Sig
  BY QueueFacts DEF TInv, Sig
<1>2. CASE ExitChildren
  <2>1. used' = used /\ exited' = exited /\ handler' = handler /\ curr' = curr
        /\ mode = "exit" /\ sigpos' = sigpos
    BY <1>2 DEF ExitChildren, loopvars
  <2>2. CASE SignalSend(init, SIGCHLD) /\ mode' = "notify"
    BY <1>1, <2>1, <2>2, SendStep DEF Moves
  <2>3. CASE UNCHANGED <<runvars, received, pending, stopped>> /\ mode' \in {"exit", "notify"}
    <3>1. Moves /\ UNCHANGED <<used, exited, sigvars, paused>>
      BY <2>1, <2>3 DEF Moves, sigvars, runvars
    <3> QED BY <3>1, CalmStep
  <2> QED BY <1>2, <2>1, <2>2, <2>3 DEF ExitChildren
<1>3. CASE ExitNotify
  <2>1. mode = "notify" /\ used' = used /\ handler' = handler /\ SignalSend(Heir, SIGCHLD)
        /\ exited' = [exited EXCEPT ![curr] = TRUE]
    BY <1>3 DEF ExitNotify
  <2>2. curr \in Slot
    BY <2>1, Running
  <2>3. Heir \in Slot
    BY <1>1, <2>2 DEF Heir, TypeOK
  <2>4. Moves /\ \A u \in Slot : exited[u] => exited'[u]
    BY <1>1, <2>1, <2>2 DEF Moves, TypeOK
  <2> QED BY <1>1, <2>1, <2>3, <2>4, SendStep
<1>4. CASE Pick
  <2>1. Moves /\ UNCHANGED <<used, exited, sigvars, paused>>
    BY <1>4 DEF Pick, Moves
  <2> QED BY <2>1, CalmStep
<1>5. QED
  BY <1>2, <1>3, <1>4

\* The first steps of new tasks.
LEMMA EntrySignals ==
    ASSUME TInv, SignalInv, NEW ok \in BOOLEAN,
           AfterFork \/ AfterForkSched \/ AfterForkUser \/ NewTaskEntry(ok)
    PROVE  SignalInv'
<1> USE DEF At
<1>1. mode # "pick" /\ TypeOK
  BY DEF TInv, AfterFork, AfterForkSched, AfterForkUser, NewTaskEntry
<1>2. curr \in Slot /\ curr # NoTask /\ Alive(curr) /\ paused[curr] = 0
  BY <1>1, Running DEF TInv, CoreInv, Core, Living, Asleep, Alive
<1>t. /\ received \in [Slot -> SUBSET Sig] /\ pending \in [Slot -> BOOLEAN]
      /\ handler \in [Slot -> [Sig -> Disposition]]
  BY <1>1 DEF TypeOK
<1>3. CASE AfterFork
  <2>1. UNCHANGED <<used, exited, paused, handler, received, stopped, curr>> /\ mode = "fork"
    BY <1>3 DEF AfterFork, tabvars, runvars
  <2>2. CASE pending[curr]
    <3>1. pending' = [pending EXCEPT ![curr] = FALSE] /\ sigpos' = 1 /\ mode' = "scan"
      BY <1>3, <2>2 DEF AfterFork
    <3>2. NoSleepOnSignal'
      BY <1>t, <2>1, <3>1 DEF SignalInv, NoSleepOnSignal
    <3>3. SignalsNoticed'
      BY <1>2, <1>t, <2>1, <3>1, SigAbove DEF SignalInv, SignalsNoticed, Alive
    <3>4. IgnoredGone'
      BY <2>1, <3>1 DEF SignalInv, IgnoredGone, Alive
    <3> QED BY <3>2, <3>3, <3>4 DEF SignalInv
  <2>3. CASE ~pending[curr]
    <3>1. Moves /\ UNCHANGED <<used, exited, sigvars, paused>>
      BY <1>3, <2>1, <2>3 DEF AfterFork, Moves, sigvars
    <3> QED BY <3>1, CalmStep
  <2> QED BY <2>2, <2>3
<1>4. CASE AfterForkSched
  <2>1. Moves /\ UNCHANGED <<used, exited, sigvars, paused>>
    BY <1>2, <1>4, SchedShape DEF AfterForkSched, Moves
  <2> QED BY <2>1, CalmStep
<1>5. CASE AfterForkUser
  <2>1. Moves /\ UNCHANGED <<used, exited, sigvars, paused>>
    BY <1>5 DEF AfterForkUser, Moves, tabvars, runvars
  <2> QED BY <2>1, CalmStep
<1>6. CASE NewTaskEntry(ok)
  <2>1. /\ UNCHANGED <<used, exited, paused, received, pending, stopped, curr>> /\ mode = "new"
        /\ handler' = DoExec(curr)
    BY <1>6 DEF NewTaskEntry, runvars
  <2>2. \A u \in Slot, s \in Sig : handler'[u][s] = "IGN" => handler[u][s] = "IGN"
    BY <1>2, <1>t, <2>1 DEF DoExec
  <2>3. NoSleepOnSignal'
    BY <2>1 DEF SignalInv, NoSleepOnSignal
  <2>4. SignalsNoticed'
    BY <2>1 DEF SignalInv, SignalsNoticed, Alive
  <2>5. IgnoredGone'
    BY <1>t, <2>1, <2>2 DEF SignalInv, IgnoredGone, Alive
  <2> QED BY <2>3, <2>4, <2>5 DEF SignalInv
<1>7. QED
  BY <1>3, <1>4, <1>5, <1>6

\* The loops of system calls that other tasks and interrupts come between.
LEMMA LoopSignals ==
    ASSUME TInv, SignalInv, KillNext \/ BlockAgain \/ BlockOver \/ WakeNext PROVE SignalInv'
<1> USE DEF At
<1>1. mode # "pick" /\ TypeOK
  BY DEF TInv, KillNext, BlockAgain, BlockOver, WakeNext
<1>2. curr \in Slot
  BY <1>1, Running
<1>3. CASE KillNext
  <2>1. PICK t \in targets : SignalSend(t, killsig)
    BY <1>3 DEF KillNext
  <2>2. t \in Slot /\ killsig \in Sig
    BY <1>1 DEF TypeOK
  <2>3. Moves /\ used' = used /\ exited' = exited /\ handler' = handler
    BY <1>3 DEF KillNext, Moves, tabvars
  <2> QED BY <2>1, <2>2, <2>3, SendStep
<1>4. CASE BlockAgain
  BY <1>2, <1>4, SuspendStep DEF BlockAgain
<1>5. CASE BlockOver
  <2>1. Moves /\ UNCHANGED <<used, exited, sigvars, paused>>
    BY <1>5 DEF BlockOver, Moves, runvars
  <2> QED BY <2>1, CalmStep
<1>6. CASE WakeNext
  <2>1. Moves /\ UNCHANGED <<used, exited, sigvars>>
    BY <1>6 DEF WakeNext, Moves, tabvars
  <2>2. CASE q[wakeq] = <<>>
    <3>1. UNCHANGED paused
      BY <1>6, <2>2 DEF WakeNext, runvars
    <3> QED BY <2>1, <3>1, CalmStep
  <2>3. CASE q[wakeq] # <<>>
    <3>1. TaskResume(Head(q[wakeq]))
      BY <1>6, <2>3 DEF WakeNext
    <3>2. wakeq \in Queue
      BY <1>6 DEF WakeNext, TInv, ModeInv, Queue
    <3>3. Head(q[wakeq]) \in Slot
      BY <2>3, <3>2, HeadOfQueue DEF TInv
    <3>4. paused' = [paused EXCEPT ![Head(q[wakeq])] = 0]
      BY <3>1, <3>3, ResumeShape
    <3>5. \A u \in Slot : paused'[u] = WAIT_INTR => paused[u] = WAIT_INTR
      BY <1>1, <3>3, <3>4 DEF TypeOK, WAIT_INTR
    <3> QED BY <2>1, <3>5, CalmStep
  <2> QED BY <2>2, <2>3
<1>7. QED
  BY <1>3, <1>4, <1>5, <1>6

\* The caller of a system call has no recorded signal that it ignores.
LEMMA Caller ==
    ASSUME TInv, SignalInv, mode = "user"
    PROVE  /\ curr \in Slot /\ Alive(curr) /\ paused[curr] = 0 /\ queue[curr] = NoQueue
           /\ \A s \in received[curr] : handler[curr][s] # "IGN"
           /\ received[curr] # {} => pending[curr]
<1>1. /\ curr \in Slot /\ Alive(curr) /\ paused[curr] = 0 /\ queue[curr] = NoQueue
  BY Running DEF TInv, CoreInv, Core, Living, Asleep, Alive
<1>2. QED
  BY <1>1 DEF SignalInv, SignalsNoticed, IgnoredGone

\* A free slot is neither alive nor asleep.
LEMMA FreeIsIdle ==
    ASSUME TInv, NEW t \in Slot, ~used[t]
    PROVE  paused[t] = 0 /\ ~exited[t] /\ t # curr /\ queue[t] = NoQueue
<1>1. /\ Asleep(paused) \subseteq Living(used, exited) \ {curr}
      /\ curr \in Living(used, exited) \cup {NoTask} /\ NoTask \notin Slot
      /\ \A u \in Slot : exited[u] => used[u]
      /\ \A u \in Slot : u \notin Living(used, exited) => queue[u] = NoQueue
  BY QueueFacts DEF TInv, CoreInv, Core
<1>2. QED
  BY <1>1 DEF Living, Asleep

\* fork and newtask: the new task takes over no signal that nobody will look at.
LEMMA CreateSignals ==
    ASSUME TInv, SignalInv, NEW t \in Slot, NEW ok \in BOOLEAN, SysFork(t, ok) \/ SysNewtask(t)
    PROVE  SignalInv'
<1> USE DEF At
<1>1. mode = "user" /\ ~used[t] /\ mode' = "leave" /\ curr' = curr /\ TypeOK
  BY DEF SysFork, SysNewtask, FreeSlot, TInv
<1>2. /\ curr \in Slot /\ \A s \in received[curr] : handler[curr][s] # "IGN"
      /\ received[curr] # {} => pending[curr]
  BY <1>1, Caller
<1>3. paused[t] = 0 /\ ~exited[t] /\ t # curr
  BY <1>1, FreeIsIdle
<1>t. /\ received \in [Slot -> SUBSET Sig] /\ pending \in [Slot -> BOOLEAN]
      /\ stopped \in [Slot -> BOOLEAN]
      /\ handler \in [Slot -> [Sig -> Disposition]] /\ used \in [Slot -> BOOLEAN]
  BY <1>1 DEF TypeOK
<1>4. /\ paused' = paused /\ exited' = exited
      /\ \A u \in Slot \ {t} : /\ used'[u] = used[u] /\ received'[u] = received[u]
                                 /\ pending'[u] = pending[u] /\ handler'[u] = handler[u]
                                 /\ stopped'[u] = stopped[u]
  BY <1>t DEF SysFork, SysNewtask
<1>5. /\ received'[t] # {} => pending'[t]
      /\ \A s \in received'[t] : handler'[t][s] # "IGN"
  <2>1. CASE SysFork(t, ok)
    <3>1. /\ received'[t] = IF ok THEN received[curr] ELSE received[curr] \cup {SIGOOM}
          /\ pending'[t] = (pending[curr] \/ ~ok)
          /\ \A s \in Sig : handler'[t][s] = IF ~ok /\ s = SIGOOM /\ handler[curr][s] = "IGN"
                                              THEN "DFL" ELSE handler[curr][s]
      BY <1>t, <2>1 DEF SysFork
    <3>2. received[curr] \in SUBSET Sig /\ SIGOOM \in Sig
      BY <1>2, <1>t DEF Sig
    <3>3. received'[t] # {} => pending'[t]
      BY <1>2, <3>1
    <3>4. ASSUME NEW s \in received'[t] PROVE handler'[t][s] # "IGN"
      <4>1. s \in Sig /\ (s \in received[curr] \/ (~ok /\ s = SIGOOM))
        BY <3>1, <3>2
      <4> QED BY <1>2, <3>1, <4>1
    <3> QED BY <3>3, <3>4
  <2>2. CASE SysNewtask(t)
    <3>1. received'[t] = {s \in received[curr] : handler[curr][s] = "IGN"}
      BY <1>t, <2>2 DEF SysNewtask
    <3> QED BY <1>2, <3>1
  <2> QED BY <2>1, <2>2
<1>6. NoSleepOnSignal'
  BY <1>3, <1>4 DEF SignalInv, NoSleepOnSignal, WAIT_INTR
<1>7. SignalsNoticed'
  BY <1>1, <1>4, <1>5 DEF SignalInv, SignalsNoticed, Alive
<1>8. IgnoredGone'
  BY <1>1, <1>4, <1>5 DEF SignalInv, IgnoredGone, Alive
<1>9. QED
  BY <1>6, <1>7, <1>8 DEF SignalInv

\* wait() that finds a dead child.
LEMMA ReapSignals ==
    ASSUME TInv, SignalInv, NEW w, NEW z \in Slot, SysWaitReap(w, z) PROVE SignalInv'
<1> USE DEF At
<1>1. mode = "user" /\ mode' = "leave" /\ curr' = curr /\ TypeOK /\ exited[z]
  BY DEF SysWaitReap, TInv, Zombies
<1>t. /\ received \in [Slot -> SUBSET Sig] /\ pending \in [Slot -> BOOLEAN]
      /\ stopped \in [Slot -> BOOLEAN] /\ exited \in [Slot -> BOOLEAN]
      /\ handler \in [Slot -> [Sig -> Disposition]] /\ used \in [Slot -> BOOLEAN]
  BY <1>1 DEF TypeOK
<1>2. /\ paused' = paused /\ ~used'[z] /\ ~pending'[z]
      /\ \A u \in Slot \ {z} : /\ used'[u] = used[u] /\ received'[u] = received[u]
                                 /\ pending'[u] = pending[u] /\ handler'[u] = handler[u]
                                 /\ stopped'[u] = stopped[u] /\ exited'[u] = exited[u]
  BY <1>t DEF SysWaitReap
<1>3. NoSleepOnSignal'
  BY <1>2 DEF SignalInv, NoSleepOnSignal
<1>4. SignalsNoticed'
  BY <1>1, <1>2 DEF SignalInv, SignalsNoticed, Alive
<1>5. IgnoredGone'
  BY <1>1, <1>2 DEF SignalInv, IgnoredGone, Alive
<1>6. QED
  BY <1>3, <1>4, <1>5 DEF SignalInv

\* sys_signal: a signal that comes to be ignored is pending, and the way back to
\* user mode drops it.
LEMMA TrapSignals ==
    ASSUME TInv, SignalInv, NEW s \in Sig, NEW d \in Disposition, SysSignal(s, d)
    PROVE  SignalInv'
<1> USE DEF At
<1> DEFINE h == IF s = SIGCONT /\ d = "IGN" THEN "DFL" ELSE d
<1>1. /\ mode = "user" /\ mode' = "leave" /\ curr' = curr /\ TypeOK
      /\ UNCHANGED <<used, exited>> /\ handler' = [handler EXCEPT ![curr][s] = h]
      /\ curr = init => s = SIGALRM
  BY DEF SysSignal, TInv
<1>2. /\ curr \in Slot /\ paused[curr] = 0
      /\ \A r \in received[curr] : handler[curr][r] # "IGN"
      /\ received[curr] # {} => pending[curr]
  BY <1>1, Caller
<1>t. /\ received \in [Slot -> SUBSET Sig] /\ pending \in [Slot -> BOOLEAN]
      /\ handler \in [Slot -> [Sig -> Disposition]] /\ init \in Slot /\ SIGCHLD \in Sig
  BY <1>1, QueueFacts DEF TypeOK, Sig
<1>3. /\ \A u \in Slot \ {curr} : handler'[u] = handler[u]
      /\ \A r \in Sig \ {s} : handler'[curr][r] = handler[curr][r]
      /\ handler'[curr][s] = h
  BY <1>1, <1>2, <1>t
<1>4. CASE s = SIGCHLD /\ h = "IGN" /\ Zombies(curr) # {}
  <2>1. SignalSend(init, SIGCHLD) /\ curr # init
    BY <1>1, <1>4 DEF SysSignal, SIGALRM, SIGCHLD
  <2>2. /\ \A u \in Slot \ {init} :
              /\ paused'[u] = paused[u] /\ received'[u] = received[u]
              /\ pending'[u] = pending[u] /\ stopped'[u] = stopped[u]
        /\ \/ /\ paused'[init] = paused[init] /\ received'[init] = received[init]
              /\ pending'[init] = pending[init] /\ stopped'[init] = stopped[init]
           \/ /\ received'[init] = received[init] \cup {SIGCHLD} /\ pending'[init]
              /\ paused'[init] # WAIT_INTR /\ handler[init][SIGCHLD] # "IGN"
    BY <1>t, <2>1, SendShape
  <2>3. NoSleepOnSignal'
    BY <2>2 DEF SignalInv, NoSleepOnSignal
  <2>4. SignalsNoticed'
    BY <1>1, <2>2 DEF SignalInv, SignalsNoticed, Alive
  <2>5. IgnoredGone'
    BY <1>1, <1>2, <1>3, <2>1, <2>2 DEF SignalInv, IgnoredGone, Alive
  <2> QED BY <2>3, <2>4, <2>5 DEF SignalInv
<1>5. CASE ~(s = SIGCHLD /\ h = "IGN" /\ Zombies(curr) # {})
  <2>1. UNCHANGED <<paused, stopped>>
    BY <1>5 DEF SysSignal, runvars
  <2>2. CASE s = SIGCHLD /\ h = "FN" /\ Zombies(curr) # {}
    <3>1. /\ received' = [received EXCEPT ![curr] = @ \cup {SIGCHLD}]
          /\ pending' = [pending EXCEPT ![curr] = TRUE]
      BY <1>5, <2>2 DEF SysSignal
    <3>2. /\ received'[curr] = received[curr] \cup {SIGCHLD} /\ pending'[curr]
          /\ \A u \in Slot \ {curr} : received'[u] = received[u] /\ pending'[u] = pending[u]
      BY <1>2, <1>t, <3>1
    <3>3. NoSleepOnSignal'
      BY <1>2, <2>1, <3>2 DEF SignalInv, NoSleepOnSignal, WAIT_INTR
    <3>4. SignalsNoticed'
      BY <1>1, <3>2 DEF SignalInv, SignalsNoticed, Alive
    <3>5. IgnoredGone'
      BY <1>1, <1>3, <3>2 DEF SignalInv, IgnoredGone, Alive
    <3> QED BY <3>3, <3>4, <3>5 DEF SignalInv
  <2>3. CASE ~(s = SIGCHLD /\ h = "FN" /\ Zombies(curr) # {})
    <3>1. UNCHANGED <<received, pending>>
      BY <1>5, <2>3 DEF SysSignal
    <3>2. NoSleepOnSignal'
      BY <2>1, <3>1 DEF SignalInv, NoSleepOnSignal
    <3>3. SignalsNoticed'
      BY <1>1, <3>1 DEF SignalInv, SignalsNoticed, Alive
    <3>4. IgnoredGone'
      BY <1>1, <1>2, <1>3, <3>1 DEF SignalInv, IgnoredGone, Alive
    <3> QED BY <3>2, <3>3, <3>4 DEF SignalInv
  <2> QED BY <2>2, <2>3
<1>6. QED
  BY <1>4, <1>5

\* The other system calls.
LEMMA CallSignals ==
    ASSUME TInv, SignalInv,
           \/ SysExit \/ SysPause \/ SysExec
           \/ \E w : SysWaitSleep(w)
           \/ \E ts, r : SysKill(ts, r)
           \/ \E inc : SysNice(inc)
           \/ \E on : SysAlarm(on)
           \/ \E c : SysBlock(c) \/ SysWake(c)
    PROVE  SignalInv'
<1> USE DEF At
<1>1. mode = "user"
  BY DEF SysExit, SysPause, SysExec, SysWaitSleep, SysKill, SysNice, SysAlarm, SysBlock, SysWake
<1>2. curr \in Slot
  BY <1>1, Caller
<1>3. CASE SysPause
  BY <1>1, <1>2, <1>3, SuspendStep DEF SysPause
<1>4. ASSUME NEW w, SysWaitSleep(w) PROVE SignalInv'
  BY <1>1, <1>2, <1>4, SuspendStep DEF SysWaitSleep
<1>5. ASSUME NEW c, SysBlock(c) PROVE SignalInv'
  BY <1>1, <1>2, <1>5, SuspendStep DEF SysBlock
<1>6. CASE SysExit \/ SysExec \/ (\E ts, r : SysKill(ts, r)) \/ (\E inc : SysNice(inc))
           \/ (\E on : SysAlarm(on)) \/ (\E c : SysWake(c))
  <2>1. UNCHANGED <<used, exited, sigvars, paused>>
    BY <1>6 DEF SysExit, SysExec, SysKill, SysNice, SysAlarm, SysWake, tabvars, runvars
  <2>2. Moves
    BY <1>1 DEF Moves
  <2> QED BY <2>1, <2>2, CalmStep
<1>7. QED
  BY <1>3, <1>4, <1>5, <1>6

\* Interrupts come in the middle of the signal loop, but not of intr_leave.
LEMMA InterruptSignals == ASSUME TInv, SignalInv, Interrupt PROVE SignalInv'
<1>1. TypeOK /\ SIGALRM \in Sig
  BY DEF TInv, Sig
<1>2. CASE ClockTick
  <2>1. UNCHANGED <<used, exited, sigvars, paused>> /\ Moves
    BY <1>2 DEF ClockTick, AfterIntr, Moves, tabvars, loopvars
  <2> QED BY <2>1, CalmStep
<1>3. ASSUME NEW t \in Slot, NEW again \in BOOLEAN, ClockAlarm(t, again) PROVE SignalInv'
  <2>1. used' = used /\ exited' = exited /\ handler' = handler /\ SignalSend(t, SIGALRM) /\ Moves
    BY <1>3 DEF ClockAlarm, AfterIntr, Moves, loopvars
  <2> QED BY <1>1, <2>1, SendStep
<1>4. ASSUME NEW c, IntrBegin(c) PROVE SignalInv'
  <2>1. UNCHANGED <<used, exited, sigvars, paused>> /\ Moves
    BY <1>4 DEF IntrBegin, Moves, tabvars, runvars, loopvars
  <2> QED BY <2>1, CalmStep
<1>5. CASE IntrWake
  <2>1. UNCHANGED <<used, exited, sigvars>> /\ Moves
    BY <1>5 DEF IntrWake, AfterIntr, Moves, tabvars, loopvars
  <2>2. CASE q[irq] = <<>>
    <3>1. UNCHANGED paused
      BY <1>5, <2>2 DEF IntrWake, runvars
    <3> QED BY <2>1, <3>1, CalmStep
  <2>3. CASE q[irq] # <<>>
    <3>1. TaskResume(Head(q[irq])) /\ irq \in Queue
      BY <1>1, <1>5, <2>3 DEF IntrWake, TypeOK, Queue
    <3>2. Head(q[irq]) \in Slot
      BY <2>3, <3>1, HeadOfQueue
    <3>3. paused' = [paused EXCEPT ![Head(q[irq])] = 0]
      BY <3>1, <3>2, ResumeShape
    <3>4. \A u \in Slot : paused'[u] = WAIT_INTR => paused[u] = WAIT_INTR
      BY <1>1, <3>2, <3>3 DEF TypeOK, WAIT_INTR
    <3> QED BY <2>1, <3>4, CalmStep
  <2> QED BY <2>2, <2>3
<1>6. QED
  BY <1>2, <1>3, <1>4, <1>5 DEF Interrupt

(* No signal has been sent when init starts. *)
LEMMA InitSignals == ASSUME Init PROVE SignalInv
BY DEF Init, SignalInv, NoSleepOnSignal, SignalsNoticed, IgnoredGone, Alive, WAIT_INTR

(* Every step keeps SignalInv. *)
LEMMA NextSignals == ASSUME TInv, SignalInv, [Next]_vars PROVE SignalInv'
<1>1. CASE Kernel
  <2>1. Outcome("newtask") \subseteq BOOLEAN /\ TRUE \in BOOLEAN
    BY DEF Outcome
  <2> QED BY <1>1, <2>1, ReturnSignals, ExitSignals, EntrySignals, LoopSignals DEF Kernel
<1>2. CASE Syscall
  <2>1. Outcome("fork") \subseteq BOOLEAN /\ TrapSig \subseteq Sig /\ TRUE \in BOOLEAN
    BY TaskAssumption DEF Outcome
  <2> QED BY <1>2, <2>1, CreateSignals, ReapSignals, TrapSignals, CallSignals DEF Syscall
<1>3. CASE Interrupt
  BY <1>3, InterruptSignals
<1>4. CASE UNCHANGED vars
  <2>1. UNCHANGED <<used, exited, sigvars, paused>> /\ Moves
    BY <1>4 DEF vars, tabvars, runvars, loopvars, Moves
  <2> QED BY <2>1, CalmStep
<1>5. QED
  BY <1>1, <1>2, <1>3, <1>4 DEF Next

(* The invariant about signals always holds. *)
LEMMA SignalsAlways == Spec => []SignalInv
BY InitSignals, NextSignals, TInvAlways, PTL DEF Spec

\* Nobody sleeps interruptibly with a signal pending unless he is stopped
\* (task_suspend, signal_send_k).
THEOREM SleepersSignalled == Spec => []NoSleepOnSignal
<1>1. SignalInv => NoSleepOnSignal
  BY DEF SignalInv
<1>2. QED
  BY <1>1, SignalsAlways, PTL

\* A recorded signal is one that signal_handle is still going to look at, whatever
\* interrupt comes in its loop.
THEOREM SignalsReached == Spec => []SignalsNoticed
<1>1. SignalInv => SignalsNoticed
  BY DEF SignalInv
<1>2. QED
  BY <1>1, SignalsAlways, PTL

-----------------------------------------------------------------------------
(* Children.                                                               *)

\* What keeps a waiting parent reachable: task_exit gives all children away before
\* it tells the parent, the sleep of sys___xwait is one that a signal ends, nobody
\* else uses its queue, and init takes SIGCHLD.
WaitersReachable ==
    /\ mode = "notify" => \A c \in Slot : used[c] => parent[c] # curr
    /\ \A t \in Slot : queue[t] = XWaitQ => paused[t] = WAIT_INTR
    /\ \A t \in Slot : bq[t] # XWaitQ
    /\ handler[init][SIGCHLD] # "IGN"

ChildInv == ChildrenReaped /\ WaitersReachable

\* u does not come to wait for children, and a wait of u stays as it is.
WaitKept(u) == queue'[u] = XWaitQ => /\ queue[u] = XWaitQ /\ paused'[u] = paused[u]
                                     /\ wpid'[u] = wpid[u]

\* Nobody comes to ignore SIGCHLD.
HandlersKept == \A u \in Slot : handler'[u][SIGCHLD] = "IGN" => handler[u][SIGCHLD] = "IGN"

(* A step that makes, ends and reaps no task and gives no child away. *)
LEMMA FamilyStep ==
    ASSUME TInv, ChildInv, UNCHANGED <<used, exited, parent>>, HandlersKept,
           \A u \in Slot : WaitKept(u), \A u \in Slot : bq'[u] # XWaitQ,
           mode' = "notify" => mode = "notify" /\ curr' = curr
    PROVE  ChildInv'
<1>1. parent \in [Slot -> Slot] /\ init \in Slot
  BY QueueFacts DEF TInv, TypeOK
<1>2. ParentAlive'
  BY DEF ChildInv, ChildrenReaped, ParentAlive, Alive
<1>3. ZombieHasReaper'
  BY <1>1 DEF ChildInv, ChildrenReaped, ZombieHasReaper, HandlersKept
<1>4. NoMissedChild'
  BY DEF ChildInv, ChildrenReaped, NoMissedChild, WaitKept, Zombies, Children
<1>5. WaitersReachable'
  BY <1>1 DEF ChildInv, WaitersReachable, WaitKept, HandlersKept
<1>6. QED
  BY <1>2, <1>3, <1>4, <1>5 DEF ChildInv, ChildrenReaped

(* A signal ends the wait of the task it is sent to. *)
LEMMA SendWaits ==
    ASSUME TInv, ChildInv, NEW t \in Slot, NEW s \in Sig, SignalSend(t, s), wpid' = wpid
    PROVE  /\ \A u \in Slot : WaitKept(u)
           /\ ~exited[t] /\ handler[t][s] # "IGN" => queue'[t] # XWaitQ
BY SendShape DEF ChildInv, WaitersReachable, WaitKept

(* task_resume starts no wait. *)
LEMMA ResumeWaits ==
    ASSUME TInv, ChildInv, NEW t \in Slot, TaskResume(t), wpid' = wpid
    PROVE  \A u \in Slot : WaitKept(u)
<1>1. paused \in [Slot -> {0, WAIT_NOINTR, WAIT_INTR}]
  BY DEF TInv, TypeOK
<1>2. QED
  BY <1>1, ResumeShape DEF ChildInv, WaitersReachable, WaitKept, WAIT_INTR

(* sched() starts no wait. *)
LEMMA SchedWaits ==
    ASSUME TInv, ChildInv, curr \in Slot, NEW c, SchedRunnable(c), wpid' = wpid
    PROVE  /\ \A u \in Slot : WaitKept(u)
           /\ mode' \in {c, "pick"}
BY SchedShape DEF WaitKept

(* task_suspend on another queue starts no wait for children. *)
LEMMA SuspendWaits ==
    ASSUME TInv, ChildInv, curr \in Slot, NEW tq, tq # XWaitQ, NEW ty, NEW c, NEW e,
           TaskSuspend(tq, ty, c, e), wpid' = wpid
    PROVE  /\ \A u \in Slot : WaitKept(u)
           /\ mode' \in {e, "pick"}
<1>1. paused \in [Slot -> {0, WAIT_NOINTR, WAIT_INTR}] /\ queue \in [Slot -> Queue \cup {NoQueue}]
  BY DEF TInv, TypeOK
<1>2. queue[curr] = NoQueue /\ XWaitQ # NoQueue
  BY TaskAssumption DEF TInv, CoreInv, Core, NoQueue
<1>3. QED
  BY <1>1, <1>2, SuspendShape DEF WaitKept

\* intr_leave and signal_handle.
LEMMA ReturnChildren == ASSUME TInv, InitSafe, ChildInv, Return PROVE ChildInv'
<1> USE DEF At
<1>1. mode \in {"leave", "stop", "scan"} /\ TypeOK /\ SIGCHLD \in Sig
  BY DEF TInv, Sig, Return, LeaveSignal, LeaveStop, StopOver, LeaveSched, LeaveUser,
     LeaveExec, ScanDone, ScanSignal
<1>2. curr \in Slot
  BY <1>1, Running
<1>t. /\ handler \in [Slot -> [Sig -> Disposition]] /\ XWaitQ # NoQueue
      /\ \A u \in Slot : bq[u] # XWaitQ
  BY <1>1, TaskAssumption DEF TypeOK, NoQueue, ChildInv, WaitersReachable
<1>3. CASE LeaveSignal \/ StopOver \/ LeaveUser \/ ScanDone
  <2>1. UNCHANGED <<used, exited, parent, handler, queue, paused, wpid, bq>>
    BY <1>3 DEF LeaveSignal, StopOver, LeaveUser, ScanDone, tabvars, runvars, sigvars
  <2>2. mode' # "notify"
    BY <1>1, <1>3 DEF LeaveSignal, StopOver, LeaveUser, ScanDone, TypeOK
  <2> QED BY <1>t, <2>1, <2>2, FamilyStep DEF WaitKept, HandlersKept
<1>4. CASE LeaveStop
  <2>1. UNCHANGED <<used, exited, parent, handler, wpid, bq>>
        /\ TaskSuspend(NoQueue, WAIT_INTR, "stop", "stop")
    BY <1>4 DEF LeaveStop, sigvars
  <2>2. (\A u \in Slot : WaitKept(u)) /\ mode' \in {"stop", "pick"}
    BY <1>2, <1>t, <2>1, SuspendWaits
  <2> QED BY <1>t, <2>1, <2>2, FamilyStep DEF HandlersKept
<1>5. CASE LeaveSched
  <2>1. UNCHANGED <<used, exited, parent, handler, wpid, bq>> /\ SchedRunnable("leave")
    BY <1>5 DEF LeaveSched, sigvars
  <2>2. (\A u \in Slot : WaitKept(u)) /\ mode' \in {"leave", "pick"}
    BY <1>2, <2>1, SchedWaits
  <2> QED BY <1>t, <2>1, <2>2, FamilyStep DEF HandlersKept
<1>6. ASSUME NEW ok \in BOOLEAN, LeaveExec(ok) PROVE ChildInv'
  <2>1. /\ UNCHANGED <<used, exited, parent, queue, paused, wpid, bq, mode>>
        /\ handler' = (IF ok THEN DoExec(curr) ELSE [DoExec(curr) EXCEPT ![curr][SIGEXEC] = "DFL"])
    BY <1>6 DEF LeaveExec, runvars
  <2>2. HandlersKept
    BY <1>1, <1>2, <1>t, <2>1 DEF HandlersKept, DoExec
  <2>3. mode' # "notify"
    BY <1>1, <2>1
  <2> QED BY <1>t, <2>1, <2>2, <2>3, FamilyStep DEF WaitKept
<1>7. CASE ScanSignal
  <2>1. UNCHANGED <<used, exited, parent, queue, paused, wpid, bq>> /\ mode' # "notify"
    BY <1>1, <1>7 DEF ScanSignal, tabvars, runvars
  <2>2. PICK s \in DueSigs :
          handler' = IF handler[curr][s] = "FN" THEN [handler EXCEPT ![curr][s] = "DFL"] ELSE handler
    BY <1>7 DEF ScanSignal
  <2>3. HandlersKept
    BY <1>1, <1>2, <1>t, <2>2 DEF HandlersKept
  <2> QED BY <1>t, <2>1, <2>3, FamilyStep DEF WaitKept
<1>8. QED
  <2>1. Outcome("exec") \subseteq BOOLEAN
    BY DEF Outcome
  <2> QED BY <1>3, <1>4, <1>5, <1>6, <1>7, <2>1 DEF Return

\* task_exit gives the children to init, and tells it when one of them is dead.
LEMMA GiveChildren == ASSUME TInv, InitSafe, ChildInv, ExitChildren PROVE ChildInv'
<1> USE DEF At
<1>1. /\ mode = "exit" /\ TypeOK /\ curr' = curr /\ init \in Slot /\ SIGCHLD \in Sig
      /\ UNCHANGED <<used, exited, handler, wpid, bq>>
  BY QueueFacts DEF ExitChildren, TInv, Sig
<1>2. curr \in Slot /\ curr # init /\ Alive(init) /\ handler[init][SIGCHLD] # "IGN"
  BY <1>1, Running DEF InitSafe, ChildInv, WaitersReachable
<1>3. /\ mode' = "notify"
      /\ parent' = [c \in Slot |-> IF c \in Children(curr) THEN init ELSE parent[c]]
      /\ IF Zombies(curr) # {}
         THEN SignalSend(init, SIGCHLD)
         ELSE UNCHANGED <<runvars, received, pending, stopped, panic>>
  BY <1>2 DEF ExitChildren
<1>4. /\ \A u \in Slot : WaitKept(u)
      /\ Zombies(curr) # {} => queue'[init] # XWaitQ
  <2>1. CASE Zombies(curr) # {}
    BY <1>1, <1>2, <1>3, <2>1, SendWaits DEF Alive
  <2>2. CASE Zombies(curr) = {}
    BY <1>1, <1>3, <2>2 DEF WaitKept, runvars
  <2> QED BY <2>1, <2>2
<1>5. ParentAlive'
  BY <1>1, <1>2, <1>3 DEF ChildInv, ChildrenReaped, ParentAlive, Alive
<1>6. ZombieHasReaper'
  BY <1>1, <1>2, <1>3 DEF ChildInv, ChildrenReaped, ZombieHasReaper
<1>7. NoMissedChild'
  <2> SUFFICES ASSUME NEW p \in Slot, queue'[p] = XWaitQ, NEW z \in Zombies(p)'
               PROVE  wpid'[p] \notin {NoTask, z}
    BY DEF NoMissedChild
  <2>1. queue[p] = XWaitQ /\ wpid'[p] = wpid[p]
    BY <1>4 DEF WaitKept
  <2>2. z \in Slot /\ used[z] /\ exited[z] /\ parent'[z] = p
    BY <1>1 DEF Zombies, Children
  <2>3. CASE z \in Children(curr)
    BY <1>3, <1>4, <2>2, <2>3 DEF Zombies
  <2>4. CASE z \notin Children(curr)
    <3>1. z \in Zombies(p)
      BY <1>3, <2>2, <2>4 DEF Zombies, Children
    <3> QED BY <2>1, <3>1 DEF ChildInv, ChildrenReaped, NoMissedChild
  <2> QED BY <2>3, <2>4
<1>8. WaitersReachable'
  <2>1. \A c \in Slot : used'[c] => parent'[c] # curr'
    BY <1>1, <1>2, <1>3 DEF Children
  <2> QED BY <1>1, <1>4, <2>1 DEF ChildInv, WaitersReachable, WaitKept
<1>9. QED
  BY <1>5, <1>6, <1>7, <1>8 DEF ChildInv, ChildrenReaped

\* task_exit tells the parent, and the task is dead.
LEMMA TellParent == ASSUME TInv, InitSafe, ChildInv, ExitNotify PROVE ChildInv'
<1> USE DEF At
<1>1. /\ mode = "notify" /\ TypeOK /\ init \in Slot /\ SIGCHLD \in Sig
      /\ UNCHANGED <<used, handler, wpid, bq>> /\ mode' = "pick"
      /\ parent' = [parent EXCEPT ![curr] = Heir]
      /\ exited' = [exited EXCEPT ![curr] = TRUE]
      /\ SignalSend(Heir, SIGCHLD)
  BY QueueFacts DEF ExitNotify, TInv, Sig
<1>2. curr \in Slot /\ Alive(curr) /\ curr # init /\ Alive(init) /\ handler[init][SIGCHLD] # "IGN"
  BY <1>1, Running DEF InitSafe, ChildInv, WaitersReachable, Living, Alive
<1>3. parent[curr] # curr /\ Alive(parent[curr]) /\ parent[curr] \in Slot
  BY <1>1, <1>2 DEF ChildInv, ChildrenReaped, ParentAlive, WaitersReachable, Alive, TypeOK
<1>4. Heir \in Slot /\ Alive(Heir) /\ Heir # curr /\ handler[Heir][SIGCHLD] # "IGN"
  BY <1>1, <1>2, <1>3 DEF Heir
<1>5. (\A u \in Slot : WaitKept(u)) /\ queue'[Heir] # XWaitQ
  BY <1>1, <1>4, SendWaits DEF Alive
<1>6. /\ \A u \in Slot \ {curr} : parent'[u] = parent[u] /\ exited'[u] = exited[u]
      /\ parent'[curr] = Heir /\ exited'[curr]
  BY <1>1, <1>2 DEF TypeOK
<1>7. ParentAlive'
  <2> SUFFICES ASSUME NEW t \in Slot, used'[t] PROVE Alive(parent[t])'
    BY DEF ParentAlive
  <2>1. CASE t = curr
    BY <1>1, <1>4, <1>6, <2>1 DEF Alive
  <2>2. CASE t # curr
    <3>1. Alive(parent[t]) /\ parent[t] # curr /\ parent[t] \in Slot
      BY <1>1 DEF ChildInv, ChildrenReaped, ParentAlive, WaitersReachable, TypeOK
    <3> QED BY <1>1, <1>6, <2>2, <3>1 DEF Alive
  <2> QED BY <2>1, <2>2
<1>8. ZombieHasReaper'
  BY <1>1, <1>4, <1>6 DEF ChildInv, ChildrenReaped, ZombieHasReaper
<1>9. NoMissedChild'
  BY <1>1, <1>5, <1>6 DEF ChildInv, ChildrenReaped, NoMissedChild, Zombies, Children, WaitKept
<1>10. WaitersReachable'
  BY <1>1, <1>5 DEF ChildInv, WaitersReachable, WaitKept
<1>11. QED
  BY <1>7, <1>8, <1>9, <1>10 DEF ChildInv, ChildrenReaped

\* The dispatcher: a task that gets the processor waits no more.
LEMMA PickChildren == ASSUME TInv, ChildInv, Pick PROVE ChildInv'
<1> USE DEF At
<1>1. /\ mode = "pick" /\ TypeOK /\ XWaitQ \notin ReadyQueue /\ XWaitQ # NoQueue
      /\ UNCHANGED <<used, exited, parent, handler, paused, bq>>
  BY TaskAssumption DEF Pick, TInv, sigvars, ReadyQueue, NoQueue
<1>t. /\ queue \in [Slot -> Queue \cup {NoQueue}] /\ wpid \in [Slot -> Slot \cup {NoTask}]
      /\ prio \in [Slot -> ReadyQueue] /\ cont \in [Slot -> Cont]
      /\ \A u \in Slot : bq[u] # XWaitQ
  BY <1>1 DEF TypeOK, ChildInv, WaitersReachable
<1>2. (\A u \in Slot : WaitKept(u)) /\ mode' # "notify"
  <2>1. CASE NonEmpty = {}
    BY <1>1, <2>1 DEF Pick, WaitKept
  <2>2. CASE NonEmpty # {}
    <3>1. PICK p \in NonEmpty : Dispatch(p)
      BY <2>2 DEF Pick
    <3>2. Head(q[p]) \in Slot
      BY <3>1, HeadOfQueue, QueueFacts DEF NonEmpty
    <3> DEFINE next == Head(q[p])
    <3>3. \/ /\ queue' = [queue EXCEPT ![next] = prio[next]] /\ wpid' = wpid /\ mode' = mode
          \/ /\ queue' = [queue EXCEPT ![next] = NoQueue] /\ mode' = cont[next]
             /\ wpid' = [wpid EXCEPT ![next] = NoTask]
      BY <3>1 DEF Dispatch
    <3>4. \A u \in Slot : queue'[u] = XWaitQ => u # next
      BY <1>1, <1>t, <3>2, <3>3
    <3>5. cont[next] # "notify" /\ prio[next] \in ReadyQueue
      BY <1>t, <3>2 DEF Cont
    <3> HIDE DEF next
    <3>6. \A u \in Slot : u # next => queue'[u] = queue[u] /\ wpid'[u] = wpid[u]
      BY <1>t, <3>3
    <3> QED BY <1>1, <3>3, <3>4, <3>5, <3>6 DEF WaitKept
  <2> QED BY <2>1, <2>2
<1>3. QED
  BY <1>1, <1>2, <1>t, FamilyStep DEF HandlersKept

\* The first steps of new tasks.
LEMMA EntryChildren ==
    ASSUME TInv, ChildInv, NEW ok \in BOOLEAN,
           AfterFork \/ AfterForkSched \/ AfterForkUser \/ NewTaskEntry(ok)
    PROVE  ChildInv'
<1> USE DEF At
<1>1. mode # "pick" /\ TypeOK /\ SIGCHLD \in Sig
  BY DEF TInv, AfterFork, AfterForkSched, AfterForkUser, NewTaskEntry, Sig
<1>2. curr \in Slot
  BY <1>1, Running
<1>t. /\ handler \in [Slot -> [Sig -> Disposition]]
      /\ \A u \in Slot : bq[u] # XWaitQ
  BY <1>1 DEF TypeOK, ChildInv, WaitersReachable
<1>3. CASE AfterFork \/ AfterForkUser
  <2>1. UNCHANGED <<used, exited, parent, handler, queue, paused, wpid, bq>> /\ mode' # "notify"
    BY <1>3 DEF AfterFork, AfterForkUser, tabvars, runvars, sigvars
  <2> QED BY <1>t, <2>1, FamilyStep DEF WaitKept, HandlersKept
<1>4. CASE AfterForkSched
  <2>1. UNCHANGED <<used, exited, parent, handler, wpid, bq>> /\ SchedRunnable("fork")
    BY <1>4 DEF AfterForkSched, sigvars
  <2>2. (\A u \in Slot : WaitKept(u)) /\ mode' \in {"fork", "pick"}
    BY <1>2, <2>1, SchedWaits
  <2> QED BY <1>t, <2>1, <2>2, FamilyStep DEF HandlersKept
<1>5. CASE NewTaskEntry(ok)
  <2>1. /\ UNCHANGED <<used, exited, parent, queue, paused, wpid, bq>> /\ mode' # "notify"
        /\ handler' = DoExec(curr)
    BY <1>5 DEF NewTaskEntry, runvars
  <2>2. HandlersKept
    BY <1>1, <1>2, <1>t, <2>1 DEF HandlersKept, DoExec
  <2> QED BY <1>t, <2>1, <2>2, FamilyStep DEF WaitKept
<1>6. QED
  BY <1>3, <1>4, <1>5

\* The loops of system calls.
LEMMA LoopChildren ==
    ASSUME TInv, ChildInv, KillNext \/ BlockAgain \/ BlockOver \/ WakeNext PROVE ChildInv'
<1> USE DEF At
<1>1. mode # "pick" /\ TypeOK /\ XWaitQ # NoQueue
  BY TaskAssumption DEF TInv, KillNext, BlockAgain, BlockOver, WakeNext, NoQueue
<1>2. curr \in Slot
  BY <1>1, Running
<1>t. /\ bq \in [Slot -> WaitQueue \cup {NoQueue}]
      /\ \A u \in Slot : bq[u] # XWaitQ
  BY <1>1 DEF TypeOK, ChildInv, WaitersReachable
<1>3. CASE KillNext
  <2>1. PICK t \in targets : SignalSend(t, killsig)
    BY <1>3 DEF KillNext
  <2>2. t \in Slot /\ killsig \in Sig
    BY <1>1 DEF TypeOK
  <2>3. UNCHANGED <<used, exited, parent, handler, wpid, bq>> /\ mode' # "notify"
    BY <1>3 DEF KillNext, tabvars
  <2>4. \A u \in Slot : WaitKept(u)
    BY <2>1, <2>2, <2>3, SendWaits
  <2> QED BY <1>t, <2>3, <2>4, FamilyStep DEF HandlersKept
<1>4. CASE BlockAgain
  <2>1. /\ UNCHANGED <<used, exited, parent, handler, wpid, bq>>
        /\ TaskSuspend(bq[curr], WaitType(bq[curr]), "block", "leave")
    BY <1>4 DEF BlockAgain, sigvars
  <2>2. (\A u \in Slot : WaitKept(u)) /\ mode' \in {"leave", "pick"}
    BY <1>2, <1>t, <2>1, SuspendWaits
  <2> QED BY <1>t, <2>1, <2>2, FamilyStep DEF HandlersKept
<1>5. CASE BlockOver
  <2>1. /\ UNCHANGED <<used, exited, parent, handler, queue, paused, wpid>> /\ mode' # "notify"
        /\ bq' = [bq EXCEPT ![curr] = NoQueue]
    BY <1>5 DEF BlockOver, runvars, sigvars
  <2>2. \A u \in Slot : bq'[u] # XWaitQ
    BY <1>1, <1>2, <1>t, <2>1
  <2> QED BY <2>1, <2>2, FamilyStep DEF WaitKept, HandlersKept
<1>6. CASE WakeNext
  <2>1. UNCHANGED <<used, exited, parent, handler, wpid, bq>> /\ mode' # "notify"
    BY <1>6 DEF WakeNext, tabvars, sigvars
  <2>2. \A u \in Slot : WaitKept(u)
    <3>1. CASE q[wakeq] = <<>>
      BY <1>6, <2>1, <3>1 DEF WakeNext, runvars, WaitKept
    <3>2. CASE q[wakeq] # <<>>
      <4>1. TaskResume(Head(q[wakeq])) /\ wakeq \in Queue
        BY <1>6, <3>2 DEF WakeNext, TInv, ModeInv, Queue
      <4>2. Head(q[wakeq]) \in Slot
        BY <3>2, <4>1, HeadOfQueue
      <4> QED BY <2>1, <4>1, <4>2, ResumeWaits
    <3> QED BY <3>1, <3>2
  <2> QED BY <1>t, <2>1, <2>2, FamilyStep DEF HandlersKept
<1>7. QED
  BY <1>3, <1>4, <1>5, <1>6

\* fork and newtask: nobody is a child of the slot that is taken.
LEMMA CreateChildren ==
    ASSUME TInv, InitSafe, ChildInv, NEW t \in Slot, NEW ok \in BOOLEAN,
           SysFork(t, ok) \/ SysNewtask(t)
    PROVE  ChildInv'
<1> USE DEF At
<1>1. /\ mode = "user" /\ ~used[t] /\ mode' = "leave" /\ TypeOK /\ SIGCHLD \in Sig
      /\ XWaitQ \notin ReadyQueue /\ init \in Slot /\ Alive(init)
  BY TaskAssumption, QueueFacts DEF SysFork, SysNewtask, FreeSlot, TInv, Sig, ReadyQueue, InitSafe
<1>2. curr \in Slot /\ Alive(curr)
  BY <1>1, Running DEF TInv, CoreInv, Core, Living, Alive
<1>3. ~exited[t] /\ t # curr /\ t # init
  BY <1>1, FreeIsIdle DEF Alive
<1>t. /\ handler \in [Slot -> [Sig -> Disposition]] /\ used \in [Slot -> BOOLEAN]
      /\ parent \in [Slot -> Slot] /\ queue \in [Slot -> Queue \cup {NoQueue}]
      /\ prio[curr] \in ReadyQueue /\ 0 \in ReadyQueue
  BY <1>1, <1>2, QueueFacts DEF TypeOK
<1>4. /\ UNCHANGED <<exited, paused, wpid, bq>>
      /\ used' = [used EXCEPT ![t] = TRUE] /\ parent' = [parent EXCEPT ![t] = curr]
      /\ \A u \in Slot \ {t} : handler'[u] = handler[u] /\ queue'[u] = queue[u]
      /\ queue'[t] \in ReadyQueue
  BY <1>t DEF SysFork, SysNewtask
<1>5. /\ \A u \in Slot \ {t} : used'[u] = used[u] /\ parent'[u] = parent[u]
      /\ used'[t] /\ parent'[t] = curr
  BY <1>t, <1>4
<1>6. ParentAlive'
  BY <1>1, <1>2, <1>3, <1>4, <1>5, <1>t DEF ChildInv, ChildrenReaped, ParentAlive, Alive
<1>7. ZombieHasReaper'
  <2> SUFFICES ASSUME NEW z \in Slot, used'[z], exited'[z]
               PROVE  handler'[parent'[z]][SIGCHLD] # "IGN"
    BY DEF ZombieHasReaper
  <2>1. z # t /\ used[z] /\ exited[z] /\ parent'[z] = parent[z]
    BY <1>3, <1>4, <1>5
  <2>2. parent[z] \in Slot \ {t}
    BY <1>1, <1>t, <2>1 DEF ChildInv, ChildrenReaped, ParentAlive, Alive
  <2> QED BY <1>4, <2>1, <2>2 DEF ChildInv, ChildrenReaped, ZombieHasReaper
<1>8. NoMissedChild'
  BY <1>1, <1>3, <1>4, <1>5 DEF ChildInv, ChildrenReaped, NoMissedChild, Zombies, Children
<1>9. WaitersReachable'
  BY <1>1, <1>3, <1>4 DEF ChildInv, WaitersReachable
<1>10. QED
  BY <1>6, <1>7, <1>8, <1>9 DEF ChildInv, ChildrenReaped

\* wait() that finds a dead child: the slot is nobody's parent any more.
LEMMA ReapChildren ==
    ASSUME TInv, InitSafe, ChildInv, NEW w, NEW z \in Slot, SysWaitReap(w, z) PROVE ChildInv'
<1> USE DEF At
<1>1. /\ mode = "user" /\ mode' = "leave" /\ TypeOK /\ exited[z] /\ SIGCHLD \in Sig
      /\ XWaitQ # NoQueue /\ init \in Slot /\ Alive(init) /\ z # init
  BY TaskAssumption, QueueFacts
     DEF SysWaitReap, TInv, Zombies, Sig, NoQueue, InitSafe, Alive
<1>t. /\ handler \in [Slot -> [Sig -> Disposition]] /\ used \in [Slot -> BOOLEAN]
      /\ parent \in [Slot -> Slot] /\ exited \in [Slot -> BOOLEAN]
      /\ wpid \in [Slot -> Slot \cup {NoTask}] /\ bq \in [Slot -> WaitQueue \cup {NoQueue}]
  BY <1>1 DEF TypeOK
<1>2. queue[z] = NoQueue
  BY <1>1 DEF TInv, CoreInv, Core, Living
<1>3. /\ UNCHANGED <<paused, queue>> /\ ~used'[z] /\ bq'[z] = NoQueue
      /\ \A u \in Slot \ {z} : /\ used'[u] = used[u] /\ exited'[u] = exited[u]
                                 /\ parent'[u] = parent[u] /\ handler'[u] = handler[u]
                                 /\ wpid'[u] = wpid[u] /\ bq'[u] = bq[u]
  BY <1>t DEF SysWaitReap
<1>4. \A u \in Slot : used[u] => parent[u] \in Slot \ {z}
  BY <1>1, <1>t DEF ChildInv, ChildrenReaped, ParentAlive, Alive
<1>5. ParentAlive'
  BY <1>3, <1>4 DEF ChildInv, ChildrenReaped, ParentAlive, Alive
<1>6. ZombieHasReaper'
  BY <1>3, <1>4 DEF ChildInv, ChildrenReaped, ZombieHasReaper
<1>7. NoMissedChild'
  BY <1>1, <1>2, <1>3 DEF ChildInv, ChildrenReaped, NoMissedChild, Zombies, Children
<1>8. WaitersReachable'
  BY <1>1, <1>3 DEF ChildInv, WaitersReachable
<1>9. QED
  BY <1>5, <1>6, <1>7, <1>8 DEF ChildInv, ChildrenReaped

\* wait() that goes to sleep has looked at the children first.
LEMMA WaitChildren == ASSUME TInv, ChildInv, NEW w, SysWaitSleep(w) PROVE ChildInv'
<1> USE DEF At
<1>1. /\ mode = "user" /\ TypeOK /\ XWaitQ # NoQueue
      /\ UNCHANGED <<used, exited, parent, handler, bq>>
      /\ wpid' = [wpid EXCEPT ![curr] = w]
      /\ TaskSuspend(XWaitQ, WAIT_INTR, "leave", "leave")
  BY TaskAssumption DEF SysWaitSleep, TInv, sigvars, NoQueue
<1>2. curr \in Slot /\ queue[curr] = NoQueue
  BY <1>1, Running DEF TInv, CoreInv, Core
<1>t. /\ paused \in [Slot -> {0, WAIT_NOINTR, WAIT_INTR}] /\ queue \in [Slot -> Queue \cup {NoQueue}]
      /\ wpid \in [Slot -> Slot \cup {NoTask}]
  BY <1>1 DEF TypeOK
<1>3. /\ wpid'[curr] = w /\ \A u \in Slot \ {curr} : /\ wpid'[u] = wpid[u] /\ queue'[u] = queue[u]
                                                     /\ paused'[u] = paused[u]
      /\ queue'[curr] = XWaitQ => paused'[curr] = WAIT_INTR
      /\ mode' \in {"leave", "pick"}
  BY <1>1, <1>2, <1>t, SuspendShape
<1>4. \A z \in Zombies(curr) : w \notin {NoTask, z}
  BY DEF SysWaitSleep
<1>5. ParentAlive' /\ ZombieHasReaper'
  BY <1>1 DEF ChildInv, ChildrenReaped, ParentAlive, ZombieHasReaper, Alive
<1>6. NoMissedChild'
  BY <1>1, <1>3, <1>4 DEF ChildInv, ChildrenReaped, NoMissedChild, Zombies, Children
<1>7. WaitersReachable'
  BY <1>1, <1>3 DEF ChildInv, WaitersReachable
<1>8. QED
  BY <1>5, <1>6, <1>7 DEF ChildInv, ChildrenReaped

\* sys_signal: who comes to ignore SIGCHLD gives his dead children to init.
LEMMA TrapChildren ==
    ASSUME TInv, InitSafe, ChildInv, NEW s \in Sig, NEW d \in Disposition, SysSignal(s, d)
    PROVE  ChildInv'
<1> USE DEF At
<1> DEFINE h == IF s = SIGCONT /\ d = "IGN" THEN "DFL" ELSE d
<1>1. /\ mode = "user" /\ mode' = "leave" /\ TypeOK /\ SIGCHLD \in Sig /\ init \in Slot
      /\ UNCHANGED <<used, exited, wpid, bq>> /\ handler' = [handler EXCEPT ![curr][s] = h]
      /\ curr = init => s = SIGALRM
      /\ Alive(init) /\ handler[init][SIGCHLD] # "IGN"
  BY QueueFacts DEF SysSignal, TInv, Sig, InitSafe, ChildInv, WaitersReachable
<1>2. curr \in Slot
  BY <1>1, Running
<1>t. handler \in [Slot -> [Sig -> Disposition]] /\ parent \in [Slot -> Slot]
  BY <1>1 DEF TypeOK
<1>3. /\ \A u \in Slot \ {curr} : handler'[u] = handler[u]
      /\ s # SIGCHLD => handler'[curr][SIGCHLD] = handler[curr][SIGCHLD]
      /\ s = SIGCHLD => handler'[curr][SIGCHLD] = h /\ curr # init
      /\ handler'[init][SIGCHLD] # "IGN"
  BY <1>1, <1>2, <1>t DEF SIGALRM, SIGCHLD
<1>4. CASE s = SIGCHLD /\ h = "IGN" /\ Zombies(curr) # {}
  <2>1. /\ SignalSend(init, SIGCHLD) /\ curr # init
        /\ parent' = [c \in Slot |-> IF c \in Zombies(curr) THEN init ELSE parent[c]]
    BY <1>3, <1>4 DEF SysSignal
  <2>2. (\A u \in Slot : WaitKept(u)) /\ queue'[init] # XWaitQ
    BY <1>1, <2>1, SendWaits DEF Alive
  <2>3. ParentAlive'
    BY <1>1, <2>1 DEF ChildInv, ChildrenReaped, ParentAlive, Alive
  <2>4. ZombieHasReaper'
    <3> SUFFICES ASSUME NEW z \in Slot, used[z], exited[z]
                 PROVE  handler'[parent'[z]][SIGCHLD] # "IGN"
      BY <1>1 DEF ZombieHasReaper
    <3>1. CASE z \in Zombies(curr)
      BY <1>3, <2>1, <3>1
    <3>2. CASE z \notin Zombies(curr)
      <4>1. parent'[z] = parent[z] /\ parent[z] # curr /\ parent[z] \in Slot
        BY <1>t, <2>1, <3>2 DEF Zombies, Children
      <4> QED BY <1>3, <4>1 DEF ChildInv, ChildrenReaped, ZombieHasReaper
    <3> QED BY <3>1, <3>2
  <2>5. NoMissedChild'
    <3> SUFFICES ASSUME NEW p \in Slot, queue'[p] = XWaitQ, NEW z \in Zombies(p)'
                 PROVE  wpid'[p] \notin {NoTask, z}
      BY DEF NoMissedChild
    <3>1. queue[p] = XWaitQ /\ wpid'[p] = wpid[p] /\ p # init
      BY <2>2 DEF WaitKept
    <3>2. z \in Slot /\ used[z] /\ exited[z] /\ parent'[z] = p
      BY <1>1 DEF Zombies, Children
    <3>3. z \in Zombies(p)
      BY <2>1, <3>1, <3>2 DEF Zombies, Children
    <3> QED BY <3>1, <3>3 DEF ChildInv, ChildrenReaped, NoMissedChild
  <2>6. WaitersReachable'
    BY <1>1, <1>3, <2>2 DEF ChildInv, WaitersReachable, WaitKept
  <2> QED BY <2>3, <2>4, <2>5, <2>6 DEF ChildInv, ChildrenReaped
<1>5. CASE ~(s = SIGCHLD /\ h = "IGN" /\ Zombies(curr) # {})
  <2>1. UNCHANGED <<parent, queue, paused>>
    BY <1>5 DEF SysSignal, runvars
  <2>2. ParentAlive'
    BY <1>1, <2>1 DEF ChildInv, ChildrenReaped, ParentAlive, Alive
  <2>3. ZombieHasReaper'
    <3> SUFFICES ASSUME NEW z \in Slot, used[z], exited[z]
                 PROVE  handler'[parent[z]][SIGCHLD] # "IGN"
      BY <1>1, <2>1 DEF ZombieHasReaper
    <3>1. handler[parent[z]][SIGCHLD] # "IGN" /\ parent[z] \in Slot
      BY <1>t DEF ChildInv, ChildrenReaped, ZombieHasReaper
    <3>2. CASE parent[z] # curr \/ s # SIGCHLD
      BY <1>3, <3>1, <3>2
    <3>3. CASE parent[z] = curr /\ s = SIGCHLD
      <4>1. z \in Zombies(curr)
        BY <3>3 DEF Zombies, Children
      <4> QED BY <1>3, <1>5, <3>3, <4>1
    <3> QED BY <3>2, <3>3
  <2>4. NoMissedChild'
    BY <1>1, <2>1 DEF ChildInv, ChildrenReaped, NoMissedChild, Zombies, Children
  <2>5. WaitersReachable'
    BY <1>1, <1>3, <2>1 DEF ChildInv, WaitersReachable
  <2> QED BY <2>2, <2>3, <2>4, <2>5 DEF ChildInv, ChildrenReaped
<1>6. QED
  BY <1>4, <1>5

\* The other system calls.
LEMMA CallChildren ==
    ASSUME TInv, ChildInv,
           \/ SysExit \/ SysPause \/ SysExec
           \/ \E ts, r : SysKill(ts, r)
           \/ \E inc : SysNice(inc)
           \/ \E on : SysAlarm(on)
           \/ \E c \in WaitQueue \ {XWaitQ} : SysBlock(c) \/ SysWake(c)
    PROVE  ChildInv'
<1> USE DEF At
<1>1. mode = "user" /\ TypeOK /\ XWaitQ # NoQueue
  BY TaskAssumption
     DEF TInv, SysExit, SysPause, SysExec, SysKill, SysNice, SysAlarm, SysBlock, SysWake, NoQueue
<1>2. curr \in Slot
  BY <1>1, Running
<1>t. /\ bq \in [Slot -> WaitQueue \cup {NoQueue}]
      /\ \A u \in Slot : bq[u] # XWaitQ
  BY <1>1 DEF TypeOK, ChildInv, WaitersReachable
<1>3. CASE SysPause
  <2>1. /\ UNCHANGED <<used, exited, parent, handler, wpid, bq>>
        /\ TaskSuspend(NoQueue, WAIT_INTR, "leave", "leave")
    BY <1>3 DEF SysPause, sigvars
  <2>2. (\A u \in Slot : WaitKept(u)) /\ mode' \in {"leave", "pick"}
    BY <1>1, <1>2, <2>1, SuspendWaits
  <2> QED BY <1>t, <2>1, <2>2, FamilyStep DEF HandlersKept
<1>4. ASSUME NEW c \in WaitQueue \ {XWaitQ}, SysBlock(c) PROVE ChildInv'
  <2>1. /\ UNCHANGED <<used, exited, parent, handler, wpid>> /\ bq' = [bq EXCEPT ![curr] = c]
        /\ TaskSuspend(c, WaitType(c), "block", "leave")
    BY <1>4 DEF SysBlock, sigvars
  <2>2. (\A u \in Slot : WaitKept(u)) /\ mode' \in {"leave", "pick"}
    BY <1>2, <2>1, SuspendWaits
  <2>3. \A u \in Slot : bq'[u] # XWaitQ
    BY <1>2, <1>t, <2>1
  <2> QED BY <2>1, <2>2, <2>3, FamilyStep DEF HandlersKept
<1>5. CASE SysExit \/ SysExec \/ (\E ts, r : SysKill(ts, r)) \/ (\E inc : SysNice(inc))
           \/ (\E on : SysAlarm(on)) \/ (\E c : SysWake(c))
  <2>1. UNCHANGED <<used, exited, parent, handler, queue, paused, wpid, bq>> /\ mode' # "notify"
    BY <1>5 DEF SysExit, SysExec, SysKill, SysNice, SysAlarm, SysWake, tabvars, runvars, sigvars
  <2> QED BY <1>t, <2>1, FamilyStep DEF WaitKept, HandlersKept
<1>6. QED
  BY <1>3, <1>4, <1>5

\* Interrupts wake sleepers and send SIGALRM.
LEMMA InterruptChildren == ASSUME TInv, ChildInv, Interrupt PROVE ChildInv'
<1>1. TypeOK /\ SIGALRM \in Sig /\ (AfterIntr = "notify" => mode = "notify")
  BY DEF TInv, Sig, AfterIntr
<1>t. \A u \in Slot : bq[u] # XWaitQ
  BY DEF ChildInv, WaitersReachable
<1>2. CASE ClockTick \/ \E c : IntrBegin(c)
  <2>1. /\ UNCHANGED <<used, exited, parent, handler, queue, paused, wpid, bq, curr>>
        /\ mode' \in {mode, AfterIntr}
    BY <1>2 DEF ClockTick, IntrBegin, tabvars, runvars, sigvars
  <2> QED BY <1>1, <1>t, <2>1, FamilyStep DEF WaitKept, HandlersKept
<1>3. ASSUME NEW t \in Slot, NEW again \in BOOLEAN, ClockAlarm(t, again) PROVE ChildInv'
  <2>1. /\ UNCHANGED <<used, exited, parent, handler, wpid, bq, curr>> /\ mode' = AfterIntr
        /\ SignalSend(t, SIGALRM)
    BY <1>3 DEF ClockAlarm
  <2>2. \A u \in Slot : WaitKept(u)
    BY <1>1, <2>1, SendWaits
  <2> QED BY <1>1, <1>t, <2>1, <2>2, FamilyStep DEF HandlersKept
<1>4. CASE IntrWake
  <2>1. /\ UNCHANGED <<used, exited, parent, handler, wpid, bq, curr>>
        /\ mode' \in {mode, AfterIntr}
    BY <1>4 DEF IntrWake, tabvars, sigvars
  <2>2. \A u \in Slot : WaitKept(u)
    <3>1. CASE q[irq] = <<>>
      BY <1>4, <2>1, <3>1 DEF IntrWake, runvars, WaitKept
    <3>2. CASE q[irq] # <<>>
      <4>1. TaskResume(Head(q[irq])) /\ irq \in Queue
        BY <1>1, <1>4, <3>2 DEF IntrWake, TypeOK, Queue
      <4>2. Head(q[irq]) \in Slot
        BY <3>2, <4>1, HeadOfQueue
      <4> QED BY <2>1, <4>1, <4>2, ResumeWaits
    <3> QED BY <3>1, <3>2
  <2> QED BY <1>1, <1>t, <2>1, <2>2, FamilyStep DEF HandlersKept
<1>5. QED
  BY <1>2, <1>3, <1>4 DEF Interrupt

(* After boot init is alone, takes SIGCHLD and waits for nobody. *)
LEMMA InitChildren == ASSUME Init PROVE ChildInv
<1>1. init \in Slot /\ SIGCHLD \in Sig /\ XWaitQ # NoQueue
  BY TaskAssumption, QueueFacts DEF Sig, NoQueue
<1>2. handler[init][SIGCHLD] = "DFL"
  BY <1>1 DEF Init
<1>3. QED
  BY <1>1, <1>2 DEF Init, ChildInv, ChildrenReaped, ParentAlive, ZombieHasReaper, NoMissedChild,
     Zombies, Children, WaitersReachable, Alive

(* Every step keeps ChildInv. *)
LEMMA NextChildren == ASSUME TInv, InitSafe, ChildInv, [Next]_vars PROVE ChildInv'
<1>1. CASE Kernel
  <2>1. Outcome("newtask") \subseteq BOOLEAN /\ TRUE \in BOOLEAN
    BY DEF Outcome
  <2> QED BY <1>1, <2>1, ReturnChildren, GiveChildren, TellParent, PickChildren, EntryChildren,
          LoopChildren DEF Kernel
<1>2. CASE Syscall
  <2>1. Outcome("fork") \subseteq BOOLEAN /\ TrapSig \subseteq Sig /\ TRUE \in BOOLEAN
    BY TaskAssumption DEF Outcome
  <2> QED BY <1>2, <2>1, CreateChildren, ReapChildren, WaitChildren, TrapChildren, CallChildren
          DEF Syscall
<1>3. CASE Interrupt
  BY <1>3, InterruptChildren
<1>4. CASE UNCHANGED vars
  <2>1. UNCHANGED <<used, exited, parent, handler, queue, paused, wpid, bq, mode, curr>>
    BY <1>4 DEF vars, tabvars, runvars, sigvars
  <2>2. \A u \in Slot : bq[u] # XWaitQ
    BY DEF ChildInv, WaitersReachable
  <2> QED BY <2>1, <2>2, FamilyStep DEF WaitKept, HandlersKept
<1>5. QED
  BY <1>1, <1>2, <1>3, <1>4 DEF Next

\* A dead child is never forgotten: its parent lives (task_exit gives orphans to
\* init), takes SIGCHLD (else init gets the child, in task_exit and sys_signal), and
\* does not sleep in sys___xwait while it waits for a child that is already dead.
THEOREM ChildrenCared == Spec => []ChildrenReaped
<1>1. SafeInv /\ ChildInv /\ [Next]_vars => ChildInv'
  BY NextChildren DEF SafeInv
<1>2. ChildInv => ChildrenReaped
  BY DEF ChildInv
<1>3. QED
  BY <1>1, <1>2, InitChildren, SafeInvAlways, PTL DEF Spec

-----------------------------------------------------------------------------
(* Alarms.                                                                 *)

\* A time in ticks.
Moment(tm, tc) == tm * HZ + tc

\* Times are compared as their ticks are.
LEMMA MomentOrder ==
    ASSUME AlarmAssumption, NEW tm \in Nat, NEW tc \in 0..(HZ - 1), NEW tm2 \in Nat,
           NEW tc2 \in 0..(HZ - 1)
    PROVE  /\ Moment(tm, tc) \in Nat
           /\ Before(tm, tc, tm2, tc2) <=> Moment(tm, tc) < Moment(tm2, tc2)
           /\ Reached(tm, tc, [tm |-> tm2, tc |-> tc2]) <=> Moment(tm, tc) <= Moment(tm2, tc2)
<1>1. HZ \in Nat \ {0}
  BY DEF AlarmAssumption
<1>2. ASSUME NEW a \in Nat, NEW b \in Nat, a < b PROVE a * HZ + HZ <= b * HZ
  <2>1. PICK d \in Nat : b = a + 1 + d
    <3>1. b - a - 1 \in Nat /\ b = a + 1 + (b - a - 1)
      BY <1>2
    <3>2. QED
      BY <3>1
  <2>2. b * HZ = a * HZ + HZ + d * HZ /\ d * HZ \in Nat /\ a * HZ \in Nat
    BY <1>1, <2>1
  <2>3. QED
    BY <1>1, <2>2
<1>3. tm * HZ \in Nat /\ tm2 * HZ \in Nat
  BY <1>1
<1>4. CASE tm < tm2
  <2>1. tm * HZ + HZ <= tm2 * HZ
    BY <1>2, <1>4
  <2>2. QED
    BY <1>1, <1>3, <1>4, <2>1 DEF Moment, Before, Reached
<1>5. CASE tm2 < tm
  <2>1. tm2 * HZ + HZ <= tm * HZ
    BY <1>2, <1>5
  <2>2. QED
    BY <1>1, <1>3, <1>5, <2>1 DEF Moment, Before, Reached
<1>6. CASE tm = tm2
  BY <1>1, <1>3, <1>6 DEF Moment, Before, Reached
<1>7. QED
  BY <1>4, <1>5, <1>6

\* Carrying the seconds does not change the time.
LEMMA CarriedRight ==
    ASSUME AlarmAssumption, NEW tm \in Nat, NEW tc \in Nat
    PROVE  /\ Carried(tm, tc).tm \in Nat /\ Carried(tm, tc).tm >= tm
           /\ Carried(tm, tc).tc \in 0..(HZ - 1)
           /\ Moment(Carried(tm, tc).tm, Carried(tm, tc).tc) = tm * HZ + tc
<1>1. HZ \in Nat \ {0}
  BY DEF AlarmAssumption
<1>2. tc \div HZ \in Nat /\ tc % HZ \in 0..(HZ - 1) /\ tc % HZ = tc - HZ * (tc \div HZ)
  <2>1. tc % HZ \in 0..(HZ - 1)
    BY <1>1
  <2>2. tc % HZ = tc - HZ * (tc \div HZ)
    BY <1>1
  <2>3. tc \div HZ \in Nat
    BY <1>1
  <2>4. QED
    BY <2>1, <2>2, <2>3
<1>3. PICK secs \in Nat, r \in 0..(HZ - 1) : secs = tc \div HZ /\ r = tc % HZ /\ r = tc - HZ * secs
  BY <1>2
<1>4. Carried(tm, tc) = [tm |-> tm + secs, tc |-> r]
  BY <1>3 DEF Carried
<1>5. (tm + secs) * HZ + r = tm * HZ + tc
  BY <1>1, <1>3
<1>6. QED
  BY <1>1, <1>3, <1>4, <1>5 DEF Moment

\* The ticks a call asks for.
Asked(c) == IF c.micro THEN (c.d * HZ) \div U ELSE c.d * HZ

\* A call knows the time it began at; the alarm it has stored is that far ahead of it.
CallRight ==
    call # NoCall =>
        /\ call.d \in IF call.micro THEN Usecs ELSE Secs
        /\ Moment(time, ticks) = Moment(call.tm, call.tc) + call.in
        /\ call.step # "cancel" => /\ call.d # 0 /\ want[call.t] = Asked(call)
                                   /\ want[call.t] # 0 => age[call.t] = call.in
        /\ call.step = "store" => alarm[call.t] = 0
        /\ call.step = "global" =>
              /\ call.micro /\ alarm[call.t] # 0
              /\ Moment(alarm[call.t], aticks[call.t]) = Moment(call.tm, call.tc) + want[call.t]

\* An alarm is as many ticks ahead as have not passed of those asked for, or more.
AheadRight ==
    ~jumped => \A t \in Task : alarm[t] # 0 /\ want[t] # 0 =>
        Moment(alarm[t], aticks[t]) + age[t] >= want[t] + Moment(time, ticks)

\* The inductive invariant of the alarms.
AlarmInv == AlarmTypes /\ Covered /\ CallRight /\ AheadRight

\* Times that are compared.
LEMMA AlarmTimes ==
    ASSUME AlarmAssumption, AlarmTypes
    PROVE  /\ Moment(time, ticks) \in Nat
           /\ \A t \in Task : Moment(alarm[t], aticks[t]) \in Nat
           /\ Moment(gtime, gticks) \in Nat
           /\ \A t \in Task : Before(alarm[t], aticks[t], gtime, gticks)
                  <=> Moment(alarm[t], aticks[t]) < Moment(gtime, gticks)
           /\ call # NoCall => Moment(call.tm, call.tc) \in Nat
<1>1. time \in Nat /\ ticks \in 0..(HZ - 1) /\ gtime \in Nat /\ gticks \in 0..(HZ - 1)
  BY DEF AlarmTypes
<1>2. \A t \in Task : alarm[t] \in Nat /\ aticks[t] \in 0..(HZ - 1)
  BY DEF AlarmTypes
<1>3. call # NoCall => call.tm \in Nat /\ call.tc \in 0..(HZ - 1)
  BY DEF AlarmTypes
<1>4. QED
  BY <1>1, <1>2, <1>3, MomentOrder

\* A call asks for a number of ticks, and ualarm() for more than come during it.
LEMMA AskedIs ==
    ASSUME AlarmAssumption, LongDelays, AlarmTypes, CallRight, call # NoCall
    PROVE  /\ Asked(call) \in Nat
           /\ call.micro /\ call.d # 0 => Asked(call) > MaxIn
           /\ call.d \in Nat
<1>1. HZ \in Nat \ {0} /\ U \in Nat \ {0} /\ Usecs \in SUBSET Nat /\ Secs \in SUBSET Nat
  BY DEF AlarmAssumption
<1>2. call.d \in IF call.micro THEN Usecs ELSE Secs
  BY DEF CallRight
<1>3. call.d \in Nat
  BY <1>1, <1>2
<1>4. call.d * HZ \in Nat
  BY <1>1, <1>3
<1>5. (call.d * HZ) \div U \in Nat
  BY <1>1, <1>4
<1>6. call.micro /\ call.d # 0 => (call.d * HZ) \div U > MaxIn
  BY <1>2 DEF LongDelays
<1>7. QED
  BY <1>3, <1>4, <1>5, <1>6 DEF Asked

\* Reading the clock.
LEMMA EnterRight ==
    ASSUME AlarmAssumption, AlarmInv, NEW t \in Task, NEW micro \in BOOLEAN, NEW rep \in BOOLEAN,
           NEW d \in IF micro THEN Usecs ELSE Secs, Enter(t, micro, d, rep)
    PROVE  AlarmInv'
<1>1. /\ call = NoCall
      /\ call' = [step |-> "cancel", t |-> t, micro |-> micro, d |-> d, rep |-> rep,
                  tm |-> time, tc |-> ticks, in |-> 0]
      /\ UNCHANGED <<time, ticks, alarm, aticks, repeat, gtime, gticks, sig, age, want, jumped>>
  BY DEF Enter
<1>2. AlarmTypes'
  <2>1. call' \in [step : Steps, t : Task, micro : BOOLEAN, rep : BOOLEAN, d : Secs \cup Usecs,
                   tm : 1..MaxTime, tc : 0..(HZ - 1), in : 0..MaxIn]
    BY <1>1 DEF AlarmInv, AlarmTypes, Steps, AlarmAssumption
  <2>2. QED
    BY <1>1, <2>1 DEF AlarmInv, AlarmTypes
<1>3. Covered'
  BY <1>1 DEF AlarmInv, Covered
<1>4. CallRight'
  <2>1. Moment(time, ticks) \in Nat
    BY AlarmTimes DEF AlarmInv
  <2>2. QED
    BY <1>1, <2>1 DEF CallRight
<1>5. AheadRight'
  BY <1>1 DEF AlarmInv, AheadRight
<1>6. QED
  BY <1>2, <1>3, <1>4, <1>5 DEF AlarmInv

\* The old alarm is gone, and it is written down what was asked for.
LEMMA CancelRight ==
    ASSUME AlarmAssumption, LongDelays, AlarmInv, Cancel
    PROVE  AlarmInv'
<1> DEFINE t == call.t
<1>1. call # NoCall
  BY DEF Cancel, NoCall
<1>2. /\ call \in [step : Steps, t : Task, micro : BOOLEAN, rep : BOOLEAN, d : Secs \cup Usecs,
                   tm : 1..MaxTime, tc : 0..(HZ - 1), in : 0..MaxIn]
      /\ call.step = "cancel"
  BY <1>1 DEF Cancel, AlarmInv, AlarmTypes
<1>3. Asked(call) \in Nat /\ call.d \in Nat
  BY <1>1, AskedIs DEF AlarmInv
<1>4. /\ alarm' = [alarm EXCEPT ![t] = 0] /\ t \in Task
      /\ UNCHANGED <<time, ticks, gtime, gticks, sig, jumped>>
  BY <1>2 DEF Cancel
<1>5. CASE call.d = 0
  <2>1. /\ aticks' = [aticks EXCEPT ![t] = 0] /\ call' = NoCall
        /\ age' = [age EXCEPT ![t] = 0] /\ want' = [want EXCEPT ![t] = 0] /\ UNCHANGED repeat
    BY <1>5 DEF Cancel
  <2>2. AlarmTypes'
    BY <1>4, <2>1 DEF AlarmInv, AlarmTypes, AlarmAssumption
  <2>3. Covered'
    BY <1>2, <1>4, <2>1 DEF AlarmInv, Covered, AlarmTypes
  <2>4. AheadRight'
    BY <1>4, <2>1 DEF AlarmInv, AheadRight, AlarmTypes
  <2>5. CallRight'
    BY <2>1 DEF CallRight
  <2>6. QED
    BY <2>2, <2>3, <2>4, <2>5 DEF AlarmInv
<1>6. CASE call.d # 0
  <2>1. /\ call' = [call EXCEPT !.step = "store"]
        /\ repeat' = IF call.micro THEN [repeat EXCEPT ![t] = Interval(call.d, call.rep)] ELSE repeat
        /\ age' = [age EXCEPT ![t] = call.in]
        /\ want' = [want EXCEPT ![t] = Asked(call)]
        /\ UNCHANGED aticks
    BY <1>6 DEF Cancel, Asked
  <2>2. Interval(call.d, call.rep) \in Nat
    <3>1. HZ \in Nat \ {0} /\ U \in Nat \ {0}
      BY DEF AlarmAssumption
    <3>2. call.d * HZ + HZ - 1 \in Nat
      BY <1>3, <3>1
    <3>3. (call.d * HZ + HZ - 1) \div U \in Nat
      BY <3>1, <3>2
    <3>4. QED
      BY <3>3 DEF Interval
  <2>3. /\ call' \in [step : Steps, t : Task, micro : BOOLEAN, rep : BOOLEAN, d : Secs \cup Usecs,
                      tm : 1..MaxTime, tc : 0..(HZ - 1), in : 0..MaxIn]
        /\ call'.step = "store" /\ call'.t = t /\ call'.d = call.d /\ call'.micro = call.micro
        /\ call'.tm = call.tm /\ call'.tc = call.tc /\ call'.in = call.in
    BY <1>2, <2>1 DEF Steps
  <2>4. AlarmTypes'
    <3>1. alarm' \in [Task -> Nat] /\ age' \in [Task -> Nat] /\ want' \in [Task -> Nat]
      BY <1>2, <1>3, <1>4, <2>1 DEF AlarmInv, AlarmTypes
    <3>2. repeat' \in [Task -> Nat]
      BY <2>1, <2>2 DEF AlarmInv, AlarmTypes
    <3>3. QED
      BY <1>4, <2>1, <2>3, <3>1, <3>2 DEF AlarmInv, AlarmTypes
  <2>5. Covered'
    BY <1>2, <1>4, <2>1 DEF AlarmInv, Covered, AlarmTypes
  <2>6. AheadRight'
    BY <1>4, <2>1 DEF AlarmInv, AheadRight, AlarmTypes
  <2>7. CallRight'
    <3>1. Asked(call') = Asked(call)
      BY <2>3 DEF Asked
    <3>2. want'[t] = Asked(call) /\ age'[t] = call.in /\ alarm'[t] = 0
      BY <1>4, <2>1 DEF AlarmInv, AlarmTypes
    <3>3. call.d \in (IF call.micro THEN Usecs ELSE Secs)
          /\ Moment(time, ticks) = Moment(call.tm, call.tc) + call.in
      BY <1>1 DEF AlarmInv, CallRight
    <3>4. QED
      BY <1>4, <1>6, <2>3, <3>1, <3>2, <3>3 DEF CallRight
  <2>8. QED
    BY <2>4, <2>5, <2>6, <2>7 DEF AlarmInv
<1>7. QED
  BY <1>5, <1>6

\* Covering in ticks, after a step.
LEMMA CoveredIs ==
    ASSUME AlarmAssumption, AlarmTypes',
           \A x \in Task : alarm'[x] # 0 /\ ~(call' # NoCall /\ call'.t = x /\ call'.step = "global") =>
               gtime' # 0 /\ Moment(gtime', gticks') <= Moment(alarm'[x], aticks'[x])
    PROVE  Covered'
<1>1. gtime' \in Nat /\ gticks' \in 0..(HZ - 1)
  BY DEF AlarmTypes
<1>2. ASSUME NEW x \in Task, alarm'[x] # 0 /\ ~(call' # NoCall /\ call'.t = x /\ call'.step = "global")
      PROVE  gtime' # 0 /\ ~Before(alarm'[x], aticks'[x], gtime', gticks')
  <2>1. alarm'[x] \in Nat /\ aticks'[x] \in 0..(HZ - 1)
    BY DEF AlarmTypes
  <2>2. Moment(gtime', gticks') \in Nat /\ Moment(alarm'[x], aticks'[x]) \in Nat
    BY <1>1, <2>1, MomentOrder
  <2>3. Before(alarm'[x], aticks'[x], gtime', gticks')
           <=> Moment(alarm'[x], aticks'[x]) < Moment(gtime', gticks')
    BY <1>1, <2>1, MomentOrder
  <2>4. QED
    BY <1>2, <2>2, <2>3
<1>3. QED
  BY <1>2 DEF Covered

\* Covering in ticks, before it.
LEMMA CoveredAt ==
    ASSUME AlarmAssumption, AlarmTypes, Covered, NEW x \in Task, alarm[x] # 0,
           ~(call # NoCall /\ call.t = x /\ call.step = "global")
    PROVE  gtime # 0 /\ Moment(gtime, gticks) <= Moment(alarm[x], aticks[x])
<1>1. gtime # 0 /\ ~Before(alarm[x], aticks[x], gtime, gticks)
  BY DEF Covered
<1>2. Moment(gtime, gticks) \in Nat /\ Moment(alarm[x], aticks[x]) \in Nat
  BY AlarmTimes
<1>3. Before(alarm[x], aticks[x], gtime, gticks)
          <=> Moment(alarm[x], aticks[x]) < Moment(gtime, gticks)
  BY AlarmTimes
<1>4. QED
  BY <1>1, <1>2, <1>3

\* The global time becomes no later, and not later than the alarm that is set.
LEMMA SetAlarmRight ==
    ASSUME AlarmAssumption, AlarmTypes, NEW tm \in Nat \ {0}, NEW tc \in 0..(HZ - 1), set_alarm(tm, tc)
    PROVE  /\ gtime' \in Nat \ {0} /\ gticks' \in 0..(HZ - 1)
           /\ Moment(gtime', gticks') \in Nat
           /\ Moment(gtime', gticks') <= Moment(tm, tc)
           /\ gtime # 0 => Moment(gtime', gticks') <= Moment(gtime, gticks)
<1>1. gtime \in Nat /\ gticks \in 0..(HZ - 1)
  BY DEF AlarmTypes
<1>2. /\ Moment(tm, tc) \in Nat /\ Moment(gtime, gticks) \in Nat
      /\ Before(tm, tc, gtime, gticks) <=> Moment(tm, tc) < Moment(gtime, gticks)
  BY <1>1, MomentOrder
<1>3. CASE Sooner(tm, tc)
  <2>1. gtime' = tm /\ gticks' = tc
    BY <1>3 DEF set_alarm
  <2>2. QED
    BY <1>2, <1>3, <2>1 DEF Sooner
<1>4. CASE ~Sooner(tm, tc)
  <2>1. gtime' = gtime /\ gticks' = gticks
    BY <1>4 DEF set_alarm
  <2>2. QED
    BY <1>1, <1>2, <1>4, <2>1 DEF Sooner
<1>5. QED
  BY <1>3, <1>4

\* alarm(): the alarm and the global time are set.
LEMMA StoreAlarmRight ==
    ASSUME AlarmAssumption, LongDelays, AlarmInv, StoreAlarm
    PROVE  AlarmInv'
<1>1. call # NoCall
  BY DEF StoreAlarm, NoCall
<1>2. PICK t \in Task, tm \in Nat \ {0}, tc \in 0..(HZ - 1), d \in Nat :
          t = call.t /\ tm = call.tm /\ tc = call.tc /\ d = call.d
  <2>1. call.t \in Task /\ call.tm \in 1..MaxTime /\ call.tc \in 0..(HZ - 1)
    BY <1>1 DEF AlarmInv, AlarmTypes
  <2>2. call.tm \in Nat \ {0}
    BY <2>1 DEF AlarmAssumption
  <2>3. call.d \in Nat
    BY <1>1, AskedIs DEF AlarmInv
  <2>4. QED
    BY <2>1, <2>2, <2>3
<1>3. /\ alarm' = [alarm EXCEPT ![t] = tm + d]
      /\ aticks' = [aticks EXCEPT ![t] = tc]
      /\ set_alarm(tm + d, tc)
      /\ call' = NoCall
      /\ UNCHANGED <<time, ticks, repeat, sig, age, want, jumped>>
      /\ call.step = "store" /\ ~call.micro
  BY <1>2 DEF StoreAlarm
<1>4. HZ \in Nat \ {0} /\ tm + d \in Nat \ {0}
  BY DEF AlarmAssumption
<1>5. /\ gtime' \in Nat \ {0} /\ gticks' \in 0..(HZ - 1)
      /\ Moment(gtime', gticks') \in Nat
      /\ Moment(gtime', gticks') <= Moment(tm + d, tc)
      /\ gtime # 0 => Moment(gtime', gticks') <= Moment(gtime, gticks)
  BY <1>3, <1>4, SetAlarmRight DEF AlarmInv
<1>6. AlarmTypes'
  BY <1>3, <1>4, <1>5 DEF AlarmInv, AlarmTypes
<1>7. alarm'[t] = tm + d /\ aticks'[t] = tc
      /\ \A x \in Task : x # t => alarm'[x] = alarm[x] /\ aticks'[x] = aticks[x]
  BY <1>3 DEF AlarmInv, AlarmTypes
<1>8. Covered'
  <2>1. ASSUME NEW x \in Task, alarm'[x] # 0
        PROVE  gtime' # 0 /\ Moment(gtime', gticks') <= Moment(alarm'[x], aticks'[x])
    <3>1. CASE x = t
      BY <1>5, <1>7, <3>1
    <3>2. CASE x # t
      <4>1. gtime # 0 /\ Moment(gtime, gticks) <= Moment(alarm[x], aticks[x])
        BY <1>3, <1>7, <2>1, <3>2, CoveredAt DEF AlarmInv
      <4>2. Moment(gtime, gticks) \in Nat /\ Moment(alarm[x], aticks[x]) \in Nat
        BY AlarmTimes DEF AlarmInv
      <4>3. Moment(gtime', gticks') <= Moment(alarm[x], aticks[x])
        BY <1>5, <4>1, <4>2
      <4>4. QED
        BY <1>5, <1>7, <3>2, <4>3
    <3>3. QED
      BY <3>1, <3>2
  <2>2. QED
    BY <1>6, <2>1, CoveredIs
<1>9. AheadRight'
  <2>1. ASSUME ~jumped, NEW x \in Task, alarm'[x] # 0 /\ want[x] # 0
        PROVE  Moment(alarm'[x], aticks'[x]) + age[x] >= want[x] + Moment(time, ticks)
    <3>1. CASE x = t
      <4>1. /\ want[t] = d * HZ /\ age[t] = call.in
            /\ Moment(time, ticks) = Moment(tm, tc) + call.in
        BY <1>1, <1>2, <1>3, <2>1, <3>1 DEF AlarmInv, CallRight, Asked
      <4>2. Moment(tm + d, tc) = Moment(tm, tc) + d * HZ
        BY <1>4 DEF Moment
      <4>3. call.in \in Nat /\ d * HZ \in Nat /\ Moment(tm, tc) \in Nat
        <5>1. call.in \in 0..MaxIn
          BY <1>1 DEF AlarmInv, AlarmTypes
        <5>2. call.in \in Nat
          BY <5>1 DEF AlarmAssumption
        <5>3. d * HZ \in Nat
          BY <1>4
        <5>4. Moment(tm, tc) \in Nat
          BY MomentOrder
        <5>5. QED
          BY <5>2, <5>3, <5>4
      <4>4. Moment(alarm'[t], aticks'[t]) = Moment(tm, tc) + d * HZ
        BY <1>7, <4>2
      <4>5. QED
        BY <3>1, <4>1, <4>3, <4>4
    <3>2. CASE x # t
      BY <1>7, <2>1, <3>2 DEF AlarmInv, AheadRight
    <3>3. QED
      BY <3>1, <3>2
  <2>2. QED
    BY <1>3, <2>1 DEF AheadRight
<1>10. CallRight'
  BY <1>3 DEF CallRight
<1>11. QED
  BY <1>6, <1>8, <1>9, <1>10 DEF AlarmInv

\* ualarm(): the task's alarm is set.
LEMMA StoreUalarmRight ==
    ASSUME AlarmAssumption, LongDelays, AlarmInv, StoreUalarm
    PROVE  AlarmInv'
<1>1. call # NoCall
  BY DEF StoreUalarm, NoCall
<1>2. PICK t \in Task, tm \in Nat \ {0}, tc \in 0..(HZ - 1) :
          t = call.t /\ tm = call.tm /\ tc = call.tc
  <2>1. call.t \in Task /\ call.tm \in 1..MaxTime /\ call.tc \in 0..(HZ - 1)
    BY <1>1 DEF AlarmInv, AlarmTypes
  <2>2. call.tm \in Nat \ {0}
    BY <2>1 DEF AlarmAssumption
  <2>3. QED
    BY <2>1, <2>2
<1>3. PICK a \in Nat : a = Asked(call)
  BY <1>1, AskedIs DEF AlarmInv
<1>4. /\ call.step = "store" /\ call.micro
      /\ alarm' = [alarm EXCEPT ![t] = Carried(tm, tc + a).tm]
      /\ aticks' = [aticks EXCEPT ![t] = Carried(tm, tc + a).tc]
      /\ call' = [call EXCEPT !.step = "global"]
      /\ UNCHANGED <<time, ticks, repeat, gtime, gticks, sig, age, want, jumped>>
  <2>1. call.micro
    BY DEF StoreUalarm
  <2>2. a = (call.d * HZ) \div U
    BY <1>3, <2>1 DEF Asked
  <2>3. QED
    BY <1>2, <2>2 DEF StoreUalarm
<1>5. HZ \in Nat \ {0} /\ tc + a \in Nat
  BY DEF AlarmAssumption
<1>6. PICK atm \in Nat \ {0}, atc \in 0..(HZ - 1) :
          /\ atm = Carried(tm, tc + a).tm /\ atc = Carried(tm, tc + a).tc
          /\ Moment(atm, atc) = Moment(tm, tc) + a
  <2>1. /\ Carried(tm, tc + a).tm \in Nat /\ Carried(tm, tc + a).tm >= tm
        /\ Carried(tm, tc + a).tc \in 0..(HZ - 1)
        /\ Moment(Carried(tm, tc + a).tm, Carried(tm, tc + a).tc) = tm * HZ + (tc + a)
    BY <1>5, CarriedRight
  <2>2. tm * HZ + (tc + a) = Moment(tm, tc) + a
    <3>1. tm * HZ \in Nat
      BY <1>5
    <3>2. QED
      BY <3>1 DEF Moment
  <2>3. Carried(tm, tc + a).tm \in Nat \ {0}
    BY <2>1
  <2>4. QED
    BY <2>1, <2>2, <2>3
<1>7. /\ alarm' = [alarm EXCEPT ![t] = atm] /\ aticks' = [aticks EXCEPT ![t] = atc]
      /\ alarm'[t] = atm /\ aticks'[t] = atc
      /\ \A x \in Task : x # t => alarm'[x] = alarm[x] /\ aticks'[x] = aticks[x]
  BY <1>4, <1>6 DEF AlarmInv, AlarmTypes
<1>8. /\ call' \in [step : Steps, t : Task, micro : BOOLEAN, rep : BOOLEAN, d : Secs \cup Usecs,
                    tm : 1..MaxTime, tc : 0..(HZ - 1), in : 0..MaxIn]
      /\ call'.step = "global" /\ call'.t = t /\ call'.d = call.d /\ call'.micro = call.micro
      /\ call'.tm = tm /\ call'.tc = tc /\ call'.in = call.in /\ call' # NoCall
  <2>1. call \in [step : Steps, t : Task, micro : BOOLEAN, rep : BOOLEAN, d : Secs \cup Usecs,
                  tm : 1..MaxTime, tc : 0..(HZ - 1), in : 0..MaxIn]
    BY <1>1 DEF AlarmInv, AlarmTypes
  <2>2. /\ call' \in [step : Steps, t : Task, micro : BOOLEAN, rep : BOOLEAN, d : Secs \cup Usecs,
                      tm : 1..MaxTime, tc : 0..(HZ - 1), in : 0..MaxIn]
        /\ call'.step = "global" /\ call'.t = t /\ call'.d = call.d /\ call'.micro = call.micro
        /\ call'.tm = tm /\ call'.tc = tc /\ call'.in = call.in
    BY <1>2, <1>4, <2>1 DEF Steps
  <2>3. QED
    BY <2>2 DEF NoCall
<1>9. AlarmTypes'
  BY <1>4, <1>7, <1>8 DEF AlarmInv, AlarmTypes
<1>10. Covered'
  <2>1. ASSUME NEW x \in Task,
               alarm'[x] # 0 /\ ~(call' # NoCall /\ call'.t = x /\ call'.step = "global")
        PROVE  gtime' # 0 /\ Moment(gtime', gticks') <= Moment(alarm'[x], aticks'[x])
    <3>1. x # t
      BY <1>8, <2>1
    <3>2. gtime # 0 /\ Moment(gtime, gticks) <= Moment(alarm[x], aticks[x])
      BY <1>4, <1>7, <2>1, <3>1, CoveredAt DEF AlarmInv
    <3>3. QED
      BY <1>4, <1>7, <3>1, <3>2
  <2>2. QED
    BY <1>9, <2>1, CoveredIs
<1>11. CallRight'
  <2>1. /\ call.d \in (IF call.micro THEN Usecs ELSE Secs)
        /\ Moment(time, ticks) = Moment(tm, tc) + call.in
        /\ call.d # 0 /\ want[t] = a /\ (want[t] # 0 => age[t] = call.in)
    BY <1>1, <1>2, <1>3, <1>4 DEF AlarmInv, CallRight
  <2>2. Asked(call') = a
    BY <1>3, <1>8 DEF Asked
  <2>3. QED
    BY <1>4, <1>6, <1>7, <1>8, <2>1, <2>2 DEF CallRight
<1>12. AheadRight'
  <2>1. ASSUME ~jumped, NEW x \in Task, alarm'[x] # 0 /\ want[x] # 0
        PROVE  Moment(alarm'[x], aticks'[x]) + age[x] >= want[x] + Moment(time, ticks)
    <3>1. CASE x = t
      <4>1. /\ want[t] = a /\ age[t] = call.in
            /\ Moment(time, ticks) = Moment(tm, tc) + call.in
        BY <1>1, <1>2, <1>3, <1>4, <2>1, <3>1 DEF AlarmInv, CallRight
      <4>2. call.in \in Nat /\ Moment(tm, tc) \in Nat
        <5>1. call.in \in 0..MaxIn
          BY <1>1 DEF AlarmInv, AlarmTypes
        <5>2. call.in \in Nat
          BY <5>1 DEF AlarmAssumption
        <5>3. Moment(tm, tc) \in Nat
          BY MomentOrder
        <5>4. QED
          BY <5>2, <5>3
      <4>3. Moment(alarm'[t], aticks'[t]) = Moment(tm, tc) + a
        BY <1>6, <1>7
      <4>4. QED
        BY <3>1, <4>1, <4>2, <4>3
    <3>2. CASE x # t
      BY <1>7, <2>1, <3>2 DEF AlarmInv, AheadRight
    <3>3. QED
      BY <3>1, <3>2
  <2>2. QED
    BY <1>4, <2>1 DEF AheadRight
<1>13. QED
  BY <1>9, <1>10, <1>11, <1>12 DEF AlarmInv

\* ualarm(): the task's alarm is there, so that the global time is the sooner of two.
LEMMA SetGlobalRight ==
    ASSUME AlarmAssumption, AlarmInv, SetGlobal
    PROVE  AlarmInv'
<1>1. call # NoCall /\ call.step = "global"
  BY DEF SetGlobal, NoCall
<1>2. PICK t \in Task : t = call.t
  BY <1>1 DEF AlarmInv, AlarmTypes
<1>3. /\ set_alarm(alarm[t], aticks[t])
      /\ call' = NoCall
      /\ UNCHANGED <<time, ticks, alarm, aticks, repeat, sig, age, want, jumped>>
  BY <1>2 DEF SetGlobal
<1>4. alarm[t] \in Nat \ {0} /\ aticks[t] \in 0..(HZ - 1)
  <2>1. alarm[t] \in Nat /\ aticks[t] \in 0..(HZ - 1)
    BY DEF AlarmInv, AlarmTypes
  <2>2. alarm[t] # 0
    BY <1>1, <1>2 DEF AlarmInv, CallRight
  <2>3. QED
    BY <2>1, <2>2
<1>5. /\ gtime' \in Nat \ {0} /\ gticks' \in 0..(HZ - 1)
      /\ Moment(gtime', gticks') \in Nat
      /\ Moment(gtime', gticks') <= Moment(alarm[t], aticks[t])
      /\ gtime # 0 => Moment(gtime', gticks') <= Moment(gtime, gticks)
  BY <1>3, <1>4, SetAlarmRight DEF AlarmInv
<1>6. AlarmTypes'
  BY <1>3, <1>5 DEF AlarmInv, AlarmTypes
<1>7. Covered'
  <2>1. ASSUME NEW x \in Task, alarm'[x] # 0
        PROVE  gtime' # 0 /\ Moment(gtime', gticks') <= Moment(alarm'[x], aticks'[x])
    <3>1. CASE x = t
      BY <1>3, <1>5, <3>1
    <3>2. CASE x # t
      <4>1. gtime # 0 /\ Moment(gtime, gticks) <= Moment(alarm[x], aticks[x])
        BY <1>2, <1>3, <2>1, <3>2, CoveredAt DEF AlarmInv
      <4>2. Moment(gtime, gticks) \in Nat /\ Moment(alarm[x], aticks[x]) \in Nat
        BY AlarmTimes DEF AlarmInv
      <4>3. Moment(gtime', gticks') <= Moment(alarm[x], aticks[x])
        BY <1>5, <4>1, <4>2
      <4>4. QED
        BY <1>3, <1>5, <4>3
    <3>3. QED
      BY <3>1, <3>2
  <2>2. QED
    BY <1>6, <2>1, CoveredIs
<1>8. AheadRight'
  BY <1>3 DEF AlarmInv, AheadRight
<1>9. CallRight'
  BY <1>3 DEF CallRight
<1>10. QED
  BY <1>6, <1>7, <1>8, <1>9 DEF AlarmInv

\* A new program has no alarm.
LEMMA RenewRight ==
    ASSUME AlarmAssumption, AlarmInv, NEW t \in Task, Renew(t)
    PROVE  AlarmInv'
<1>1. /\ call = NoCall
      /\ alarm' = [alarm EXCEPT ![t] = 0]
      /\ repeat' = [repeat EXCEPT ![t] = 0]
      /\ age' = [age EXCEPT ![t] = 0]
      /\ want' = [want EXCEPT ![t] = 0]
      /\ UNCHANGED <<time, ticks, aticks, gtime, gticks, sig, call, jumped>>
  BY DEF Renew
<1>2. AlarmTypes'
  BY <1>1 DEF AlarmInv, AlarmTypes
<1>3. Covered'
  BY <1>1 DEF AlarmInv, Covered, AlarmTypes
<1>4. AheadRight'
  BY <1>1 DEF AlarmInv, AheadRight, AlarmTypes
<1>5. CallRight'
  BY <1>1 DEF CallRight
<1>6. QED
  BY <1>2, <1>3, <1>4, <1>5 DEF AlarmInv

\* The clock is set while nobody is inside a call.
LEMMA SetTimeRight ==
    ASSUME AlarmAssumption, AlarmInv, SetTime
    PROVE  AlarmInv'
<1>1. PICK c \in Clocks : time' = c
  BY DEF SetTime
<1>2. /\ call = NoCall /\ ticks' = 0 /\ jumped' = TRUE
      /\ UNCHANGED <<alarm, aticks, repeat, gtime, gticks, sig, call, age, want>>
  BY DEF SetTime
<1>3. AlarmTypes'
  BY <1>1, <1>2 DEF AlarmInv, AlarmTypes, AlarmAssumption
<1>4. Covered'
  BY <1>2 DEF AlarmInv, Covered
<1>5. AheadRight'
  BY <1>2 DEF AheadRight
<1>6. CallRight'
  BY <1>2 DEF CallRight
<1>7. QED
  BY <1>3, <1>4, <1>5, <1>6 DEF AlarmInv

\* A signal that is taken leaves the alarms as they are.
LEMMA TakeSignalRight ==
    ASSUME AlarmInv, NEW t \in Task, TakeSignal(t)
    PROVE  AlarmInv'
<1>1. /\ sig' = sig \ {t}
      /\ UNCHANGED <<time, ticks, alarm, aticks, repeat, gtime, gticks, call, age, want, jumped>>
  BY DEF TakeSignal
<1>2. AlarmTypes'
  BY <1>1 DEF AlarmInv, AlarmTypes
<1>3. Covered' /\ AheadRight' /\ CallRight'
  BY <1>1 DEF AlarmInv, Covered, AheadRight, CallRight
<1>4. QED
  BY <1>2, <1>3 DEF AlarmInv

\* What a tick does, in ticks: the alarms that are due, and what the alarms become.
TickIs(M, look, due) ==
    /\ M = Moment(time, ticks) + 1 /\ M = Moment(time', ticks')
    /\ look <=> gtime # 0 /\ Moment(gtime, gticks) <= M
    /\ due \in SUBSET Task
    /\ \A t \in Task : t \in due <=> look /\ alarm[t] # 0 /\ Moment(alarm[t], aticks[t]) <= M
    /\ \A t \in Task : t \notin due => alarm'[t] = alarm[t] /\ aticks'[t] = aticks[t]
    /\ \A t \in due : repeat[t] = 0 => alarm'[t] = 0
    /\ \A t \in due : repeat[t] # 0 => Moment(alarm'[t], aticks'[t]) = M + repeat[t]
    /\ look => \A t \in Task : alarm'[t] # 0 =>
                   gtime' # 0 /\ Moment(gtime', gticks') <= Moment(alarm'[t], aticks'[t])
    /\ ~look => gtime' = gtime /\ gticks' = gticks
    /\ sig' = sig \cup due
    /\ age' = [t \in Task |-> IF t \in due \/ want[t] = 0 THEN 0 ELSE age[t] + 1]
    /\ want' = [t \in Task |-> IF t \in due THEN repeat[t] ELSE want[t]]
    /\ call' = IF call = NoCall THEN call ELSE [call EXCEPT !.in = @ + 1]
    /\ call # NoCall => call.in < MaxIn
    /\ repeat' = repeat /\ jumped' = jumped

\* The variables of the clock keep their types over a tick.
TickTypes ==
    /\ time' \in 1..MaxTime /\ ticks' \in 0..(HZ - 1)
    /\ alarm' \in [Task -> Nat] /\ aticks' \in [Task -> 0..(HZ - 1)]
    /\ gtime' \in Nat /\ gticks' \in 0..(HZ - 1)

\* Tick in those terms.
LEMMA TickMeans ==
    ASSUME AlarmAssumption, AlarmTypes, Tick
    PROVE  TickTypes /\ \E M \in Nat, look \in BOOLEAN, due \in SUBSET Task : TickIs(M, look, due)
<1> DEFINE now == IF ticks + 1 = HZ THEN [tm |-> time + 1, tc |-> 0]
                                    ELSE [tm |-> time, tc |-> ticks + 1]
           look == gtime # 0 /\ Reached(gtime, gticks, now)
           due == {t \in Task : look /\ alarm[t] # 0 /\ Reached(alarm[t], aticks[t], now)}
           again == [t \in Task |-> Carried(now.tm, now.tc + repeat[t])]
           next == [t \in Task |->
                       IF t \notin due THEN [tm |-> alarm[t], tc |-> aticks[t]]
                       ELSE IF repeat[t] # 0 THEN again[t] ELSE [tm |-> 0, tc |-> aticks[t]]]
           left == {next[t] : t \in {x \in Task : next[x].tm # 0}}
<1>1. /\ now.tm <= MaxTime /\ time' = now.tm /\ ticks' = now.tc
      /\ call # NoCall => call.in < MaxIn
      /\ alarm' = [t \in Task |-> next[t].tm]
      /\ aticks' = [t \in Task |-> next[t].tc]
      /\ sig' = sig \cup due
  BY DEF Tick
<1>2. /\ age' = [t \in Task |-> IF t \in due \/ want[t] = 0 THEN 0 ELSE age[t] + 1]
      /\ want' = [t \in Task |-> IF t \in due THEN repeat[t] ELSE want[t]]
      /\ call' = IF call = NoCall THEN call ELSE [call EXCEPT !.in = @ + 1]
      /\ repeat' = repeat /\ jumped' = jumped
  BY DEF Tick
<1>3. IF ~look THEN UNCHANGED <<gtime, gticks>>
      ELSE IF left = {} THEN gtime' = 0 /\ UNCHANGED gticks
      ELSE \E g \in left : /\ \A x \in left : ~Before(x.tm, x.tc, g.tm, g.tc)
                           /\ gtime' = g.tm
                           /\ gticks' = g.tc
  BY DEF Tick
<1>4. /\ HZ \in Nat \ {0} /\ time \in Nat \ {0} /\ ticks \in 0..(HZ - 1) /\ MaxTime \in Nat
      /\ gtime \in Nat /\ gticks \in 0..(HZ - 1)
      /\ \A t \in Task : alarm[t] \in Nat /\ aticks[t] \in 0..(HZ - 1) /\ repeat[t] \in Nat
  BY DEF AlarmAssumption, AlarmTypes
<1>5. PICK ntm \in Nat \ {0}, ntc \in 0..(HZ - 1) :
          /\ now = [tm |-> ntm, tc |-> ntc]
          /\ Moment(ntm, ntc) = Moment(time, ticks) + 1
  <2>1. CASE ticks + 1 = HZ
    <3>1. now = [tm |-> time + 1, tc |-> 0] /\ time + 1 \in Nat \ {0} /\ 0 \in 0..(HZ - 1)
      BY <1>4, <2>1
    <3>2. (time + 1) * HZ = time * HZ + HZ /\ time * HZ \in Nat
      BY <1>4
    <3>3. Moment(time + 1, 0) = Moment(time, ticks) + 1
      BY <1>4, <2>1, <3>2 DEF Moment
    <3>4. QED
      BY <3>1, <3>3
  <2>2. CASE ticks + 1 # HZ
    <3>1. now = [tm |-> time, tc |-> ticks + 1] /\ ticks + 1 \in 0..(HZ - 1)
      BY <1>4, <2>2
    <3>2. time * HZ \in Nat
      BY <1>4
    <3>3. Moment(time, ticks + 1) = Moment(time, ticks) + 1
      BY <1>4, <3>2 DEF Moment
    <3>4. QED
      BY <1>4, <3>1, <3>3
  <2>3. QED
    BY <2>1, <2>2
<1>6. PICK M \in Nat : M = Moment(ntm, ntc)
  BY <1>5, MomentOrder
<1>7. time' = ntm /\ ticks' = ntc /\ ntm \in 1..MaxTime
  BY <1>1, <1>4, <1>5
<1>8. look <=> gtime # 0 /\ Moment(gtime, gticks) <= M
  <2>1. Reached(gtime, gticks, [tm |-> ntm, tc |-> ntc]) <=> Moment(gtime, gticks) <= Moment(ntm, ntc)
    BY <1>4, <1>5, MomentOrder
  <2>2. QED
    BY <1>5, <1>6, <2>1
<1>9. \A t \in Task : t \in due <=> look /\ alarm[t] # 0 /\ Moment(alarm[t], aticks[t]) <= M
  <2>1. ASSUME NEW t \in Task
        PROVE  Reached(alarm[t], aticks[t], [tm |-> ntm, tc |-> ntc])
                   <=> Moment(alarm[t], aticks[t]) <= Moment(ntm, ntc)
    BY <1>4, <1>5, MomentOrder
  <2>2. QED
    BY <1>5, <1>6, <2>1
<1>10. look \in BOOLEAN /\ due \in SUBSET Task
  OBVIOUS
<1>11. ASSUME NEW t \in Task
       PROVE  /\ next[t].tm \in Nat /\ next[t].tc \in 0..(HZ - 1)
              /\ t \notin due => next[t].tm = alarm[t] /\ next[t].tc = aticks[t]
              /\ t \in due /\ repeat[t] = 0 => next[t].tm = 0
              /\ t \in due /\ repeat[t] # 0 => Moment(next[t].tm, next[t].tc) = M + repeat[t]
  <2>1. again[t] = Carried(ntm, ntc + repeat[t]) /\ ntc + repeat[t] \in Nat
    BY <1>4, <1>5
  <2>2. /\ again[t].tm \in Nat /\ again[t].tc \in 0..(HZ - 1)
        /\ Moment(again[t].tm, again[t].tc) = ntm * HZ + (ntc + repeat[t])
    BY <1>5, <2>1, CarriedRight
  <2>3. ntm * HZ + (ntc + repeat[t]) = M + repeat[t]
    <3>1. ntm * HZ \in Nat
      BY <1>4
    <3>2. QED
      BY <1>4, <1>6, <3>1 DEF Moment
  <2>4. next[t] = IF t \notin due THEN [tm |-> alarm[t], tc |-> aticks[t]]
                  ELSE IF repeat[t] # 0 THEN again[t] ELSE [tm |-> 0, tc |-> aticks[t]]
    OBVIOUS
  <2> HIDE DEF next, again, due
  <2>5. QED
    BY <1>4, <2>2, <2>3, <2>4
<1> HIDE DEF now, look, due, again, next
<1>12. \A t \in Task : alarm'[t] = next[t].tm /\ aticks'[t] = next[t].tc
  BY <1>1
<1>13. /\ gtime' \in Nat /\ gticks' \in 0..(HZ - 1)
       /\ ~look => gtime' = gtime /\ gticks' = gticks
       /\ look => \A t \in Task : alarm'[t] # 0 =>
                   gtime' # 0 /\ Moment(gtime', gticks') <= Moment(alarm'[t], aticks'[t])
  <2>1. CASE ~look
    BY <1>3, <1>4, <2>1
  <2>2. CASE look /\ left = {}
    <3>1. gtime' = 0 /\ gticks' = gticks
      BY <1>3, <2>2
    <3>2. \A t \in Task : next[t].tm = 0
      BY <2>2
    <3>3. QED
      BY <1>4, <1>12, <2>2, <3>1, <3>2
  <2>3. CASE look /\ left # {}
    <3>1. PICK g \in left : /\ \A x \in left : ~Before(x.tm, x.tc, g.tm, g.tc)
                            /\ gtime' = g.tm
                            /\ gticks' = g.tc
      BY <1>3, <2>3
    <3>2. PICK z \in Task : g = next[z] /\ next[z].tm # 0
      OBVIOUS
    <3>3. gtime' \in Nat /\ gtime' # 0 /\ gticks' \in 0..(HZ - 1)
      BY <1>11, <3>1, <3>2
    <3>4. ASSUME NEW t \in Task, alarm'[t] # 0
          PROVE  Moment(gtime', gticks') <= Moment(alarm'[t], aticks'[t])
      <4>1. next[t].tm # 0 /\ next[t].tm \in Nat /\ next[t].tc \in 0..(HZ - 1)
        BY <1>11, <1>12, <3>4
      <4>2. next[t] \in left
        BY <4>1
      <4>3. ~Before(next[t].tm, next[t].tc, gtime', gticks')
        BY <3>1, <4>2
      <4>4. /\ Moment(next[t].tm, next[t].tc) \in Nat /\ Moment(gtime', gticks') \in Nat
            /\ Before(next[t].tm, next[t].tc, gtime', gticks')
                   <=> Moment(next[t].tm, next[t].tc) < Moment(gtime', gticks')
        BY <3>3, <4>1, MomentOrder
      <4>5. QED
        BY <1>12, <4>3, <4>4
    <3>5. QED
      BY <2>3, <3>3, <3>4
  <2>4. QED
    BY <2>1, <2>2, <2>3
<1> HIDE DEF left
<1>14. TickTypes
  <2>1. alarm' \in [Task -> Nat] /\ aticks' \in [Task -> 0..(HZ - 1)]
    BY <1>1, <1>11
  <2>2. QED
    BY <1>5, <1>7, <1>13, <2>1 DEF TickTypes
<1>15. TickIs(M, look, due)
  <2>1. M = Moment(time, ticks) + 1 /\ M = Moment(time', ticks')
    BY <1>5, <1>6, <1>7
  <2>2. /\ \A t \in Task : t \notin due => alarm'[t] = alarm[t] /\ aticks'[t] = aticks[t]
        /\ \A t \in due : repeat[t] = 0 => alarm'[t] = 0
        /\ \A t \in due : repeat[t] # 0 => Moment(alarm'[t], aticks'[t]) = M + repeat[t]
    BY <1>10, <1>11, <1>12
  <2>3. QED
    BY <1>1, <1>2, <1>8, <1>9, <1>10, <1>13, <2>1, <2>2 DEF TickIs
<1>16. QED
  BY <1>10, <1>14, <1>15

\* A tick keeps the alarms right; afterwards none is overdue, and no signal is early.
LEMMA TickRight ==
    ASSUME AlarmAssumption, LongDelays, AlarmInv, Tick
    PROVE  AlarmInv' /\ NoneOverdue /\ NotEarly
<1>1. TickTypes
  BY TickMeans DEF AlarmInv
<1>2. PICK M \in Nat, look \in BOOLEAN, due \in SUBSET Task : TickIs(M, look, due)
  BY TickMeans DEF AlarmInv
<1>3. /\ M = Moment(time, ticks) + 1 /\ M = Moment(time', ticks')
      /\ look <=> gtime # 0 /\ Moment(gtime, gticks) <= M
      /\ \A t \in Task : t \in due <=> look /\ alarm[t] # 0 /\ Moment(alarm[t], aticks[t]) <= M
      /\ \A t \in Task : t \notin due => alarm'[t] = alarm[t] /\ aticks'[t] = aticks[t]
      /\ \A t \in due : repeat[t] = 0 => alarm'[t] = 0
      /\ \A t \in due : repeat[t] # 0 => Moment(alarm'[t], aticks'[t]) = M + repeat[t]
  BY <1>2 DEF TickIs
<1>4. /\ look => \A t \in Task : alarm'[t] # 0 =>
                   gtime' # 0 /\ Moment(gtime', gticks') <= Moment(alarm'[t], aticks'[t])
      /\ ~look => gtime' = gtime /\ gticks' = gticks
      /\ sig' = sig \cup due
  BY <1>2 DEF TickIs
<1>5. /\ age' = [t \in Task |-> IF t \in due \/ want[t] = 0 THEN 0 ELSE age[t] + 1]
      /\ want' = [t \in Task |-> IF t \in due THEN repeat[t] ELSE want[t]]
      /\ call' = IF call = NoCall THEN call ELSE [call EXCEPT !.in = @ + 1]
      /\ call # NoCall => call.in < MaxIn
      /\ repeat' = repeat /\ jumped' = jumped
  BY <1>2 DEF TickIs
<1>6. \A t \in Task : age'[t] = (IF t \in due \/ want[t] = 0 THEN 0 ELSE age[t] + 1)
                      /\ want'[t] = (IF t \in due THEN repeat[t] ELSE want[t])
  BY <1>5
<1>7. /\ Moment(time, ticks) \in Nat /\ Moment(gtime, gticks) \in Nat
      /\ \A t \in Task : Moment(alarm[t], aticks[t]) \in Nat
  BY AlarmTimes DEF AlarmInv
<1>8. /\ \A t \in Task : age[t] \in Nat /\ want[t] \in Nat /\ repeat[t] \in Nat
      /\ MaxIn \in Nat
  BY DEF AlarmInv, AlarmTypes, AlarmAssumption
<1>9. ASSUME call # NoCall
      PROVE  /\ call' \in [step : Steps, t : Task, micro : BOOLEAN, rep : BOOLEAN, d : Secs \cup Usecs,
                           tm : 1..MaxTime, tc : 0..(HZ - 1), in : 0..MaxIn]
             /\ call'.step = call.step /\ call'.t = call.t /\ call'.d = call.d
             /\ call'.micro = call.micro /\ call'.tm = call.tm /\ call'.tc = call.tc
             /\ call'.in = call.in + 1 /\ call.in \in Nat /\ call.in < MaxIn
             /\ call.t \in Task
  <2>1. call \in [step : Steps, t : Task, micro : BOOLEAN, rep : BOOLEAN, d : Secs \cup Usecs,
                  tm : 1..MaxTime, tc : 0..(HZ - 1), in : 0..MaxIn]
    BY <1>9 DEF AlarmInv, AlarmTypes
  <2>2. call' = [call EXCEPT !.in = @ + 1] /\ call.in < MaxIn
    BY <1>5, <1>9
  <2>3. call.in + 1 \in 0..MaxIn
    BY <1>8, <2>1, <2>2
  <2>4. QED
    BY <1>8, <2>1, <2>2, <2>3
<1>10. AlarmTypes'
  <2>1. sig' \in SUBSET Task
    BY <1>2, <1>4 DEF AlarmInv, AlarmTypes
  <2>2. age' \in [Task -> Nat] /\ want' \in [Task -> Nat]
    BY <1>5, <1>8
  <2>3. call' \in {NoCall} \cup
            [step : Steps, t : Task, micro : BOOLEAN, rep : BOOLEAN, d : Secs \cup Usecs,
             tm : 1..MaxTime, tc : 0..(HZ - 1), in : 0..MaxIn]
    BY <1>5, <1>9
  <2>4. QED
    BY <1>1, <1>5, <2>1, <2>2, <2>3 DEF TickTypes, AlarmInv, AlarmTypes
\* The alarm of the task inside a call to ualarm() is further ahead than the call is long.
<1>11. ASSUME call # NoCall, call.step # "cancel"
       PROVE  call.t \notin due
  <2>1. CASE call.step = "store"
    <3>1. alarm[call.t] = 0
      BY <1>11, <2>1 DEF AlarmInv, CallRight
    <3>2. QED
      BY <1>3, <1>9, <1>11, <3>1
  <2>2. CASE call.step = "global"
    <3>1. /\ call.micro /\ call.d # 0 /\ want[call.t] = Asked(call)
          /\ Moment(alarm[call.t], aticks[call.t]) = Moment(call.tm, call.tc) + want[call.t]
          /\ Moment(time, ticks) = Moment(call.tm, call.tc) + call.in
      BY <1>11, <2>2 DEF AlarmInv, CallRight
    <3>2. Asked(call) > MaxIn /\ Asked(call) \in Nat
      BY <1>11, <3>1, AskedIs DEF AlarmInv
    <3>3. Moment(call.tm, call.tc) \in Nat
      BY <1>11, AlarmTimes DEF AlarmInv
    <3>4. PICK i \in Nat, m \in Nat, w \in Nat :
              i = call.in /\ m = Moment(call.tm, call.tc) /\ w = want[call.t] /\ i < MaxIn /\ w > MaxIn
      BY <1>9, <1>11, <3>1, <3>2, <3>3
    <3>5. Moment(alarm[call.t], aticks[call.t]) = m + w /\ M = m + i + 1
      BY <1>3, <3>1, <3>4
    <3>6. ~(Moment(alarm[call.t], aticks[call.t]) <= M)
      BY <1>8, <3>4, <3>5
    <3>7. QED
      BY <1>3, <1>9, <1>11, <3>6
  <2>3. QED
    BY <1>9, <1>11, <2>1, <2>2 DEF AlarmInv, AlarmTypes, Steps
<1>12. Covered'
  <2>1. ASSUME NEW x \in Task,
               alarm'[x] # 0 /\ ~(call' # NoCall /\ call'.t = x /\ call'.step = "global")
        PROVE  gtime' # 0 /\ Moment(gtime', gticks') <= Moment(alarm'[x], aticks'[x])
    <3>1. CASE look
      BY <1>4, <2>1, <3>1
    <3>2. CASE ~look
      <4>1. alarm'[x] = alarm[x] /\ aticks'[x] = aticks[x] /\ gtime' = gtime /\ gticks' = gticks
        BY <1>3, <1>4, <3>2
      <4>2. ~(call # NoCall /\ call.t = x /\ call.step = "global")
        <5>1. SUFFICES ASSUME call # NoCall, call.t = x, call.step = "global" PROVE FALSE
          OBVIOUS
        <5>2. call'.t = x /\ call'.step = "global" /\ call' # NoCall
          BY <1>9, <5>1 DEF NoCall
        <5>3. QED
          BY <2>1, <5>2
      <4>3. gtime # 0 /\ Moment(gtime, gticks) <= Moment(alarm[x], aticks[x])
        BY <2>1, <4>1, <4>2, CoveredAt DEF AlarmInv
      <4>4. QED
        BY <4>1, <4>3
    <3>3. QED
      BY <3>1, <3>2
  <2>2. QED
    BY <1>10, <2>1, CoveredIs
<1>13. CallRight'
  <2>1. CASE call = NoCall
    BY <1>5, <2>1 DEF CallRight
  <2>2. CASE call # NoCall
    <3>1. Asked(call') = Asked(call)
      BY <1>9, <2>2 DEF Asked
    <3>2. /\ call.d \in (IF call.micro THEN Usecs ELSE Secs)
          /\ Moment(time, ticks) = Moment(call.tm, call.tc) + call.in
          /\ Moment(call.tm, call.tc) \in Nat
      BY <2>2, AlarmTimes DEF AlarmInv, CallRight
    <3>3. Moment(time', ticks') = Moment(call.tm, call.tc) + (call.in + 1)
      BY <1>3, <1>9, <2>2, <3>2
    <3>4. CASE call.step = "cancel"
      BY <1>9, <2>2, <3>2, <3>3, <3>4 DEF CallRight
    <3>5. CASE call.step # "cancel"
      <4>1. call.t \notin due
        BY <1>11, <2>2, <3>5
      <4>2. /\ alarm'[call.t] = alarm[call.t] /\ aticks'[call.t] = aticks[call.t]
            /\ want'[call.t] = want[call.t]
            /\ want[call.t] # 0 => age'[call.t] = age[call.t] + 1
        BY <1>3, <1>6, <1>9, <2>2, <4>1
      <4>3. /\ call.d # 0 /\ want[call.t] = Asked(call)
            /\ want[call.t] # 0 => age[call.t] = call.in
            /\ call.step = "store" => alarm[call.t] = 0
            /\ call.step = "global" =>
                  /\ call.micro /\ alarm[call.t] # 0
                  /\ Moment(alarm[call.t], aticks[call.t])
                         = Moment(call.tm, call.tc) + want[call.t]
        BY <2>2, <3>5 DEF AlarmInv, CallRight
      <4>4. /\ call'.d # 0 /\ want'[call'.t] = Asked(call')
            /\ want'[call'.t] # 0 => age'[call'.t] = call'.in
            /\ call'.step = "store" => alarm'[call'.t] = 0
            /\ call'.step = "global" =>
                  /\ call'.micro /\ alarm'[call'.t] # 0
                  /\ Moment(alarm'[call'.t], aticks'[call'.t])
                         = Moment(call'.tm, call'.tc) + want'[call'.t]
        BY <1>9, <2>2, <3>1, <4>2, <4>3
      <4>5. /\ call'.d \in (IF call'.micro THEN Usecs ELSE Secs)
            /\ Moment(time', ticks') = Moment(call'.tm, call'.tc) + call'.in
        BY <1>9, <2>2, <3>2, <3>3
      <4>6. QED
        BY <4>4, <4>5 DEF CallRight
    <3>6. QED
      BY <3>4, <3>5
  <2>3. QED
    BY <2>1, <2>2
<1>14. AheadRight'
  <2>1. ASSUME ~jumped, NEW t \in Task, alarm'[t] # 0 /\ want'[t] # 0
        PROVE  Moment(alarm'[t], aticks'[t]) + age'[t] >= want'[t] + Moment(time', ticks')
    <3>1. CASE t \in due
      <4>1. want'[t] = repeat[t] /\ age'[t] = 0 /\ repeat[t] # 0
        BY <1>6, <2>1, <3>1
      <4>2. Moment(alarm'[t], aticks'[t]) = M + repeat[t]
        BY <1>3, <3>1, <4>1
      <4>3. QED
        BY <1>3, <1>8, <4>1, <4>2
    <3>2. CASE t \notin due
      <4>1. want'[t] = want[t] /\ alarm'[t] = alarm[t] /\ aticks'[t] = aticks[t]
            /\ age'[t] = age[t] + 1
        BY <1>3, <1>6, <2>1, <3>2
      <4>2. Moment(alarm[t], aticks[t]) + age[t] >= want[t] + Moment(time, ticks)
        BY <2>1, <4>1 DEF AlarmInv, AheadRight
      <4>3. Moment(alarm'[t], aticks'[t]) = Moment(alarm[t], aticks[t])
        BY <4>1
      <4>4. QED
        BY <1>3, <1>7, <1>8, <4>1, <4>2, <4>3
    <3>3. QED
      BY <3>1, <3>2
  <2>2. QED
    BY <1>5, <2>1 DEF AheadRight
<1>15. NoneOverdue
  <2>1. ASSUME NEW t \in Task, alarm'[t] # 0, ~(call # NoCall /\ call.t = t)
        PROVE  Before(time', ticks', alarm'[t], aticks'[t])
    <3>1. Moment(time', ticks') < Moment(alarm'[t], aticks'[t])
      <4>1. CASE t \in due
        <5>1. repeat[t] # 0
          BY <1>3, <2>1, <4>1
        <5>2. Moment(alarm'[t], aticks'[t]) = M + repeat[t]
          BY <1>3, <4>1, <5>1
        <5>3. QED
          BY <1>3, <1>8, <5>1, <5>2
      <4>2. CASE t \notin due
        <5>1. alarm'[t] = alarm[t] /\ aticks'[t] = aticks[t]
          BY <1>3, <4>2
        <5>2. gtime # 0 /\ Moment(gtime, gticks) <= Moment(alarm[t], aticks[t])
          BY <2>1, <5>1, CoveredAt DEF AlarmInv
        <5>3. ~(Moment(alarm[t], aticks[t]) <= M)
          BY <1>3, <1>7, <2>1, <4>2, <5>1, <5>2
        <5>4. Moment(alarm'[t], aticks'[t]) = Moment(alarm[t], aticks[t])
          BY <5>1
        <5>5. QED
          BY <1>3, <1>7, <5>3, <5>4
      <4>3. QED
        BY <4>1, <4>2
    <3>2. /\ time' \in Nat /\ ticks' \in 0..(HZ - 1)
          /\ alarm'[t] \in Nat /\ aticks'[t] \in 0..(HZ - 1)
      BY <1>1 DEF TickTypes
    <3>3. Before(time', ticks', alarm'[t], aticks'[t])
              <=> Moment(time', ticks') < Moment(alarm'[t], aticks'[t])
      BY <3>2, MomentOrder
    <3>4. QED
      BY <3>1, <3>3
  <2>2. QED
    BY <2>1 DEF NoneOverdue
<1>16. NotEarly
  <2>1. ASSUME NEW t \in due, ~jumped
        PROVE  age[t] + 1 >= want[t]
    <3>1. alarm[t] # 0 /\ Moment(alarm[t], aticks[t]) <= M
      BY <1>3, <2>1
    <3>2. CASE want[t] = 0
      BY <1>8, <2>1, <3>2
    <3>3. CASE want[t] # 0
      <4>1. Moment(alarm[t], aticks[t]) + age[t] >= want[t] + Moment(time, ticks)
        BY <2>1, <3>1, <3>3 DEF AlarmInv, AheadRight
      <4>2. QED
        BY <1>3, <1>7, <1>8, <2>1, <3>1, <4>1
    <3>4. QED
      BY <3>2, <3>3
  <2>2. QED
    BY <1>4, <2>1 DEF NotEarly
<1>17. QED
  BY <1>10, <1>12, <1>13, <1>14, <1>15, <1>16 DEF AlarmInv

\* The first state.
LEMMA AlarmFirst ==
    ASSUME AlarmAssumption, AlarmInit
    PROVE  AlarmInv
<1>1. AlarmTypes
  <2>1. HZ \in Nat \ {0} /\ MaxTime \in Nat \ {0}
    BY DEF AlarmAssumption
  <2>2. 0 \in 0..(HZ - 1) /\ 1 \in 1..MaxTime
    BY <2>1
  <2>3. /\ alarm \in [Task -> Nat] /\ repeat \in [Task -> Nat] /\ age \in [Task -> Nat]
        /\ want \in [Task -> Nat] /\ aticks \in [Task -> 0..(HZ - 1)]
    BY <2>2 DEF AlarmInit
  <2>4. QED
    BY <2>2, <2>3 DEF AlarmInit, AlarmTypes
<1>2. Covered /\ AheadRight
  BY DEF AlarmInit, Covered, AheadRight
<1>3. CallRight
  BY DEF AlarmInit, CallRight
<1>4. QED
  BY <1>1, <1>2, <1>3 DEF AlarmInv

\* Steps that send no SIGALRM send none early.
LEMMA SendsNone ==
    ASSUME sig' \in SUBSET sig
    PROVE  NotEarly
BY DEF NotEarly

\* Every step.
LEMMA AlarmStep ==
    ASSUME AlarmAssumption, LongDelays, AlarmInv, [AlarmNext]_alarmVars
    PROVE  AlarmInv' /\ [NoneOverdue /\ NotEarly]_alarmVars
<1>1. NoneOverdue
  <2>1. CASE Tick
    BY <2>1, TickRight
  <2>2. CASE ~Tick
    BY <2>2 DEF NoneOverdue
  <2>3. QED
    BY <2>1, <2>2
<1>2. CASE \E t \in Task, d \in Secs : Enter(t, FALSE, d, FALSE)
  <2>1. PICK t \in Task, d \in Secs : Enter(t, FALSE, d, FALSE)
    BY <1>2
  <2>2. AlarmInv'
    BY <2>1, EnterRight
  <2>3. sig' = sig
    BY <2>1 DEF Enter
  <2>4. QED
    BY <1>1, <2>2, <2>3, SendsNone
<1>3. CASE \E t \in Task, d \in Usecs, rep \in BOOLEAN : Enter(t, TRUE, d, rep)
  <2>1. PICK t \in Task, d \in Usecs, rep \in BOOLEAN : Enter(t, TRUE, d, rep)
    BY <1>3
  <2>2. AlarmInv'
    BY <2>1, EnterRight
  <2>3. sig' = sig
    BY <2>1 DEF Enter
  <2>4. QED
    BY <1>1, <2>2, <2>3, SendsNone
<1>4. CASE Cancel
  <2>1. sig' = sig
    BY <1>4 DEF Cancel
  <2>2. QED
    BY <1>1, <1>4, <2>1, CancelRight, SendsNone
<1>5. CASE StoreAlarm
  <2>1. sig' = sig
    BY <1>5 DEF StoreAlarm
  <2>2. QED
    BY <1>1, <1>5, <2>1, StoreAlarmRight, SendsNone
<1>6. CASE StoreUalarm
  <2>1. sig' = sig
    BY <1>6 DEF StoreUalarm
  <2>2. QED
    BY <1>1, <1>6, <2>1, StoreUalarmRight, SendsNone
<1>7. CASE SetGlobal
  <2>1. sig' = sig
    BY <1>7 DEF SetGlobal
  <2>2. QED
    BY <1>1, <1>7, <2>1, SetGlobalRight, SendsNone
<1>8. CASE \E t \in Task : Renew(t)
  <2>1. PICK t \in Task : Renew(t)
    BY <1>8
  <2>2. sig' = sig
    BY <2>1 DEF Renew
  <2>3. QED
    BY <1>1, <2>1, <2>2, RenewRight, SendsNone
<1>9. CASE SetTime
  <2>1. sig' = sig
    BY <1>9 DEF SetTime
  <2>2. QED
    BY <1>1, <1>9, <2>1, SetTimeRight, SendsNone
<1>10. CASE \E t \in Task : TakeSignal(t)
  <2>1. PICK t \in Task : TakeSignal(t)
    BY <1>10
  <2>2. sig' \in SUBSET sig
    BY <2>1 DEF TakeSignal
  <2>3. QED
    BY <1>1, <2>1, <2>2, TakeSignalRight, SendsNone
<1>11. CASE Tick
  BY <1>11, TickRight
<1>12. CASE UNCHANGED alarmVars
  <2>1. AlarmTypes' /\ Covered' /\ AheadRight' /\ CallRight'
    BY <1>12 DEF alarmVars, AlarmInv, AlarmTypes, Covered, AheadRight, CallRight
  <2>2. QED
    BY <1>12, <2>1 DEF AlarmInv
<1>13. QED
  BY <1>2, <1>3, <1>4, <1>5, <1>6, <1>7, <1>8, <1>9, <1>10, <1>11, <1>12 DEF AlarmNext

\* Alarms are not forgotten, not late and not early, whatever the tick rate and whatever
\* is asked of them, while a ualarm() call is over before its alarm goes off (set_alarm
\* and its callers, clock_intr, sys_settimeofday).
THEOREM AlarmCorrect == AlarmAssumption /\ LongDelays => (AlarmSpec => AlarmRight)
<1> SUFFICES ASSUME AlarmAssumption /\ LongDelays PROVE AlarmSpec => AlarmRight
  OBVIOUS
<1>1. AlarmInit => AlarmInv
  BY AlarmFirst
<1>2. AlarmInv /\ [AlarmNext]_alarmVars => AlarmInv' /\ [NoneOverdue /\ NotEarly]_alarmVars
  BY AlarmStep
<1>3. AlarmInv => AlarmTypes /\ Covered
  BY DEF AlarmInv
<1>4. QED
  BY <1>1, <1>2, <1>3, PTL DEF AlarmSpec, AlarmRight
=============================================================================
