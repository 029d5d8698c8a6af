------------------------ MODULE RecorderTasks_proofs ------------------------
(***************************************************************************)
(* RecorderInv is inductive, and with it no camera has two recorders, no   *)
(* recorder is lost, children belong to their tasks, and the program       *)
(* implements RecorderContract: for any number of cameras, pids and notice *)
(* threads, and with the camera table unprotected as the code leaves it.   *)
(* With DoomedSound, no recorder is killed without a reason.               *)
(*                                                                         *)
(* InvStep has one step per action and under it one per part of the        *)
(* invariant the action can disturb. The parts lean on one another: a new  *)
(* process keeps ProcSound because of ForkSound and ScanSound; taskExit    *)
(* keeps NoLostRecorder because of ReapSound (what was reaped is dead) and *)
(* ChildIsOwn because of ChildSound (no two tasks share a child).          *)
(***************************************************************************)
EXTENDS RecorderTasks, TLAPS

USE ConstantsAssumption DEF Startup, mainVars, configVars, taskVars, workVars, procVars, sigVars

\* Every step of every thread and of the kernel preserves the invariant, when a
\* pid is not given out while the program remembers it.
LEMMA InvStep == ASSUME ~PidReuse, RecorderInv, [Next]_vars PROVE RecorderInv'
<1> USE DEF RecorderInv
<1>1. ASSUME NEW c \in Camera,
             DemoAddCamera(c)
      PROVE  RecorderInv'
  <2>1. TypeOK'
    BY <1>1 DEF DemoAddCamera, TypeOK
  <2>2. Exclusion'
    BY <1>1 DEF DemoAddCamera, Exclusion, TypeOK
  <2>3. StartupIdle'
    BY <1>1 DEF DemoAddCamera, StartupIdle, TypeOK
  <2>4. ScanSound'
    BY <1>1 DEF DemoAddCamera, ScanSound, HasTask, TypeOK
  <2>5. ForkSound'
    BY <1>1 DEF DemoAddCamera, ForkSound, HasTask, TypeOK
  <2>6. ChildSound' /\ ReapSound' /\ ProcSound' /\ ChildIsOwn' /\ NoLostRecorder'
    BY <1>1 DEF DemoAddCamera, ChildSound, ReapSound, ProcSound, ChildIsOwn, NoLostRecorder, HasTask
  <2>. QED
    BY <2>1, <2>2, <2>3, <2>4, <2>5, <2>6 DEF RecorderInv
<1>2. CASE DemoAddPolicy
  <2>1. TypeOK'
    BY <1>2 DEF DemoAddPolicy, TypeOK
  <2>2. Exclusion'
    BY <1>2 DEF DemoAddPolicy, Exclusion, TypeOK
  <2>3. StartupIdle'
    BY <1>2 DEF DemoAddPolicy, StartupIdle, TypeOK
  <2>4. ScanSound'
    BY <1>2 DEF DemoAddPolicy, ScanSound, HasTask, TypeOK
  <2>5. ForkSound'
    BY <1>2 DEF DemoAddPolicy, ForkSound, HasTask, TypeOK
  <2>6. ChildSound' /\ ReapSound' /\ ProcSound' /\ ChildIsOwn' /\ NoLostRecorder'
    BY <1>2 DEF DemoAddPolicy, ChildSound, ReapSound, ProcSound, ChildIsOwn, NoLostRecorder, HasTask
  <2>. QED
    BY <2>1, <2>2, <2>3, <2>4, <2>5, <2>6 DEF RecorderInv
<1>3. CASE CreateReadCamera
  <2>1. TypeOK'
    BY <1>3 DEF CreateReadCamera, TypeOK
  <2>2. Exclusion'
    BY <1>3 DEF CreateReadCamera, Exclusion, TypeOK
  <2>3. StartupIdle'
    BY <1>3 DEF CreateReadCamera, StartupIdle, TypeOK
  <2>4. ScanSound'
    BY <1>3 DEF CreateReadCamera, ScanSound, HasTask, TypeOK
  <2>5. ForkSound'
    BY <1>3 DEF CreateReadCamera, ForkSound, HasTask, TypeOK
  <2>6. ChildSound' /\ ReapSound' /\ ProcSound' /\ ChildIsOwn' /\ NoLostRecorder'
    BY <1>3 DEF CreateReadCamera, ChildSound, ReapSound, ProcSound, ChildIsOwn, NoLostRecorder, HasTask
  <2>. QED
    BY <2>1, <2>2, <2>3, <2>4, <2>5, <2>6 DEF RecorderInv
<1>4. CASE CreateReadPolicy
  <2>1. TypeOK'
    BY <1>4 DEF CreateReadPolicy, TypeOK
  <2>2. Exclusion'
    BY <1>4 DEF CreateReadPolicy, Exclusion, TypeOK
  <2>3. StartupIdle'
    BY <1>4 DEF CreateReadPolicy, StartupIdle, TypeOK
  <2>4. ScanSound'
    BY <1>4 DEF CreateReadPolicy, ScanSound, HasTask, TypeOK
  <2>5. ForkSound'
    BY <1>4 DEF CreateReadPolicy, ForkSound, HasTask, TypeOK
  <2>6. ChildSound' /\ ReapSound' /\ ProcSound' /\ ChildIsOwn' /\ NoLostRecorder'
    BY <1>4 DEF CreateReadPolicy, ChildSound, ReapSound, ProcSound, ChildIsOwn, NoLostRecorder, HasTask
  <2>. QED
    BY <2>1, <2>2, <2>3, <2>4, <2>5, <2>6 DEF RecorderInv
<1>5. CASE CreateInsertTask
  <2>1. TypeOK'
    BY <1>5 DEF CreateInsertTask, MutexTaskFree, TypeOK
  <2>2. Exclusion'
    BY <1>5 DEF CreateInsertTask, MutexTaskFree, Exclusion, TypeOK
  <2>3. StartupIdle'
    BY <1>5 DEF CreateInsertTask, MutexTaskFree, StartupIdle, TypeOK
  <2>4. ScanSound'
    BY <1>5 DEF CreateInsertTask, MutexTaskFree, ScanSound, HasTask, TypeOK
  <2>5. ForkSound'
    BY <1>5 DEF CreateInsertTask, MutexTaskFree, ForkSound, HasTask, StartupIdle, TypeOK
  <2>6. ChildSound'
    BY <1>5 DEF CreateInsertTask, MutexTaskFree, ChildSound, HasTask, StartupIdle, TypeOK
  <2>7. ProcSound'
    BY <1>5 DEF CreateInsertTask, MutexTaskFree, ProcSound, HasTask, StartupIdle, TypeOK
  <2>8. ChildIsOwn'
    BY <1>5 DEF CreateInsertTask, MutexTaskFree, ChildIsOwn, TypeOK
  <2>9. NoLostRecorder'
    BY <1>5 DEF CreateInsertTask, MutexTaskFree, NoLostRecorder, StartupIdle, TypeOK
  <2>10. ReapSound'
    BY <1>5 DEF CreateInsertTask, ReapSound
  <2>. QED
    BY <2>1, <2>2, <2>3, <2>4, <2>5, <2>6, <2>7, <2>8, <2>9, <2>10 DEF RecorderInv
<1>6. CASE StartupDone
  <2>1. TypeOK'
    BY <1>6 DEF StartupDone, TypeOK
  <2>2. Exclusion'
    BY <1>6 DEF StartupDone, Exclusion, TypeOK
  <2>3. StartupIdle'
    BY <1>6 DEF StartupDone, StartupIdle, TypeOK
  <2>4. ScanSound'
    BY <1>6 DEF StartupDone, ScanSound, HasTask, TypeOK
  <2>5. ForkSound'
    BY <1>6 DEF StartupDone, ForkSound, HasTask, TypeOK
  <2>6. ChildSound' /\ ReapSound' /\ ProcSound' /\ ChildIsOwn' /\ NoLostRecorder'
    BY <1>6 DEF StartupDone, ChildSound, ReapSound, ProcSound, ChildIsOwn, NoLostRecorder, HasTask
  <2>. QED
    BY <2>1, <2>2, <2>3, <2>4, <2>5, <2>6 DEF RecorderInv
<1>7. CASE ReadClock
  <2>1. TypeOK'
    BY <1>7 DEF ReadClock, TypeOK
  <2>2. Exclusion'
    BY <1>7 DEF ReadClock, Exclusion, TypeOK
  <2>3. StartupIdle'
    BY <1>7 DEF ReadClock, StartupIdle, TypeOK
  <2>4. ScanSound'
    BY <1>7 DEF ReadClock, ScanSound, HasTask, TypeOK
  <2>5. ForkSound'
    BY <1>7 DEF ReadClock, ForkSound, HasTask, TypeOK
  <2>6. ChildSound' /\ ReapSound' /\ ProcSound' /\ ChildIsOwn' /\ NoLostRecorder'
    BY <1>7 DEF ReadClock, ChildSound, ReapSound, ProcSound, ChildIsOwn, NoLostRecorder, HasTask
  <2>. QED
    BY <2>1, <2>2, <2>3, <2>4, <2>5, <2>6 DEF RecorderInv
<1>8. CASE BeginDispatch
  <2>1. TypeOK'
    BY <1>8 DEF BeginDispatch, HasTask, MutexTaskFree, TypeOK
  <2>2. Exclusion'
    BY <1>8 DEF BeginDispatch, HasTask, MutexTaskFree, Exclusion, TypeOK
  <2>3. StartupIdle'
    BY <1>8 DEF BeginDispatch, HasTask, MutexTaskFree, StartupIdle, TypeOK
  <2>4. ScanSound'
    BY <1>8 DEF BeginDispatch, HasTask, MutexTaskFree, ScanSound, TypeOK
  <2>5. ForkSound'
    BY <1>8 DEF BeginDispatch, HasTask, MutexTaskFree, ForkSound, TypeOK
  <2>6. ChildSound' /\ ReapSound' /\ ProcSound' /\ ChildIsOwn' /\ NoLostRecorder'
    BY <1>8 DEF BeginDispatch, ChildSound, ReapSound, ProcSound, ChildIsOwn, NoLostRecorder, HasTask
  <2>. QED
    BY <2>1, <2>2, <2>3, <2>4, <2>5, <2>6 DEF RecorderInv
<1>9. CASE RecordChild
  <2>1. TypeOK'
    BY <1>9 DEF RecordChild, TypeOK
  <2>2. Exclusion'
    BY <1>9 DEF RecordChild, Exclusion, TypeOK
  <2>3. StartupIdle'
    BY <1>9 DEF RecordChild, StartupIdle, TypeOK
  <2>4. ScanSound'
    BY <1>9 DEF RecordChild, ScanSound, HasTask, TypeOK
  <2>5. ForkSound'
    BY <1>9 DEF RecordChild, ForkSound, HasTask, TypeOK
  <2>6. ChildSound'
    BY <1>9 DEF RecordChild, ChildSound, HasTask, ForkSound, TypeOK
  <2>7. ProcSound'
    BY <1>9 DEF RecordChild, ProcSound, HasTask, ForkSound, ReapSound, TypeOK
  <2>8. ChildIsOwn'
    BY <1>9 DEF RecordChild, ChildIsOwn, ForkSound, ReapSound, HasTask, TypeOK
  <2>9. NoLostRecorder'
    BY <1>9 DEF RecordChild, NoLostRecorder, ForkSound, ReapSound, HasTask, TypeOK
  <2>10. ReapSound'
    BY <1>9 DEF RecordChild, ReapSound
  <2>. QED
    BY <2>1, <2>2, <2>3, <2>4, <2>5, <2>6, <2>7, <2>8, <2>9, <2>10 DEF RecorderInv
<1>10. CASE EndDispatch
  <2>1. TypeOK'
    BY <1>10 DEF EndDispatch, TypeOK
  <2>2. Exclusion'
    BY <1>10 DEF EndDispatch, Exclusion, TypeOK
  <2>3. StartupIdle'
    BY <1>10 DEF EndDispatch, StartupIdle, TypeOK
  <2>4. ScanSound'
    BY <1>10 DEF EndDispatch, ScanSound, HasTask, TypeOK
  <2>5. ForkSound'
    BY <1>10 DEF EndDispatch, ForkSound, HasTask, TypeOK
  <2>6. ChildSound' /\ ReapSound' /\ ProcSound' /\ ChildIsOwn' /\ NoLostRecorder'
    BY <1>10 DEF EndDispatch, ChildSound, ReapSound, ProcSound, ChildIsOwn, NoLostRecorder, HasTask
  <2>. QED
    BY <2>1, <2>2, <2>3, <2>4, <2>5, <2>6 DEF RecorderInv
<1>11. CASE MainExits
  <2>1. TypeOK'
    BY <1>11 DEF MainExits, TypeOK
  <2>2. Exclusion'
    BY <1>11 DEF MainExits, Exclusion, TypeOK
  <2>3. StartupIdle'
    BY <1>11 DEF MainExits, StartupIdle, TypeOK
  <2>4. ScanSound'
    BY <1>11 DEF MainExits, ScanSound, HasTask, TypeOK
  <2>5. ForkSound'
    BY <1>11 DEF MainExits, ForkSound, HasTask, TypeOK
  <2>6. ChildSound' /\ ReapSound' /\ ProcSound' /\ ChildIsOwn' /\ NoLostRecorder'
    BY <1>11 DEF MainExits, ChildSound, ReapSound, ProcSound, ChildIsOwn, NoLostRecorder, HasTask
  <2>. QED
    BY <2>1, <2>2, <2>3, <2>4, <2>5, <2>6 DEF RecorderInv
<1>12. ASSUME NEW c \in Camera,
             StartTask(c)
      PROVE  RecorderInv'
  <2>1. TypeOK'
    BY <1>12 DEF StartTask, NeedsStart, Allocatable, Remembered, TypeOK
  <2>2. Exclusion'
    BY <1>12 DEF StartTask, NeedsStart, Allocatable, Remembered, Exclusion, TypeOK
  <2>3. StartupIdle'
    BY <1>12 DEF StartTask, NeedsStart, Allocatable, Remembered, StartupIdle, TypeOK
  <2>4. ScanSound'
    BY <1>12 DEF StartTask, NeedsStart, Allocatable, Remembered, ScanSound, HasTask, TypeOK
  <2>5. ForkSound'
    BY <1>12 DEF StartTask, NeedsStart, Allocatable, Remembered, ForkSound, HasTask, ScanSound, TypeOK
  <2>6. ReapSound'
    <3>1. PICK p \in Allocatable : proc' = [proc EXCEPT ![p] = "live"]
      BY <1>12 DEF StartTask
    <3>2. p \in Pid /\ p \notin Remembered
      BY <3>1 DEF Allocatable
    <3>3. p # reaped
      BY <3>2 DEF Remembered
    <3>4. proc'[reaped] = proc[reaped] \/ spc # "exit"
      BY <3>1, <3>2, <3>3 DEF TypeOK
    <3>. QED
      BY <1>12, <3>4 DEF StartTask, ReapSound
  <2>7. ProcSound'
    BY <1>12 DEF StartTask, NeedsStart, Allocatable, Remembered, ProcSound, HasTask, ScanSound, TypeOK
  <2>8. ChildIsOwn'
    BY <1>12 DEF StartTask, NeedsStart, Allocatable, Remembered, ChildIsOwn, ReapSound, TypeOK
  <2>9. NoLostRecorder'
    BY <1>12 DEF StartTask, NeedsStart, Allocatable, Remembered, NoLostRecorder, ReapSound, ChildIsOwn, TypeOK
  <2>10. ChildSound'
    BY <1>12 DEF StartTask, ChildSound, HasTask
  <2>. QED
    BY <2>1, <2>2, <2>3, <2>4, <2>5, <2>6, <2>7, <2>8, <2>9, <2>10 DEF RecorderInv
<1>13. ASSUME NEW c \in Camera,
             StartTaskFails(c)
      PROVE  RecorderInv'
  <2>1. TypeOK'
    BY <1>13 DEF StartTaskFails, TypeOK
  <2>2. ScanSound'
    BY <1>13 DEF StartTaskFails, ScanSound, HasTask, TypeOK
  <2>3. Exclusion' /\ StartupIdle' /\ ForkSound' /\ ChildSound' /\ ReapSound' /\ ProcSound' /\ ChildIsOwn' /\ NoLostRecorder'
    BY <1>13 DEF StartTaskFails, Exclusion, StartupIdle, ForkSound, ChildSound, ReapSound, ProcSound, ChildIsOwn, NoLostRecorder, HasTask
  <2>. QED
    BY <2>1, <2>2, <2>3 DEF RecorderInv
<1>14. ASSUME NEW c \in Camera,
             StopTask(c)
      PROVE  RecorderInv'
  <2>1. TypeOK'
    BY <1>14 DEF StopTask, NeedsStop, Kill, TypeOK
  <2>2. StartupIdle'
    BY <1>14 DEF StopTask, NeedsStop, Kill, StartupIdle, TypeOK
  <2>3. ScanSound'
    BY <1>14 DEF StopTask, NeedsStop, Kill, ScanSound, HasTask, TypeOK
  <2>4. ForkSound'
    BY <1>14 DEF StopTask, NeedsStop, Kill, ForkSound, HasTask, TypeOK
  <2>5. ReapSound'
    BY <1>14 DEF StopTask, NeedsStop, Kill, ReapSound, TypeOK
  <2>6. ProcSound'
    BY <1>14 DEF StopTask, NeedsStop, Kill, ProcSound, HasTask, TypeOK
  <2>7. ChildIsOwn'
    BY <1>14 DEF StopTask, NeedsStop, Kill, ChildIsOwn, TypeOK
  <2>8. NoLostRecorder'
    BY <1>14 DEF StopTask, NeedsStop, Kill, NoLostRecorder, TypeOK
  <2>9. Exclusion' /\ ChildSound'
    BY <1>14 DEF StopTask, Exclusion, ChildSound, HasTask
  <2>. QED
    BY <2>1, <2>2, <2>3, <2>4, <2>5, <2>6, <2>7, <2>8, <2>9 DEF RecorderInv
<1>15. ASSUME NEW c \in Camera,
             PassTask(c)
      PROVE  RecorderInv'
  <2>1. TypeOK'
    BY <1>15 DEF PassTask, TypeOK
  <2>2. ScanSound'
    BY <1>15 DEF PassTask, ScanSound, HasTask, TypeOK
  <2>3. Exclusion' /\ StartupIdle' /\ ForkSound' /\ ChildSound' /\ ReapSound' /\ ProcSound' /\ ChildIsOwn' /\ NoLostRecorder'
    BY <1>15 DEF PassTask, Exclusion, StartupIdle, ForkSound, ChildSound, ReapSound, ProcSound, ChildIsOwn, NoLostRecorder, HasTask
  <2>. QED
    BY <2>1, <2>2, <2>3 DEF RecorderInv
<1>16. CASE SigInt
  <2>1. TypeOK'
    BY <1>16 DEF SigInt, TypeOK
  <2>2. ForkSound'
    BY <1>16 DEF SigInt, ForkSound, HasTask, TypeOK
  <2>3. ReapSound'
    BY <1>16 DEF SigInt, ReapSound, TypeOK
  <2>4. ChildIsOwn'
    BY <1>16 DEF SigInt, ChildIsOwn, TypeOK
  <2>5. Exclusion' /\ StartupIdle' /\ ScanSound' /\ ChildSound' /\ ProcSound' /\ NoLostRecorder'
    BY <1>16 DEF SigInt, Exclusion, StartupIdle, ScanSound, ChildSound, ProcSound, NoLostRecorder, HasTask
  <2>. QED
    BY <2>1, <2>2, <2>3, <2>4, <2>5 DEF RecorderInv
<1>17. CASE SigChild
  <2>1. TypeOK'
    BY <1>17 DEF SigChild, TypeOK
  <2>2. ForkSound'
    BY <1>17 DEF SigChild, ForkSound, HasTask, TypeOK
  <2>3. ReapSound'
    BY <1>17 DEF SigChild, ReapSound, TypeOK
  <2>4. ChildIsOwn'
    BY <1>17 DEF SigChild, ChildIsOwn, TypeOK
  <2>5. Exclusion' /\ StartupIdle' /\ ScanSound' /\ ChildSound' /\ ProcSound' /\ NoLostRecorder'
    BY <1>17 DEF SigChild, Exclusion, StartupIdle, ScanSound, ChildSound, ProcSound, NoLostRecorder, HasTask
  <2>. QED
    BY <2>1, <2>2, <2>3, <2>4, <2>5 DEF RecorderInv
<1>18. ASSUME NEW p \in Pid,
             Reap(p)
      PROVE  RecorderInv'
  <2>1. TypeOK'
    BY <1>18 DEF Reap, TypeOK
  <2>2. StartupIdle'
    BY <1>18 DEF Reap, StartupIdle, TypeOK
  <2>3. ForkSound'
    BY <1>18 DEF Reap, ForkSound, HasTask, TypeOK
  <2>4. ReapSound'
    BY <1>18 DEF Reap, ReapSound, TypeOK
  <2>5. ProcSound'
    BY <1>18 DEF Reap, ProcSound, HasTask, TypeOK
  <2>6. ChildIsOwn'
    BY <1>18 DEF Reap, ChildIsOwn, TypeOK
  <2>7. NoLostRecorder'
    BY <1>18 DEF Reap, NoLostRecorder, TypeOK
  <2>8. Exclusion' /\ ScanSound' /\ ChildSound'
    BY <1>18 DEF Reap, Exclusion, ScanSound, ChildSound, HasTask
  <2>. QED
    BY <2>1, <2>2, <2>3, <2>4, <2>5, <2>6, <2>7, <2>8 DEF RecorderInv
<1>19. CASE ReapDone
  <2>1. TypeOK'
    BY <1>19 DEF ReapDone, TypeOK
  <2>2. ForkSound'
    BY <1>19 DEF ReapDone, ForkSound, HasTask, TypeOK
  <2>3. ReapSound'
    BY <1>19 DEF ReapDone, ReapSound, TypeOK
  <2>4. ChildIsOwn'
    BY <1>19 DEF ReapDone, ChildIsOwn, TypeOK
  <2>5. Exclusion' /\ StartupIdle' /\ ScanSound' /\ ChildSound' /\ ProcSound' /\ NoLostRecorder'
    BY <1>19 DEF ReapDone, Exclusion, StartupIdle, ScanSound, ChildSound, ProcSound, NoLostRecorder, HasTask
  <2>. QED
    BY <2>1, <2>2, <2>3, <2>4, <2>5 DEF RecorderInv
<1>20. CASE TaskExit
  <2>1. TypeOK'
    BY <1>20 DEF TaskExit, ExitsTask, HasTask, AfterTaskExit, MutexTaskFree, TypeOK
  <2>2. StartupIdle'
    BY <1>20 DEF TaskExit, ExitsTask, HasTask, AfterTaskExit, MutexTaskFree, StartupIdle, TypeOK
  <2>3. ForkSound'
    BY <1>20 DEF TaskExit, ExitsTask, HasTask, AfterTaskExit, MutexTaskFree, ForkSound, ReapSound, TypeOK
  <2>4. ChildSound'
    BY <1>20 DEF TaskExit, ExitsTask, HasTask, AfterTaskExit, MutexTaskFree, ChildSound, TypeOK
  <2>5. ReapSound'
    BY <1>20 DEF TaskExit, ExitsTask, HasTask, AfterTaskExit, MutexTaskFree, ReapSound, TypeOK
  <2>6. ProcSound'
    BY <1>20 DEF TaskExit, ExitsTask, HasTask, AfterTaskExit, MutexTaskFree, ProcSound, ReapSound, TypeOK
  <2>7. ChildIsOwn'
    BY <1>20 DEF TaskExit, ExitsTask, HasTask, AfterTaskExit, MutexTaskFree, ChildIsOwn, ChildSound, TypeOK
  <2>8. NoLostRecorder'
    <3>. SUFFICES ASSUME NEW p \in Pid, proc[p] = "live", child[owner[p]] = p
                  PROVE  child'[owner[p]] = p
      BY <1>20 DEF TaskExit, NoLostRecorder
    <3>1. owner[p] \in Camera /\ p # reaped
      BY <1>20 DEF TaskExit, ProcSound, ReapSound
    <3>. QED
      BY <1>20, <3>1 DEF TaskExit, ExitsTask, HasTask, TypeOK
  <2>9. Exclusion' /\ ScanSound'
    BY <1>20 DEF TaskExit, Exclusion, ScanSound, HasTask
  <2>. QED
    BY <2>1, <2>2, <2>3, <2>4, <2>5, <2>6, <2>7, <2>8, <2>9 DEF RecorderInv
<1>21. ASSUME NEW w \in Worker,
             ClearCameras(w)
      PROVE  RecorderInv'
  <2>1. TypeOK'
    BY <1>21 DEF ClearCameras, TypeOK
  <2>2. Exclusion'
    BY <1>21 DEF ClearCameras, Exclusion, TypeOK
  <2>3. StartupIdle' /\ ScanSound' /\ ForkSound' /\ ChildSound' /\ ReapSound' /\ ProcSound' /\ ChildIsOwn' /\ NoLostRecorder'
    BY <1>21 DEF ClearCameras, StartupIdle, ScanSound, ForkSound, ChildSound, ReapSound, ProcSound, ChildIsOwn, NoLostRecorder, HasTask
  <2>. QED
    BY <2>1, <2>2, <2>3 DEF RecorderInv
<1>22. ASSUME NEW w \in Worker,
             BeginCheck(w)
      PROVE  RecorderInv'
  <2>1. TypeOK'
    BY <1>22 DEF BeginCheck, HasTask, MutexTaskFree, TypeOK
  <2>2. Exclusion'
    BY <1>22 DEF BeginCheck, HasTask, MutexTaskFree, Exclusion, TypeOK
  <2>3. StartupIdle' /\ ScanSound' /\ ForkSound' /\ ChildSound' /\ ReapSound' /\ ProcSound' /\ ChildIsOwn' /\ NoLostRecorder'
    BY <1>22 DEF BeginCheck, StartupIdle, ScanSound, ForkSound, ChildSound, ReapSound, ProcSound, ChildIsOwn, NoLostRecorder, HasTask
  <2>. QED
    BY <2>1, <2>2, <2>3 DEF RecorderInv
<1>23. ASSUME NEW w \in Worker,
             EndCheck(w)
      PROVE  RecorderInv'
  <2>1. TypeOK'
    BY <1>23 DEF EndCheck, TypeOK
  <2>2. Exclusion'
    BY <1>23 DEF EndCheck, Exclusion, TypeOK
  <2>3. StartupIdle' /\ ScanSound' /\ ForkSound' /\ ChildSound' /\ ReapSound' /\ ProcSound' /\ ChildIsOwn' /\ NoLostRecorder'
    BY <1>23 DEF EndCheck, StartupIdle, ScanSound, ForkSound, ChildSound, ReapSound, ProcSound, ChildIsOwn, NoLostRecorder, HasTask
  <2>. QED
    BY <2>1, <2>2, <2>3 DEF RecorderInv
<1>24. ASSUME NEW w \in Worker,
             EndKill(w)
      PROVE  RecorderInv'
  <2>1. TypeOK'
    BY <1>24 DEF EndKill, TypeOK
  <2>2. Exclusion'
    BY <1>24 DEF EndKill, Exclusion, TypeOK
  <2>3. StartupIdle' /\ ScanSound' /\ ForkSound' /\ ChildSound' /\ ReapSound' /\ ProcSound' /\ ChildIsOwn' /\ NoLostRecorder'
    BY <1>24 DEF EndKill, StartupIdle, ScanSound, ForkSound, ChildSound, ReapSound, ProcSound, ChildIsOwn, NoLostRecorder, HasTask
  <2>. QED
    BY <2>1, <2>2, <2>3 DEF RecorderInv
<1>25. ASSUME NEW w \in Worker, NEW c \in Camera,
             InsertCamera(w, c)
      PROVE  RecorderInv'
  <2>1. TypeOK'
    BY <1>25 DEF InsertCamera, TypeOK
  <2>2. Exclusion' /\ StartupIdle' /\ ScanSound' /\ ForkSound' /\ ChildSound' /\ ReapSound' /\ ProcSound' /\ ChildIsOwn' /\ NoLostRecorder'
    BY <1>25 DEF InsertCamera, Exclusion, StartupIdle, ScanSound, ForkSound, ChildSound, ReapSound, ProcSound, ChildIsOwn, NoLostRecorder, HasTask
  <2>. QED
    BY <2>1, <2>2 DEF RecorderInv
<1>26. ASSUME NEW w \in Worker, NEW c \in Camera,
             KeepTask(w, c)
      PROVE  RecorderInv'
  <2>1. TypeOK'
    BY <1>26 DEF KeepTask, TypeOK
  <2>2. Exclusion' /\ StartupIdle' /\ ScanSound' /\ ForkSound' /\ ChildSound' /\ ReapSound' /\ ProcSound' /\ ChildIsOwn' /\ NoLostRecorder'
    BY <1>26 DEF KeepTask, Exclusion, StartupIdle, ScanSound, ForkSound, ChildSound, ReapSound, ProcSound, ChildIsOwn, NoLostRecorder, HasTask
  <2>. QED
    BY <2>1, <2>2 DEF RecorderInv
<1>27. ASSUME NEW w \in Worker, NEW c \in Camera,
             RemoveTask(w, c)
      PROVE  RecorderInv'
  <2>1. TypeOK'
    BY <1>27 DEF RemoveTask, ToKill, TypeOK
  <2>2. StartupIdle'
    BY <1>27 DEF RemoveTask, ToKill, StartupIdle, TypeOK
  <2>3. ScanSound'
    BY <1>27 DEF RemoveTask, ToKill, ScanSound, HasTask, Exclusion, TypeOK
  <2>4. ForkSound'
    BY <1>27 DEF RemoveTask, ToKill, ForkSound, HasTask, Exclusion, TypeOK
  <2>5. ChildSound'
    BY <1>27 DEF RemoveTask, ToKill, ChildSound, HasTask, TypeOK
  <2>6. ProcSound'
    BY <1>27 DEF RemoveTask, ToKill, ProcSound, HasTask, TypeOK
  <2>7. ChildIsOwn'
    BY <1>27 DEF RemoveTask, ToKill, ChildIsOwn, TypeOK
  <2>8. NoLostRecorder'
    BY <1>27 DEF RemoveTask, ToKill, NoLostRecorder, TypeOK
  <2>9. Exclusion' /\ ReapSound'
    BY <1>27 DEF RemoveTask, Exclusion, ReapSound
  <2>. QED
    BY <2>1, <2>2, <2>3, <2>4, <2>5, <2>6, <2>7, <2>8, <2>9 DEF RecorderInv
<1>28. ASSUME NEW w \in Worker, NEW p \in Pid,
             KillDoomed(w, p)
      PROVE  RecorderInv'
  <2>1. TypeOK'
    BY <1>28 DEF KillDoomed, Kill, TypeOK
  <2>2. StartupIdle'
    BY <1>28 DEF KillDoomed, Kill, StartupIdle, TypeOK
  <2>3. ForkSound'
    BY <1>28 DEF KillDoomed, Kill, ForkSound, HasTask, TypeOK
  <2>4. ReapSound'
    BY <1>28 DEF KillDoomed, Kill, ReapSound, TypeOK
  <2>5. ProcSound'
    BY <1>28 DEF KillDoomed, Kill, ProcSound, HasTask, TypeOK
  <2>6. ChildIsOwn'
    BY <1>28 DEF KillDoomed, Kill, ChildIsOwn, TypeOK
  <2>7. NoLostRecorder'
    BY <1>28 DEF KillDoomed, Kill, NoLostRecorder, TypeOK
  <2>8. Exclusion' /\ ScanSound' /\ ChildSound'
    BY <1>28 DEF KillDoomed, Exclusion, ScanSound, ChildSound, HasTask
  <2>. QED
    BY <2>1, <2>2, <2>3, <2>4, <2>5, <2>6, <2>7, <2>8 DEF RecorderInv
<1>29. CASE ReplacePolicies
  <2>1. TypeOK'
    BY <1>29 DEF ReplacePolicies, TypeOK
  <2>2. Exclusion' /\ StartupIdle' /\ ScanSound' /\ ForkSound' /\ ChildSound' /\ ReapSound' /\ ProcSound' /\ ChildIsOwn' /\ NoLostRecorder'
    BY <1>29 DEF ReplacePolicies, Exclusion, StartupIdle, ScanSound, ForkSound, ChildSound, ReapSound, ProcSound, ChildIsOwn, NoLostRecorder, HasTask
  <2>. QED
    BY <2>1, <2>2 DEF RecorderInv
<1>30. ASSUME NEW p \in Pid,
             ProcessExits(p)
      PROVE  RecorderInv'
  <2>1. TypeOK'
    BY <1>30 DEF ProcessExits, Live, TypeOK
  <2>2. StartupIdle'
    BY <1>30 DEF ProcessExits, Live, StartupIdle, TypeOK
  <2>3. ForkSound'
    BY <1>30 DEF ProcessExits, Live, ForkSound, HasTask, TypeOK
  <2>4. ReapSound'
    BY <1>30 DEF ProcessExits, Live, ReapSound, TypeOK
  <2>5. ProcSound'
    BY <1>30 DEF ProcessExits, Live, ProcSound, HasTask, StartupIdle, TypeOK
  <2>6. ChildIsOwn'
    BY <1>30 DEF ProcessExits, Live, ChildIsOwn, TypeOK
  <2>7. NoLostRecorder'
    BY <1>30 DEF ProcessExits, Live, NoLostRecorder, TypeOK
  <2>8. Exclusion' /\ ScanSound' /\ ChildSound'
    BY <1>30 DEF ProcessExits, Exclusion, ScanSound, ChildSound, HasTask
  <2>. QED
    BY <2>1, <2>2, <2>3, <2>4, <2>5, <2>6, <2>7, <2>8 DEF RecorderInv
<1>31. CASE UNCHANGED vars
  BY <1>31 DEF vars, RecorderInv, TypeOK, Exclusion, StartupIdle, ScanSound, ForkSound,
     ChildSound, ReapSound, ProcSound, ChildIsOwn, NoLostRecorder, HasTask
<1>. QED BY [Next]_vars, <1>1, <1>2, <1>3, <1>4, <1>5, <1>6, <1>7, <1>8, <1>9, <1>10, <1>11, <1>12, <1>13, <1>14, <1>15, <1>16, <1>17, <1>18, <1>19, <1>20, <1>21, <1>22, <1>23, <1>24, <1>25, <1>26, <1>27, <1>28, <1>29, <1>30, <1>31 DEF Next, CreateTask, DispatchTask, SignalThread, ProcessCamera, Terminated

(***************************************************************************)
(* The safety theorems. All need that the kernel does not give a pid out   *)
(* again while the program remembers it: with PidReuse TRUE TLC finds two  *)
(* tasks with the same child.                                              *)
(***************************************************************************)

\* The initial states satisfy the invariant.
LEMMA InvInit == Init => RecorderInv
<1> SUFFICES ASSUME Init PROVE RecorderInv
  OBVIOUS
<1>1. TypeOK
  BY DEF Init, TypeOK
<1>2. Exclusion /\ StartupIdle /\ ScanSound /\ ForkSound
  BY DEF Init, Exclusion, StartupIdle, ScanSound, ForkSound
<1>3. ChildSound /\ ReapSound /\ ProcSound /\ ChildIsOwn /\ NoLostRecorder
  BY DEF Init, ChildSound, ReapSound, ProcSound, ChildIsOwn, NoLostRecorder
<1>. QED
  BY <1>1, <1>2, <1>3 DEF RecorderInv

\* The inductive invariant holds, whatever the threads and the kernel do.
THEOREM InvariantHolds == ASSUME ~PidReuse PROVE Spec => []RecorderInv
<1>1. RecorderInv /\ [Next]_vars => RecorderInv'
  BY InvStep
<1>. QED
  BY <1>1, InvInit, PTL DEF Spec

\* No camera is ever recorded by two processes at once (dispatchTask, taskExit).
THEOREM OneRecorder == ASSUME ~PidReuse PROVE Spec => []AtMostOneRecorder
<1>1. RecorderInv => AtMostOneRecorder
  BY DEF RecorderInv, ProcSound, AtMostOneRecorder, Live
<1>. QED
  BY <1>1, InvariantHolds, PTL

\* No recorder is left running that the program cannot stop (processCamera's
\* queTask, startTask's pid).
THEOREM NoneLost == ASSUME ~PidReuse PROVE Spec => []NoLostRecorder
<1>1. RecorderInv => NoLostRecorder
  BY DEF RecorderInv
<1>. QED
  BY <1>1, InvariantHolds, PTL

\* The child of a task is its own recorder or one whose exit is on its way, so
\* stopTask and taskExit never act on another camera's process.
THEOREM ChildrenOwn == ASSUME ~PidReuse PROVE Spec => []ChildIsOwn
<1>1. RecorderInv => ChildIsOwn
  BY DEF RecorderInv
<1>. QED
  BY <1>1, InvariantHolds, PTL

(***************************************************************************)
(* The refinement: a step of the program is a step of the contract or      *)
(* leaves its three variables alone.                                       *)
(***************************************************************************)

\* Every step of the program is a step of the contract or changes nothing in it.
LEMMA ContractStep ==
  ASSUME ~PidReuse, RecorderInv, RecorderInv', [Next]_vars
  PROVE  [Contract!Next]_(Contract!cvars)
<1> USE DEF RecorderInv, Contract!cvars
<1>1. ASSUME NEW c \in Camera, DemoAddCamera(c) PROVE UNCHANGED Contract!cvars
  BY <1>1 DEF DemoAddCamera, HasTask, Recorded, Live
<1>2. CASE DemoAddPolicy \/ CreateReadCamera \/ CreateReadPolicy
  BY <1>2 DEF DemoAddPolicy, CreateReadCamera, CreateReadPolicy, HasTask,
     Recorded, Live
<1>3. CASE CreateInsertTask
  <2>1. cur \in Camera /\ copied # None
    BY <1>3 DEF CreateInsertTask, TypeOK
  <2>2. HasTask' = HasTask \cup {cur}
    BY <1>3, <2>1 DEF CreateInsertTask, HasTask, TypeOK
  <2>3. Recorded = {} /\ UNCHANGED Recorded
    BY <1>3 DEF CreateInsertTask, Recorded, Live, StartupIdle
  <2>4. Contract!Create(cur)
    BY <1>3, <2>2, <2>3 DEF CreateInsertTask, Contract!Create
  <2>. QED
    BY <2>1, <2>4 DEF Contract!Next
<1>4. CASE StartupDone
  <2>1. Contract!GoUp
    BY <1>4 DEF StartupDone, Contract!GoUp, HasTask, Recorded, Live
  <2>. QED
    BY <2>1 DEF Contract!Next
<1>5. CASE ReadClock \/ BeginDispatch \/ RecordChild \/ EndDispatch \/ MainExits
  BY <1>5 DEF ReadClock, BeginDispatch, RecordChild, EndDispatch, MainExits,
     HasTask, Recorded, Live
<1>6. ASSUME NEW c \in Camera, StartTask(c)
      PROVE  Contract!Next
  <2>1. PICK p \in Pid : /\ proc[p] = "free" /\ forked' = p
                         /\ proc' = [proc EXCEPT ![p] = "live"]
                         /\ owner' = [owner EXCEPT ![p] = c]
    BY <1>6 DEF StartTask, Allocatable
  <2>2. c \in HasTask
    BY <1>6 DEF StartTask, ScanSound
  <2>3. c \notin Recorded
    <3>. SUFFICES ASSUME NEW q \in Pid, Live(q), owner[q] = c PROVE FALSE
      BY DEF Recorded
    <3>1. q # p /\ proc[q] # "free"
      BY <2>1 DEF Live
    <3>2. proc'[q] # "free" /\ owner'[q] = c /\ proc'[p] # "free" /\ owner'[p] = c
      BY <2>1, <3>1 DEF TypeOK
    <3>. QED
      BY <3>1, <3>2 DEF ProcSound
  <2>4. Recorded' = Recorded \cup {c}
    BY <2>1 DEF Recorded, Live, TypeOK
  <2>5. Contract!Start(c)
    BY <1>6, <2>2, <2>3, <2>4 DEF StartTask, Contract!Start, HasTask
  <2>. QED
    BY <2>5 DEF Contract!Next
<1>7. ASSUME NEW c \in Camera, StartTaskFails(c) \/ PassTask(c)
      PROVE  UNCHANGED Contract!cvars
  BY <1>7 DEF StartTaskFails, PassTask, HasTask, Recorded, Live
<1>8. ASSUME NEW p \in Pid, Kill(p), UNCHANGED owner
      PROVE  UNCHANGED Recorded
  BY <1>8 DEF Kill, Recorded, Live, TypeOK
<1>9. ASSUME NEW c \in Camera, StopTask(c) PROVE UNCHANGED Contract!cvars
  <2>1. child[c] \in Pid
    BY <1>9 DEF StopTask, NeedsStop, TypeOK
  <2>. QED
    BY <1>9, <1>8, <2>1 DEF StopTask, HasTask
<1>10. CASE SigInt \/ SigChild \/ ReapDone \/ TaskExit
  BY <1>10 DEF SigInt, SigChild, ReapDone, TaskExit, HasTask, Recorded, Live
<1>11. ASSUME NEW p \in Pid, Reap(p) PROVE UNCHANGED Contract!cvars
  <2>1. \A q \in Pid : Live(q)' <=> Live(q)
    BY <1>11 DEF Reap, Live, TypeOK
  <2>2. \A q \in Pid : Live(q) => owner'[q] = owner[q]
    BY <1>11 DEF Reap, Live, TypeOK
  <2>3. UNCHANGED Recorded
    BY <2>1, <2>2 DEF Recorded
  <2>. QED
    BY <1>11, <2>3 DEF Reap, HasTask
<1>12. ASSUME NEW w \in Worker,
              ClearCameras(w) \/ BeginCheck(w) \/ EndCheck(w) \/ EndKill(w)
       PROVE  UNCHANGED Contract!cvars
  BY <1>12 DEF ClearCameras, BeginCheck, EndCheck, EndKill, HasTask, Recorded, Live
<1>13. ASSUME NEW w \in Worker, NEW c \in Camera, InsertCamera(w, c) \/ KeepTask(w, c)
       PROVE  UNCHANGED Contract!cvars
  BY <1>13 DEF InsertCamera, KeepTask, HasTask, Recorded, Live
<1>14. ASSUME NEW w \in Worker, NEW c \in Camera, RemoveTask(w, c)
       PROVE  [Contract!Next]_(Contract!cvars)
  <2>1. UNCHANGED Recorded /\ UNCHANGED (mpc \notin Startup)
    BY <1>14 DEF RemoveTask, Recorded, Live
  <2>2. HasTask' = HasTask \ {c}
    BY <1>14 DEF RemoveTask, HasTask, TypeOK
  <2>3. CASE c \in HasTask
    BY <2>1, <2>2, <2>3 DEF Contract!Remove, Contract!Next
  <2>4. CASE c \notin HasTask
    BY <2>1, <2>2, <2>4
  <2>. QED
    BY <2>3, <2>4
<1>15. ASSUME NEW w \in Worker, NEW p \in Pid, KillDoomed(w, p)
       PROVE  UNCHANGED Contract!cvars
  BY <1>15, <1>8 DEF KillDoomed, HasTask
<1>16. CASE ReplacePolicies
  BY <1>16 DEF ReplacePolicies, HasTask, Recorded, Live
<1>17. ASSUME NEW p \in Pid, ProcessExits(p)
       PROVE  Contract!Next
  <2>1. Live(p) /\ owner[p] \in Camera /\ owner[p] \in Recorded
    BY <1>17 DEF ProcessExits, Live, ProcSound, Recorded
  <2>2. \A q \in Pid : Live(q)' <=> Live(q) /\ q # p
    BY <1>17 DEF ProcessExits, Live, TypeOK
  <2>3. \A q \in Pid : Live(q) /\ owner[q] = owner[p] => q = p
    BY <2>1 DEF Live, ProcSound
  <2>4. Recorded' = Recorded \ {owner[p]}
    BY <1>17, <2>2, <2>3 DEF ProcessExits, Recorded
  <2>5. Contract!Stop(owner[p])
    BY <1>17, <2>1, <2>4 DEF ProcessExits, Contract!Stop, HasTask
  <2>. QED
    BY <2>1, <2>5 DEF Contract!Next
<1>18. CASE UNCHANGED vars
  BY <1>18 DEF vars, HasTask, Recorded, Live
<1>. QED
  BY <1>1, <1>2, <1>3, <1>4, <1>5, <1>6, <1>7, <1>9, <1>10, <1>11, <1>12, <1>13,
     <1>14, <1>15, <1>16, <1>17, <1>18
     DEF Next, CreateTask, DispatchTask, SignalThread, ProcessCamera, Terminated

\* The threads and the kernel together implement the contract.
THEOREM Implements == ASSUME ~PidReuse PROVE Spec => ImplementsContract
<1>1. Init => Contract!Init
  BY DEF Init, Contract!Init, HasTask, Recorded, Live
<1>2. RecorderInv /\ RecorderInv' /\ [Next]_vars => [Contract!Next]_(Contract!cvars)
  BY ContractStep
<1>. QED
  BY <1>1, <1>2, InvariantHolds, PTL DEF Spec, ImplementsContract, Contract!Spec

---------------------------------------------------------------------------
(* Why a recorder is killed.                                               *)

\* The children that a notice thread has still to kill are no task's any more, and
\* not on their way into one.
DoomedSound ==
  \A w \in Worker : \A p \in doomed[w] : p # forked /\ \A c \in Camera : child[c] # p

\* Every step keeps it: a fork returns no pid on a kill list, and the child of a
\* removed task was that task's alone.
LEMMA DoomedStep ==
  ASSUME ~PidReuse, RecorderInv, DoomedSound, [Next]_vars
  PROVE  DoomedSound'
<1> USE DEF RecorderInv, TypeOK, DoomedSound
<1>1. CASE UNCHANGED <<doomed, child, forked>>
  BY <1>1
<1>2. CASE CreateTask
  BY <1>2 DEF CreateTask, DemoAddCamera, DemoAddPolicy, CreateReadCamera, CreateReadPolicy,
     CreateInsertTask, StartupDone
<1>3. ASSUME NEW c \in Camera, StartTask(c)
      PROVE  DoomedSound'
  <2>1. PICK p \in Allocatable : forked' = p
    BY <1>3 DEF StartTask
  <2>2. \A w \in Worker : p \notin doomed[w]
    BY <2>1 DEF Allocatable, Remembered
  <2> QED
    BY <1>3, <2>1, <2>2 DEF StartTask
<1>4. CASE RecordChild
  BY <1>4 DEF RecordChild
<1>5. CASE TaskExit
  BY <1>5 DEF TaskExit
<1>6. ASSUME NEW w \in Worker, NEW c \in Camera, RemoveTask(w, c)
      PROVE  DoomedSound'
  <2>1. forked = None
    BY <1>6 DEF RemoveTask, Exclusion
  <2>2. ASSUME NEW v \in Worker, NEW p \in doomed'[v]
        PROVE  p # forked' /\ \A d \in Camera : child'[d] # p
    <3>1. p \in doomed[v] \/ (p = child[c] /\ p # None)
      BY <1>6, <2>2 DEF RemoveTask, ToKill
    <3>2. CASE p \in doomed[v]
      BY <1>6, <3>2 DEF RemoveTask
    <3>3. CASE p = child[c] /\ p # None
      BY <1>6, <2>1, <3>3 DEF RemoveTask, ChildSound
    <3> QED
      BY <3>1, <3>2, <3>3
  <2> QED
    BY <2>2
<1>7. ASSUME NEW w \in Worker, NEW p \in Pid, KillDoomed(w, p)
      PROVE  DoomedSound'
  BY <1>7 DEF KillDoomed
<1>8. ASSUME NEW w \in Worker, NEW c \in Camera,
             \/ ClearCameras(w) \/ BeginCheck(w) \/ EndCheck(w) \/ EndKill(w)
             \/ InsertCamera(w, c) \/ KeepTask(w, c)
      PROVE  UNCHANGED <<doomed, child, forked>>
  BY <1>8 DEF ClearCameras, BeginCheck, EndCheck, EndKill, InsertCamera, KeepTask
<1>9. ASSUME NEW w \in Worker, ClearCameras(w) \/ BeginCheck(w) \/ EndCheck(w) \/ EndKill(w)
      PROVE  UNCHANGED <<doomed, child, forked>>
  BY <1>9 DEF ClearCameras, BeginCheck, EndCheck, EndKill
<1>10. CASE ReadClock \/ BeginDispatch \/ EndDispatch \/ MainExits
  BY <1>1, <1>10 DEF ReadClock, BeginDispatch, EndDispatch, MainExits
<1>11. ASSUME NEW c \in Camera, StartTaskFails(c) \/ StopTask(c) \/ PassTask(c)
       PROVE  UNCHANGED <<doomed, child, forked>>
  BY <1>11 DEF StartTaskFails, StopTask, PassTask
<1>12. CASE SigInt \/ SigChild \/ (\E p \in Pid : Reap(p)) \/ ReapDone
  BY <1>1, <1>12 DEF SigInt, SigChild, Reap, ReapDone
<1>13. CASE ReplacePolicies \/ (\E p \in Pid : ProcessExits(p)) \/ Terminated \/ UNCHANGED vars
  BY <1>1, <1>13 DEF ReplacePolicies, ProcessExits, Terminated, vars
<1> QED
  BY <1>1, <1>2, <1>3, <1>4, <1>5, <1>6, <1>7, <1>8, <1>9, <1>10, <1>11, <1>12, <1>13
     DEF Next, DispatchTask, SignalThread, ProcessCamera

\* Only the dispatcher and the last loop of processCamera kill.
LEMMA KillStep ==
  ASSUME RecorderInv, [Next]_vars, NEW p \in Pid, proc[p] = "live", proc'[p] = "dying"
  PROVE  \/ \E c \in Camera : StopTask(c) /\ child[c] = p
         \/ \E w \in Worker : KillDoomed(w, p)
<1> USE DEF RecorderInv, TypeOK
<1>1. proc' # proc
  OBVIOUS
<1>2. CASE CreateTask
  BY <1>1, <1>2 DEF CreateTask, DemoAddCamera, DemoAddPolicy, CreateReadCamera,
     CreateReadPolicy, CreateInsertTask, StartupDone
<1>3. CASE ReadClock \/ BeginDispatch \/ RecordChild \/ EndDispatch \/ MainExits
  BY <1>1, <1>3 DEF ReadClock, BeginDispatch, RecordChild, EndDispatch, MainExits
<1>4. ASSUME NEW c \in Camera, StartTask(c) \/ StartTaskFails(c) \/ PassTask(c)
      PROVE  FALSE
  BY <1>1, <1>4 DEF StartTask, StartTaskFails, PassTask, Allocatable
<1>5. ASSUME NEW c \in Camera, StopTask(c)
      PROVE  child[c] = p
  <2>1. child[c] # None
    BY <1>5 DEF StopTask, NeedsStop
  <2> QED
    BY <1>5, <2>1 DEF StopTask, Kill
<1>6. CASE SignalThread
  BY <1>1, <1>6 DEF SignalThread, SigInt, SigChild, Reap, ReapDone, TaskExit
<1>7. ASSUME NEW w \in Worker, NEW q \in Pid, KillDoomed(w, q)
      PROVE  q = p
  BY <1>7 DEF KillDoomed, Kill
<1>8. ASSUME NEW w \in Worker, ClearCameras(w) \/ BeginCheck(w) \/ EndCheck(w) \/ EndKill(w)
      PROVE  FALSE
  BY <1>1, <1>8 DEF ClearCameras, BeginCheck, EndCheck, EndKill
<1>9. ASSUME NEW w \in Worker, NEW c \in Camera,
             InsertCamera(w, c) \/ KeepTask(w, c) \/ RemoveTask(w, c)
      PROVE  FALSE
  BY <1>1, <1>9 DEF InsertCamera, KeepTask, RemoveTask
<1>10. CASE ReplacePolicies \/ (\E q \in Pid : ProcessExits(q)) \/ Terminated \/ UNCHANGED vars
  BY <1>1, <1>10 DEF ReplacePolicies, ProcessExits, Terminated, vars
<1> QED
  BY <1>2, <1>3, <1>4, <1>5, <1>6, <1>7, <1>8, <1>9, <1>10
     DEF Next, DispatchTask, ProcessCamera

\* A recorder is killed only when its task is out of its span or has been removed
\* (server_manager.cpp:649-657, 872), for any number of cameras, pids and notice
\* threads and any contents of the camera table.
THEOREM KilledForReason == ASSUME ~PidReuse PROVE Spec => OnlyMeantKilled
<1>1. Init => DoomedSound
  BY DEF Init, DoomedSound
<1>2. RecorderInv /\ DoomedSound /\ [Next]_vars => DoomedSound'
  BY DoomedStep
<1>3. ASSUME RecorderInv, DoomedSound, [Next]_vars, NEW p \in Pid,
             proc[p] = "live", proc'[p] = "dying"
      PROVE  owner[p] \notin HasTask \/ owner[p] \notin inSpan
  <2>1. CASE \E c \in Camera : StopTask(c) /\ child[c] = p
    <3>1. PICK c \in Camera : StopTask(c) /\ child[c] = p
      BY <2>1
    <3>2. c \notin inSpan
      BY <3>1 DEF StopTask, NeedsStop
    <3>3. owner[p] = c
      BY <1>3, <3>1 DEF RecorderInv, TypeOK, ChildIsOwn
    <3> QED
      BY <3>2, <3>3
  <2>2. CASE \E w \in Worker : KillDoomed(w, p)
    <3>1. p # forked /\ \A c \in Camera : child[c] # p
      BY <1>3, <2>2 DEF KillDoomed, DoomedSound
    <3>2. owner[p] \notin HasTask
      BY <1>3, <3>1 DEF RecorderInv, ProcSound
    <3> QED
      BY <3>2
  <2> QED
    BY <1>3, <2>1, <2>2, KillStep
<1>4. RecorderInv /\ DoomedSound /\ [Next]_vars
        => [\A p \in Pid : proc[p] = "live" /\ proc'[p] = "dying"
              => owner[p] \notin HasTask \/ owner[p] \notin inSpan]_vars
  BY <1>3
<1> QED
  BY <1>1, <1>2, <1>4, InvariantHolds, PTL DEF Spec, OnlyMeantKilled
=============================================================================
