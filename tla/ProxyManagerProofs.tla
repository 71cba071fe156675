------------------------- MODULE ProxyManagerProofs -------------------------
(***************************************************************************)
(* Theorems about ProxyManager, for every set of start calls and, unless a *)
(* theorem says otherwise, for every set of faults and with or without     *)
(* overlapping calls.                                                      *)
(***************************************************************************)
EXTENDS ProxyManager, TLAPS

\* The definitions every step of the specification is expanded with.
USE DEF Mode, NoMode, Port, EffectMode, PC, UiPC, ui, inner, threads

-----------------------------------------------------------------------------
(* Type correctness.  TypeOK is not inductive by itself: ApplyProxy adds   *)
(* the mode of the call to effects, which is well typed because only the   *)
(* calls of the System and Pac modes get there.                            *)

ApplyMode == \A s \in Starts : pc[s] = "apply" => want[s] \in EffectMode

TypeInv == TypeOK /\ ApplyMode

\* The ports a mode needs are ports.
LEMMA PortsType == \A m \in Mode : PortsOf(m) \in SUBSET Port
  BY DEF PortsOf

\* The fields stop_inner writes keep their types.
LEMMA StopInnerType ==
    ASSUME TypeOK, StopInner
    PROVE  /\ running' \in BOOLEAN
           /\ mode' \in Mode \cup {NoMode}
           /\ runtime' \in Starts \cup {NoStart}
           /\ tasks' \in SUBSET Starts
           /\ wdStop' \in Starts \cup {NoStart}
           /\ rt' \in [Starts -> {"none", "live", "gone"}]
           /\ aborted' \in SUBSET Starts
           /\ flagged' \in SUBSET Starts
  BY DEF TypeOK, StopInner, RaiseFlag, ClearRecord, ShutdownRuntime, LastRef

\* A step of the user or of the user-interface thread preserves the types.
LEMMA UserType == ASSUME TypeInv, UserStep PROVE TypeInv'
<1>1. ASSUME NEW s \in Starts, PressStart(s) PROVE TypeInv'
  BY <1>1 DEF TypeInv, ApplyMode, TypeOK, PressStart, Spawn
<1>2. CASE PressStop
  BY <1>2 DEF TypeInv, ApplyMode, TypeOK, PressStop, BeginStop
<1>3. CASE RequestExit
  BY <1>3 DEF TypeInv, ApplyMode, TypeOK, RequestExit, BeginStop
<1>4. ASSUME NEW m \in Mode, SwitchProxyMode(m) PROVE TypeInv'
  BY <1>4 DEF TypeInv, ApplyMode, TypeOK, SwitchProxyMode, BeginStop
<1>5. ASSUME NEW m \in Mode, ApplyProxyDialog(m) PROVE TypeInv'
  BY <1>5 DEF TypeInv, ApplyMode, TypeOK, ApplyProxyDialog
<1>6. QED
  BY <1>1, <1>2, <1>3, <1>4, <1>5 DEF UserStep

\* The end of the process preserves the types.
LEMMA EndProcessType == ASSUME TypeInv, EndProcess PROVE TypeInv'
  BY DEF TypeInv, ApplyMode, TypeOK, EndProcess

\* A step of the user-interface thread preserves the types.
LEMMA UiType == ASSUME TypeInv, UiStep PROVE TypeInv'
<1>1. CASE StopReadMode
  BY <1>1 DEF TypeInv, ApplyMode, TypeOK, StopReadMode
<1>2. CASE StopCallInner
  BY <1>2, StopInnerType DEF TypeInv, ApplyMode, TypeOK, StopCallInner
<1>3. CASE StopCleanUp
  BY <1>3, ZenonT(60) DEF TypeInv, ApplyMode, TypeOK, StopCleanUp, RemoveEffect
<1>4. CASE Restart
  <2>1. CASE running = TRUE
    BY <1>4, <2>1, ZenonT(60) DEF TypeInv, ApplyMode, TypeOK, Restart
  <2>2. ASSUME NEW s \in Starts, running = FALSE, Spawn(s) PROVE TypeInv'
    BY <1>4, <2>2, ZenonT(60) DEF TypeInv, ApplyMode, TypeOK, Restart, Spawn
  <2>3. QED
    BY <1>4, <2>1, <2>2, ZenonT(60) DEF TypeInv, TypeOK, Restart
<1>5. CASE Exit
  BY <1>5, EndProcessType DEF Exit
<1>6. QED
  BY <1>1, <1>2, <1>3, <1>4, <1>5 DEF UiStep

\* A step of a start call preserves the types.
LEMMA StartType == ASSUME TypeInv, NEW s \in Starts, StartStep(s) PROVE TypeInv'
<1> USE DEF Goto
<1>1. CASE Publish(s)
  BY <1>1 DEF TypeInv, ApplyMode, TypeOK, Publish, LastRef
<1>2. CASE LockedDropEnds(s)
  BY <1>2 DEF TypeInv, ApplyMode, TypeOK, LockedDropEnds
<1>3. CASE Begin(s)
  <2>1. CASE running = TRUE
    BY <1>3, <2>1 DEF TypeInv, ApplyMode, TypeOK, Begin
  <2>2. CASE running = FALSE
    BY <1>3, <2>2 DEF TypeInv, ApplyMode, TypeOK, Begin
  <2>3. QED
    BY <2>1, <2>2 DEF TypeInv, TypeOK
<1>4. CASE WriteHosts(s)
  <2>1. effects' \in SUBSET EffectMode
    BY <1>4 DEF TypeInv, TypeOK, WriteHosts
  <2>2. pc' \in [Starts -> PC] /\ pc'[s] # "apply"
    BY <1>4 DEF TypeInv, TypeOK, WriteHosts
  <2>3. QED
    BY <1>4, <2>1, <2>2 DEF TypeInv, ApplyMode, TypeOK, WriteHosts
<1>5. CASE Bind(s)
  BY <1>5 DEF TypeInv, ApplyMode, TypeOK, Bind, NextPort, NextAfterBind
<1>6. CASE ApplyProxy(s)
  <2>1. effects' \in SUBSET EffectMode
    BY <1>6 DEF TypeInv, ApplyMode, TypeOK, ApplyProxy
  <2>2. pc' \in [Starts -> PC]
    BY <1>6 DEF TypeInv, TypeOK, ApplyProxy
  <2>3. QED
    BY <1>6, <2>1, <2>2 DEF TypeInv, ApplyMode, TypeOK, ApplyProxy
<1>7. CASE Register(s)
  BY <1>7 DEF TypeInv, ApplyMode, TypeOK, Register, FlagAfter
<1>8. CASE Rollback(s)
  BY <1>8, StopInnerType DEF TypeInv, ApplyMode, TypeOK, Rollback
<1>9. CASE UndoHosts(s)
  <2>1. effects' \in SUBSET EffectMode
    BY <1>9 DEF TypeInv, TypeOK, UndoHosts, RemoveEffect
  <2>2. QED
    BY <1>9, <2>1 DEF TypeInv, ApplyMode, TypeOK, UndoHosts
<1>10. CASE ClearRuntime(s)
  BY <1>10 DEF TypeInv, ApplyMode, TypeOK, ClearRuntime, LastRef
<1>11. CASE Leave(s)
  BY <1>11 DEF TypeInv, ApplyMode, TypeOK, Leave
<1>12. CASE DropEnds(s)
  BY <1>12 DEF TypeInv, ApplyMode, TypeOK, DropEnds
<1>13. QED
  BY <1>1, <1>2, <1>3, <1>4, <1>5, <1>6, <1>7, <1>8, <1>9, <1>10, <1>11, <1>12 DEF StartStep

\* Setting the state of one interceptor preserves the type of all.
LEMMA SetHookType ==
    ASSUME TypeInv, NEW s \in Starts, NEW h \in {"off", "armed", "loop", "recv", "closed"}, SetHook(s, h)
    PROVE  TypeInv'
  BY DEF TypeInv, ApplyMode, TypeOK, SetHook

\* A step of what runs on a runtime preserves the types.
LEMMA RuntimeType == ASSUME TypeInv, NEW s \in Starts, RuntimeStep(s) PROVE TypeInv'
<1>1. ASSUME NEW p \in Port, CloseSocket(s, p) PROVE TypeInv'
  BY <1>1, SMTT(40) DEF TypeInv, ApplyMode, TypeOK, CloseSocket
<1>2. CASE HookOpen(s)
  BY <1>2, SetHookType DEF HookOpen
<1>3. CASE HookCheck(s)
  BY <1>3, SetHookType DEF HookCheck
<1>4. CASE HookPacket(s)
  BY <1>4, SetHookType DEF HookPacket
<1>5. QED
  BY <1>1, <1>2, <1>3, <1>4 DEF RuntimeStep

\* Every state of every behaviour is well typed.
THEOREM TypeCorrect == Spec => []TypeOK
<1>1. Init => TypeInv
  BY ZenonT(60) DEF Init, TypeInv, TypeOK, ApplyMode
<1>2. TypeInv /\ [Next]_vars => TypeInv'
  <2> SUFFICES ASSUME TypeInv, [Next]_vars PROVE TypeInv'
    OBVIOUS
  <2>1. CASE UserStep
    BY <2>1, UserType
  <2>2. CASE UiStep
    BY <2>2, UiType
  <2>3. CASE Kill
    BY <2>3, EndProcessType DEF Kill
  <2>4. ASSUME NEW s \in Starts, StartStep(s) PROVE TypeInv'
    BY <2>4, StartType
  <2>5. ASSUME NEW s \in Starts, RuntimeStep(s) PROVE TypeInv'
    BY <2>5, RuntimeType
  <2>6. CASE UNCHANGED vars
    BY <2>6 DEF vars, TypeInv, TypeOK, ApplyMode
  <2>7. QED
    BY <2>1, <2>2, <2>3, <2>4, <2>5, <2>6 DEF Next
<1>3. TypeInv => TypeOK
  BY DEF TypeInv
<1>4. QED
  BY <1>1, <1>2, <1>3, PTL DEF Spec

-----------------------------------------------------------------------------
(* The record: running and mode.                                           *)

\* Every action that leaves both fields alone; the others are StopInner,
\* EndProcess and Begin.
RecordFrame == UNCHANGED <<running, mode>>

\* Every step that touches the record writes `running` and the mode together.
LEMMA RecordStep ==
    ASSUME [Next]_vars
    PROVE  RecordFrame \/ StopInner \/ EndProcess \/ \E s \in Starts : Begin(s)
<1> USE DEF RecordFrame
<1>1. CASE UserStep
  BY <1>1 DEF UserStep, PressStart, Spawn, PressStop, RequestExit, SwitchProxyMode,
              ApplyProxyDialog
<1>2. CASE UiStep
  BY <1>2 DEF UiStep, StopReadMode, StopCallInner, StopCleanUp, Restart, Spawn, Exit
<1>3. CASE Kill
  BY <1>3 DEF Kill
<1>4. ASSUME NEW s \in Starts, StartStep(s), ~Begin(s) PROVE RecordFrame \/ StopInner
  BY <1>4 DEF StartStep, Publish, LockedDropEnds, WriteHosts, Bind, ApplyProxy,
              Register, Rollback, UndoHosts, ClearRuntime, Leave, DropEnds
<1>5. ASSUME NEW s \in Starts, RuntimeStep(s) PROVE RecordFrame
  BY <1>5 DEF RuntimeStep, CloseSocket, HookOpen, HookCheck, HookPacket, SetHook
<1>6. CASE UNCHANGED vars
  BY <1>6 DEF vars
<1>7. QED
  BY <1>1, <1>2, <1>3, <1>4, <1>5, <1>6 DEF Next

\* The two fields the user interface reads agree in every state.
THEOREM ModeAgreement == Spec => []ModeAgrees
<1>1. Init => ModeAgrees
  BY DEF Init, ModeAgrees
<1>2. TypeOK /\ ModeAgrees /\ [Next]_vars => ModeAgrees'
  <2> SUFFICES ASSUME TypeOK, ModeAgrees, [Next]_vars PROVE ModeAgrees'
    OBVIOUS
  <2>1. CASE RecordFrame
    BY <2>1 DEF RecordFrame, ModeAgrees
  <2>2. CASE StopInner
    BY <2>2 DEF StopInner, ClearRecord, ModeAgrees
  <2>3. CASE EndProcess
    BY <2>3 DEF EndProcess, ModeAgrees
  <2>4. ASSUME NEW s \in Starts, Begin(s) PROVE ModeAgrees'
    <3>1. want[s] \in Mode
      BY DEF TypeOK
    <3>2. CASE running = TRUE
      BY <2>4, <3>2 DEF Begin, ModeAgrees
    <3>3. CASE running = FALSE
      BY <2>4, <3>1, <3>3 DEF Begin, ModeAgrees
    <3>4. QED
      BY <3>2, <3>3 DEF TypeOK
  <2>5. QED
    BY <2>1, <2>2, <2>3, <2>4, RecordStep
<1>3. QED
  BY <1>1, <1>2, TypeCorrect, PTL DEF Spec

-----------------------------------------------------------------------------
(* Runtimes, with any faults and any overlap.                              *)

\* The runtime in the record is alive and its call is under way or returned;
\* the mutex is held across a drop by one thread, and of a runtime whose call
\* has returned.
RuntimeInv ==
    /\ runtime \in Starts =>
        rt[runtime] = "live" /\ pc[runtime] \notin {"unused", "spawned", "dropping"}
    /\ \A s \in Starts : Holds(s) => rt[s] = "live"
    /\ lock \in Starts =>
        /\ pc[lock] = "done" /\ rt[lock] = "gone"
        /\ \E s \in Starts : pc[s] \in {"publishing", "clearing"}
    /\ lock = NoStart => \A s \in Starts : pc[s] \notin {"publishing", "clearing"}
    /\ \A s, t \in Starts :
        {pc[s], pc[t]} \subseteq {"publishing", "clearing"} => s = t

\* stop_inner, called from stop() or by a start call that rolls back.
LEMMA StopInnerRuntime ==
    ASSUME TypeOK, RuntimeInv, StopInner, UNCHANGED lock,
           pc' = pc \/ \E s \in Starts, l \in {"undo", "failed"} :
                         /\ pc[s] \in {"rollback", "rollbackBind"}
                         /\ pc' = [pc EXCEPT ![s] = l]
    PROVE  RuntimeInv'
<1>1. CASE pc' = pc
  BY <1>1 DEF TypeOK, RuntimeInv, StopInner, ShutdownRuntime, LastRef, Holds
<1>2. ASSUME NEW s \in Starts, NEW l \in {"undo", "failed"},
             pc[s] \in {"rollback", "rollbackBind"}, pc' = [pc EXCEPT ![s] = l]
      PROVE  RuntimeInv'
  BY <1>2 DEF TypeOK, RuntimeInv, StopInner, ShutdownRuntime, LastRef, Holds
<1>3. QED
  BY <1>1, <1>2

\* Steps that touch neither the runtimes nor the mutex, and move at most one
\* call between two places where it holds its runtime.
LEMMA RuntimeFrame ==
    ASSUME TypeOK, RuntimeInv, UNCHANGED <<runtime, rt, lock>>,
           NEW s \in Starts, NEW l \in PC,
           \/ pc' = pc
           \/ /\ pc' = [pc EXCEPT ![s] = l]
              /\ Holds(s)
              /\ pc[s] \notin {"publishing", "clearing"}
              /\ l \notin {"unused", "spawned", "publishing", "clearing", "dropping", "done"}
    PROVE  RuntimeInv'
<1>1. CASE pc' = pc
  BY <1>1 DEF RuntimeInv, Holds
<1>2. CASE pc' = [pc EXCEPT ![s] = l]
  BY <1>2 DEF TypeOK, RuntimeInv, Holds
<1>3. QED
  BY <1>1, <1>2

\* A new start call holds no runtime yet.
LEMMA SpawnRuntime ==
    ASSUME TypeOK, RuntimeInv, NEW s \in Starts, Spawn(s)
    PROVE  RuntimeInv'
  BY DEF TypeOK, RuntimeInv, Spawn, Holds

\* The end of the process ends every call at once.
LEMMA EndProcessRuntime ==
    ASSUME RuntimeInv, EndProcess PROVE RuntimeInv'
  BY StartsAssumption DEF RuntimeInv, EndProcess, Holds

\* A step of a start call destroys no runtime under a thread.
LEMMA StartRuntime ==
    ASSUME TypeOK, RuntimeInv, NEW s \in Starts, StartStep(s)
    PROVE  RuntimeInv'
<1> USE DEF Goto
<1>1. CASE Publish(s)
  <2>1. CASE LastRef(runtime)
    BY <1>1, <2>1, StartsAssumption DEF TypeOK, RuntimeInv, Publish, LastRef, Holds
  <2>2. CASE ~LastRef(runtime)
    BY <1>1, <2>2 DEF TypeOK, RuntimeInv, Publish, Holds
  <2>3. QED
    BY <2>1, <2>2
<1>2. CASE LockedDropEnds(s)
  BY <1>2, StartsAssumption DEF TypeOK, RuntimeInv, LockedDropEnds, Holds
<1>3. CASE Begin(s)
  <2>1. PICK l \in {"failed", "hosts", "bind"} : pc' = [pc EXCEPT ![s] = l]
    BY <1>3 DEF Begin
  <2>2. QED
    BY <1>3, <2>1, RuntimeFrame DEF Begin, Holds
<1>4. CASE WriteHosts(s)
  <2>1. PICK l \in {"bind", "rollback"} : pc' = [pc EXCEPT ![s] = l]
    BY <1>4 DEF WriteHosts
  <2>2. QED
    BY <1>4, <2>1, RuntimeFrame DEF WriteHosts, Holds
<1>5. CASE Bind(s)
  <2>1. pc' = pc \/ \E l \in {"apply", "register", "rollbackBind"} : pc' = [pc EXCEPT ![s] = l]
    BY <1>5 DEF Bind, NextAfterBind
  <2>2. pc[s] = "bind" /\ UNCHANGED <<runtime, rt, lock>>
    BY <1>5 DEF Bind
  <2>3. QED
    BY <2>1, <2>2, RuntimeFrame DEF Holds
<1>6. CASE ApplyProxy(s)
  <2>1. PICK l \in {"register", "registerFailed"} : pc' = [pc EXCEPT ![s] = l]
    BY <1>6 DEF ApplyProxy
  <2>2. QED
    BY <1>6, <2>1, RuntimeFrame DEF ApplyProxy, Holds
<1>7. CASE Register(s)
  <2>1. PICK l \in {"leave", "rollback"} : pc' = [pc EXCEPT ![s] = l]
    BY <1>7 DEF Register
  <2>2. QED
    BY <1>7, <2>1, RuntimeFrame DEF Register, Holds
<1>8. CASE Rollback(s)
  BY <1>8, StopInnerRuntime DEF Rollback
<1>9. CASE UndoHosts(s)
  BY <1>9, RuntimeFrame DEF UndoHosts, Holds
<1>10. CASE ClearRuntime(s)
  <2>1. CASE LastRef(runtime)
    BY <1>10, <2>1, StartsAssumption DEF TypeOK, RuntimeInv, ClearRuntime, LastRef, Holds
  <2>2. CASE ~LastRef(runtime)
    BY <1>10, <2>2, StartsAssumption DEF TypeOK, RuntimeInv, ClearRuntime, Holds
  <2>3. QED
    BY <2>1, <2>2
<1>11. CASE Leave(s)
  <2>1. CASE runtime = s
    BY <1>11, <2>1 DEF TypeOK, RuntimeInv, Leave, Holds
  <2>2. CASE runtime # s
    BY <1>11, <2>2 DEF TypeOK, RuntimeInv, Leave, Holds
  <2>3. QED
    BY <2>1, <2>2
<1>12. CASE DropEnds(s)
  BY <1>12 DEF TypeOK, RuntimeInv, DropEnds, Holds
<1>13. QED
  BY <1>1, <1>2, <1>3, <1>4, <1>5, <1>6, <1>7, <1>8, <1>9, <1>10, <1>11, <1>12 DEF StartStep

\* What is known of the runtimes survives every step.
LEMMA RuntimeKept ==
    ASSUME TypeOK, RuntimeInv, [Next]_vars
    PROVE  RuntimeInv'
<1>1. ASSUME UNCHANGED <<runtime, rt, lock, pc>> PROVE RuntimeInv'
  BY <1>1 DEF RuntimeInv, Holds
<1>2. CASE UserStep
  BY <1>1, <1>2, SpawnRuntime DEF UserStep, PressStart, PressStop, RequestExit,
     SwitchProxyMode, ApplyProxyDialog
<1>3. CASE StopCallInner
  BY <1>3, StopInnerRuntime DEF StopCallInner
<1>4. CASE StopReadMode \/ StopCleanUp
  BY <1>1, <1>4 DEF StopReadMode, StopCleanUp
<1>5. CASE Restart
  BY <1>1, <1>5, SpawnRuntime DEF Restart
<1>6. CASE Exit \/ Kill
  BY <1>6, EndProcessRuntime DEF Exit, Kill
<1>7. ASSUME NEW s \in Starts, StartStep(s) PROVE RuntimeInv'
  BY <1>7, StartRuntime
<1>8. ASSUME NEW s \in Starts, RuntimeStep(s) PROVE RuntimeInv'
  BY <1>1, <1>8 DEF RuntimeStep, CloseSocket, HookOpen, HookCheck, HookPacket, SetHook
<1>9. CASE UNCHANGED vars
  BY <1>1, <1>9 DEF vars
<1>10. QED
  BY <1>2, <1>3, <1>4, <1>5, <1>6, <1>7, <1>8, <1>9 DEF Next, UiStep

\* A runtime is owned by nobody before the first start.
LEMMA RuntimeInit == Init => RuntimeInv
  BY StartsAssumption DEF Init, RuntimeInv, Holds

\* No call's runtime is destroyed under it, and at most one thread holds the
\* mutex across a drop, whatever the user does and whatever fails.
THEOREM RuntimeSafety == Spec => []RuntimeOutlivesCall
<1>1. TypeOK /\ RuntimeInv => RuntimeOutlivesCall
  BY DEF TypeOK, RuntimeInv, RuntimeOutlivesCall, Holds
<1>2. QED
  BY <1>1, RuntimeInit, RuntimeKept, TypeCorrect, PTL DEF Spec

-----------------------------------------------------------------------------
(* Side effects, when the user waits for a start call to return and no     *)
(* fault keeps the code from cleaning up.                                  *)

CleanFaults == Faults \cap {"partial", "cleanup", "kill"} = {}

\* The start call has set running and mode and has not undone it.
Owns(s) == pc[s] \in {"hosts", "bind", "apply", "register", "registerFailed",
                      "rollback", "rollbackBind"}

OneAtATime ==
    /\ \A s, t \in Starts : InFlight(s) /\ InFlight(t) => s = t
    /\ uiPc # "idle" => \A s \in Starts : ~InFlight(s)

\* What the thread that works on the record knows of the mode.
ModeKnown ==
    /\ running <=> mode # NoMode
    /\ uiPc = "inner" => uiMode = mode
    /\ uiPc \in {"clean", "restart", "exit"} => mode = NoMode
    /\ \A s \in Starts :
        /\ Owns(s) => mode = want[s]
        /\ pc[s] = "hosts" => want[s] = "Hosts"
        /\ pc[s] \in {"spawned", "publishing", "begin"} => mode = NoMode

\* What is in place at each step.
EffectsKnown ==
    /\ uiPc = "clean" => effects \subseteq {uiMode}
    /\ uiPc # "clean" /\ (\A s \in Starts : pc[s] # "undo") => effects \subseteq {mode}
    /\ \A s \in Starts :
        /\ pc[s] = "undo" => effects \subseteq {"Hosts"}
        /\ pc[s] \in {"hosts", "apply", "registerFailed", "rollback"} => effects = {}
        /\ pc[s] \in {"bind", "rollbackBind"} /\ want[s] # "Hosts" => effects = {}

SequentialInv == OneAtATime /\ ModeKnown /\ EffectsKnown

\* A step that leaves the machine, the record and the user-interface thread
\* alone, and moves a call to a place where the same is known as before.
LEMMA SequentialMove ==
    ASSUME TypeOK, SequentialInv, UNCHANGED <<running, mode, effects, ui, want>>,
           NEW s \in Starts, NEW l \in PC, pc' = [pc EXCEPT ![s] = l],
           \/ /\ pc[s] \in {"publishing", "begin", "spawned"} /\ l \in {"publishing", "begin"}
           \/ /\ pc[s] \in {"failed", "clearing", "leave", "dropping"}
              /\ l \in {"clearing", "leave", "dropping", "done"}
           \/ /\ pc[s] \in {"register"} /\ l = "leave"
           \/ /\ pc[s] \in {"registerFailed"} /\ l = "rollback"
           \/ /\ pc[s] = "hosts" /\ l = "rollback"
           \/ /\ pc[s] = "hosts" /\ l = "bind"
           \/ /\ pc[s] = "bind" /\ l \in {"rollbackBind"}
           \/ /\ pc[s] = "bind" /\ l = "register"
           \/ /\ pc[s] = "bind" /\ want[s] # "Hosts" /\ l = "apply"
           \/ /\ pc[s] = "apply" /\ l = "registerFailed"
    PROVE  SequentialInv'
<1>1. OneAtATime'
  BY DEF TypeOK, SequentialInv, OneAtATime, InFlight
<1>2. ModeKnown'
  BY DEF TypeOK, SequentialInv, ModeKnown, Owns
<1>3. EffectsKnown'
  BY DEF TypeOK, SequentialInv, EffectsKnown
<1>4. QED
  BY <1>1, <1>2, <1>3 DEF SequentialInv

\* Without overlap a call is only started when none is in progress.
LEMMA SequentialSpawn ==
    ASSUME TypeOK, SequentialInv, NEW s \in Starts, Spawn(s), ~running,
           \A t \in Starts : ~InFlight(t),
           uiPc \in {"idle", "restart"}, uiPc' = "idle", uiMode' = uiMode
    PROVE  SequentialInv'
<1>1. OneAtATime'
  BY DEF TypeOK, SequentialInv, OneAtATime, InFlight, Spawn
<1>2. ModeKnown'
  BY DEF TypeOK, SequentialInv, ModeKnown, Owns, Spawn
<1>3. EffectsKnown'
  BY DEF TypeOK, SequentialInv, EffectsKnown, Spawn
<1>4. QED
  BY <1>1, <1>2, <1>3 DEF SequentialInv

\* Steps of the user keep the machine clean.
LEMMA SequentialUser ==
    ASSUME TypeOK, SequentialInv, Overlap = FALSE, UserStep
    PROVE  SequentialInv'
<1>1. \A t \in Starts : ~InFlight(t)
  <2>1. UserMayAct
    BY DEF UserStep, PressStart, PressStop, RequestExit, SwitchProxyMode, ApplyProxyDialog
  <2>2. QED
    BY <2>1, Zenon DEF UserMayAct
<1>2. ASSUME NEW s \in Starts, PressStart(s) PROVE SequentialInv'
  <2>1. Spawn(s) /\ ~running
    BY <1>2, Zenon DEF PressStart
  <2>2. uiPc = "idle" /\ uiPc' = uiPc /\ uiMode' = uiMode
    BY <1>2 DEF PressStart, UserMayAct
  <2>3. QED
    BY <1>1, <2>1, <2>2, SequentialSpawn
<1>3. ASSUME UNCHANGED <<running, mode, effects, want, pc, uiMode>>, uiPc' = uiPc \/ uiPc' = "read",
             uiPc = "idle"
      PROVE  SequentialInv'
  BY <1>1, <1>3 DEF SequentialInv, OneAtATime, ModeKnown, EffectsKnown, InFlight, Owns
<1>4. QED
  BY <1>2, <1>3 DEF UserStep, PressStop, RequestExit, SwitchProxyMode, ApplyProxyDialog,
     BeginStop, UserMayAct

\* Steps of stop() keep the machine clean.
LEMMA SequentialUi ==
    ASSUME TypeOK, SequentialInv, CleanFaults, UiStep
    PROVE  SequentialInv'
<1>1. CASE StopReadMode
  BY <1>1 DEF SequentialInv, OneAtATime, ModeKnown, EffectsKnown, InFlight, Owns, StopReadMode
<1>2. CASE StopCallInner
  <2>1. OneAtATime'
    BY <1>2 DEF SequentialInv, OneAtATime, InFlight, StopCallInner
  <2>2. ModeKnown'
    BY <1>2 DEF SequentialInv, OneAtATime, ModeKnown, InFlight, Owns, StopCallInner, StopInner,
       ClearRecord
  <2>3. EffectsKnown'
    BY <1>2 DEF SequentialInv, OneAtATime, ModeKnown, EffectsKnown, InFlight, StopCallInner
  <2>4. QED
    BY <2>1, <2>2, <2>3 DEF SequentialInv
<1>3. CASE StopCleanUp
  <2>1. effects' = {}
    BY <1>3 DEF TypeOK, SequentialInv, EffectsKnown, StopCleanUp, RemoveEffect, CleanFaults
  <2>2. uiPc' \in {"idle", "restart", "exit"} /\ \A s \in Starts : ~InFlight(s)
    BY <1>3 DEF TypeOK, SequentialInv, OneAtATime, StopCleanUp
  <2>3. OneAtATime'
    BY <1>3, <2>2 DEF SequentialInv, OneAtATime, InFlight, StopCleanUp
  <2>4. ModeKnown'
    BY <1>3, <2>2 DEF SequentialInv, ModeKnown, Owns, StopCleanUp
  <2>5. EffectsKnown'
    BY <2>1, <2>2 DEF EffectsKnown
  <2>6. QED
    BY <2>3, <2>4, <2>5 DEF SequentialInv
<1>4. CASE Restart
  <2>1. CASE running = TRUE
    BY <1>4, <2>1 DEF SequentialInv, ModeKnown, Restart
  <2>2. CASE running = FALSE
    <3>1. PICK s \in Starts : Spawn(s)
      BY <1>4, <2>2 DEF Restart
    <3>2. QED
      BY <1>4, <2>2, <3>1, SequentialSpawn DEF SequentialInv, OneAtATime, Restart
  <2>3. QED
    BY <2>1, <2>2 DEF TypeOK
<1>5. CASE Exit
  <2>1. effects' = {}
    BY <1>5 DEF TypeOK, SequentialInv, OneAtATime, ModeKnown, EffectsKnown, InFlight, Exit, EndProcess
  <2>2. QED
    BY <1>5, <2>1 DEF SequentialInv, OneAtATime, ModeKnown, EffectsKnown, InFlight, Owns,
       Exit, EndProcess
<1>6. QED
  BY <1>1, <1>2, <1>3, <1>4, <1>5 DEF UiStep

\* Steps of the one start call keep the machine clean.
LEMMA SequentialStart ==
    ASSUME TypeOK, SequentialInv, CleanFaults, NEW s \in Starts, StartStep(s)
    PROVE  SequentialInv'
<1> USE DEF Goto
<1>1. CASE Publish(s)
  BY <1>1, SequentialMove DEF Publish
<1>2. CASE LockedDropEnds(s)
  BY <1>2, SequentialMove DEF LockedDropEnds
<1>3. CASE Begin(s)
  <2>1. running = FALSE
    BY <1>3 DEF TypeOK, SequentialInv, ModeKnown, Begin
  <2>2. effects = {}
    BY <1>3 DEF TypeOK, SequentialInv, OneAtATime, ModeKnown, EffectsKnown, InFlight, Begin
  <2>3. OneAtATime'
    BY <1>3, <2>1 DEF TypeOK, SequentialInv, OneAtATime, InFlight, Begin
  <2>4. ModeKnown'
    BY <1>3, <2>1 DEF TypeOK, SequentialInv, OneAtATime, ModeKnown, InFlight, Owns, Begin
  <2>5. EffectsKnown'
    BY <1>3, <2>2 DEF EffectsKnown, Begin
  <2>6. QED
    BY <2>3, <2>4, <2>5 DEF SequentialInv
<1>4. CASE WriteHosts(s)
  <2>1. CASE UNCHANGED effects
    BY <1>4, <2>1, SequentialMove DEF WriteHosts
  <2>2. CASE effects' = effects \cup {"Hosts"} /\ pc' = [pc EXCEPT ![s] = "bind"]
    <3>1. want[s] = "Hosts"
      BY <1>4 DEF SequentialInv, ModeKnown, WriteHosts
    <3>2. QED
      BY <1>4, <2>2, <3>1 DEF TypeOK, SequentialInv, OneAtATime, ModeKnown, EffectsKnown, InFlight, Owns, WriteHosts
  <2>3. QED
    BY <1>4, <2>1, <2>2 DEF WriteHosts
<1>5. CASE Bind(s)
  <2>1. CASE pc' = pc
    BY <1>5, <2>1 DEF SequentialInv, OneAtATime, ModeKnown, EffectsKnown, InFlight, Owns, Bind
  <2>2. ASSUME NEW l \in {"apply", "register", "rollbackBind"}, pc' = [pc EXCEPT ![s] = l],
               l = "apply" => want[s] # "Hosts"
        PROVE  SequentialInv'
    BY <1>5, <2>2, SequentialMove DEF Bind
  <2>3. QED
    BY <1>5, <2>1, <2>2 DEF Bind, NextAfterBind
<1>6. CASE ApplyProxy(s)
  <2>1. CASE UNCHANGED effects /\ pc' = [pc EXCEPT ![s] = "registerFailed"]
    BY <1>6, <2>1, SequentialMove DEF ApplyProxy
  <2>2. CASE effects' = effects \cup {want[s]} /\ pc' = [pc EXCEPT ![s] = "register"]
    BY <1>6, <2>2, ZenonT(60) DEF TypeOK, SequentialInv, OneAtATime, ModeKnown, EffectsKnown, InFlight,
       Owns, ApplyProxy
  <2>3. QED
    BY <1>6, <2>1, <2>2 DEF ApplyProxy, CleanFaults
<1>7. CASE Register(s)
  <2>1. CASE pc[s] = "register"
    BY <1>7, <2>1, SequentialMove DEF Register
  <2>2. CASE pc[s] = "registerFailed"
    BY <1>7, <2>2, SequentialMove DEF Register
  <2>3. QED
    BY <1>7, <2>1, <2>2 DEF Register
<1>8. CASE Rollback(s)
  <2>1. PICK l \in {"undo", "failed"} :
          pc' = [pc EXCEPT ![s] = l]
          /\ (l = "undo" <=> pc[s] = "rollbackBind" /\ want[s] = "Hosts")
    BY <1>8 DEF Rollback
  <2>2. OneAtATime'
    BY <1>8, <2>1 DEF TypeOK, SequentialInv, OneAtATime, InFlight, Rollback
  <2>3. ModeKnown'
    BY <1>8, <2>1 DEF TypeOK, SequentialInv, OneAtATime, ModeKnown, InFlight, Owns,
       Rollback, StopInner, ClearRecord
  <2>4. EffectsKnown'
    <3>1. \A t \in Starts : t # s => ~InFlight(t) /\ pc'[t] = pc[t]
      BY <1>8, <2>1 DEF TypeOK, SequentialInv, OneAtATime, InFlight, Rollback
    <3>2. uiPc = "idle" /\ uiPc' = "idle" /\ effects' = effects /\ pc'[s] = l
      BY <1>8, <2>1 DEF TypeOK, SequentialInv, OneAtATime, InFlight, Rollback
    <3>3. CASE l = "undo"
      BY <1>8, <2>1, <3>1, <3>2, <3>3 DEF SequentialInv, ModeKnown, EffectsKnown, Owns, InFlight
    <3>4. CASE l = "failed"
      BY <1>8, <2>1, <3>1, <3>2, <3>4 DEF SequentialInv, EffectsKnown, InFlight, Rollback
    <3>5. QED
      BY <3>3, <3>4
  <2>5. QED
    BY <2>2, <2>3, <2>4 DEF SequentialInv
<1>9. CASE UndoHosts(s)
  <2>1. effects' = {}
    BY <1>9 DEF SequentialInv, EffectsKnown, UndoHosts, RemoveEffect, CleanFaults
  <2>2. OneAtATime'
    BY <1>9 DEF TypeOK, SequentialInv, OneAtATime, InFlight, UndoHosts
  <2>3. ModeKnown'
    BY <1>9 DEF TypeOK, SequentialInv, ModeKnown, Owns, UndoHosts
  <2>4. QED
    BY <2>1, <2>2, <2>3 DEF SequentialInv, EffectsKnown
<1>10. CASE ClearRuntime(s)
  <2>1. PICK l \in {"clearing", "leave"} : pc' = [pc EXCEPT ![s] = l]
    BY <1>10 DEF ClearRuntime
  <2>2. QED
    BY <1>10, <2>1, SequentialMove DEF ClearRuntime
<1>11. CASE Leave(s)
  <2>1. PICK l \in {"dropping", "done"} : pc' = [pc EXCEPT ![s] = l]
    BY <1>11 DEF Leave
  <2>2. QED
    BY <1>11, <2>1, SequentialMove DEF Leave
<1>12. CASE DropEnds(s)
  BY <1>12, SequentialMove DEF DropEnds
<1>13. QED
  BY <1>1, <1>2, <1>3, <1>4, <1>5, <1>6, <1>7, <1>8, <1>9, <1>10, <1>11, <1>12 DEF StartStep

\* When the user lets every start call return before touching a button, and no
\* registry write fails half-way, no removal fails and the process is not
\* killed, the machine carries at most the side effect of the running mode:
\* stops, switches, failed starts and exits clean up completely.
THEOREM CleanAfterStop ==
    ASSUME Overlap = FALSE, CleanFaults
    PROVE  Spec => []EffectsMatchMode
<1>1. Init => SequentialInv
  BY DEF Init, SequentialInv, OneAtATime, ModeKnown, EffectsKnown, InFlight, Owns
<1>2. TypeOK /\ SequentialInv /\ [Next]_vars => SequentialInv'
  <2> SUFFICES ASSUME TypeOK, SequentialInv, [Next]_vars PROVE SequentialInv'
    OBVIOUS
  <2>1. CASE UserStep
    BY <2>1, SequentialUser
  <2>2. CASE UiStep
    BY <2>2, SequentialUi
  <2>3. CASE Kill
    BY <2>3 DEF Kill, CleanFaults
  <2>4. ASSUME NEW s \in Starts, StartStep(s) PROVE SequentialInv'
    BY <2>4, SequentialStart
  <2>5. ASSUME UNCHANGED <<running, mode, want, pc, effects, ui>> PROVE SequentialInv'
    BY <2>5 DEF SequentialInv, OneAtATime, ModeKnown, EffectsKnown, InFlight, Owns
  <2>6. ASSUME NEW s \in Starts, RuntimeStep(s) PROVE SequentialInv'
    BY <2>5, <2>6 DEF RuntimeStep, CloseSocket, HookOpen, HookCheck, HookPacket, SetHook
  <2>7. CASE UNCHANGED vars
    BY <2>5, <2>7 DEF vars
  <2>8. QED
    BY <2>1, <2>2, <2>3, <2>4, <2>6, <2>7 DEF Next
<1>3. SequentialInv => EffectsMatchMode
  BY DEF SequentialInv, EffectsKnown, EffectsMatchMode, Settled, InFlight
<1>4. QED
  BY <1>1, <1>2, <1>3, TypeCorrect, PTL DEF Spec

-----------------------------------------------------------------------------
(* The proxy behind the record, when the user waits for a start call to    *)
(* return, whatever fails.                                                 *)

\* The record belongs to one call at a time.
OrderInv == OneAtATime /\ ModeKnown

\* A step of a call that leaves the record and the user-interface thread alone.
LEMMA OrderMove ==
    ASSUME TypeOK, OrderInv, UNCHANGED <<running, mode, ui, want>>,
           NEW s \in Starts, NEW l \in PC, pc' = [pc EXCEPT ![s] = l], InFlight(s), Owns(s)' => Owns(s),
           l # "hosts", l \in {"spawned", "publishing", "begin"} => pc[s] \in {"spawned", "publishing", "begin"}
    PROVE  OrderInv'
<1>1. OneAtATime'
  BY DEF TypeOK, OrderInv, OneAtATime, InFlight
<1>2. ModeKnown'
  BY DEF TypeOK, OrderInv, ModeKnown, Owns
<1> QED
  BY <1>1, <1>2 DEF OrderInv

LEMMA OrderSpawn ==
    ASSUME TypeOK, OrderInv, NEW s \in Starts, Spawn(s), ~running,
           \A t \in Starts : ~InFlight(t),
           uiPc \in {"idle", "restart"}, uiPc' = "idle", uiMode' = uiMode
    PROVE  OrderInv'
<1>1. OneAtATime'
  BY DEF TypeOK, OrderInv, OneAtATime, InFlight, Spawn
<1>2. ModeKnown'
  BY DEF TypeOK, OrderInv, ModeKnown, Owns, Spawn
<1> QED
  BY <1>1, <1>2 DEF OrderInv

LEMMA OrderUser ==
    ASSUME TypeOK, OrderInv, Overlap = FALSE, UserStep
    PROVE  OrderInv'
<1>1. \A t \in Starts : ~InFlight(t)
  <2>1. UserMayAct
    BY DEF UserStep, PressStart, PressStop, RequestExit, SwitchProxyMode, ApplyProxyDialog
  <2> QED
    BY <2>1, Zenon DEF UserMayAct
<1>2. ASSUME NEW s \in Starts, PressStart(s) PROVE OrderInv'
  <2>1. Spawn(s) /\ ~running
    BY <1>2, Zenon DEF PressStart
  <2>2. uiPc = "idle" /\ uiPc' = uiPc /\ uiMode' = uiMode
    BY <1>2 DEF PressStart, UserMayAct
  <2> QED
    BY <1>1, <2>1, <2>2, OrderSpawn
<1>3. ASSUME UNCHANGED <<running, mode, want, pc, uiMode>>, uiPc' = uiPc \/ uiPc' = "read",
             uiPc = "idle"
      PROVE  OrderInv'
  BY <1>1, <1>3 DEF OrderInv, OneAtATime, ModeKnown, InFlight, Owns
<1> QED
  BY <1>2, <1>3 DEF UserStep, PressStop, RequestExit, SwitchProxyMode, ApplyProxyDialog,
     BeginStop, UserMayAct

LEMMA OrderEnd == ASSUME EndProcess PROVE OrderInv'
  BY DEF EndProcess, OrderInv, OneAtATime, ModeKnown, InFlight, Owns

LEMMA OrderUi ==
    ASSUME TypeOK, OrderInv, UiStep
    PROVE  OrderInv'
<1>1. CASE StopReadMode
  BY <1>1 DEF OrderInv, OneAtATime, ModeKnown, InFlight, Owns, StopReadMode
<1>2. CASE StopCallInner
  <2>1. OneAtATime'
    BY <1>2 DEF OrderInv, OneAtATime, InFlight, StopCallInner
  <2>2. ModeKnown'
    BY <1>2 DEF OrderInv, OneAtATime, ModeKnown, InFlight, Owns, StopCallInner, StopInner, ClearRecord
  <2> QED
    BY <2>1, <2>2 DEF OrderInv
<1>3. CASE StopCleanUp
  <2>1. uiPc' \in {"idle", "restart", "exit"} /\ \A s \in Starts : ~InFlight(s)
    BY <1>3 DEF TypeOK, OrderInv, OneAtATime, StopCleanUp
  <2>2. OneAtATime'
    BY <1>3, <2>1 DEF OrderInv, OneAtATime, InFlight, StopCleanUp
  <2>3. ModeKnown'
    BY <1>3, <2>1 DEF OrderInv, ModeKnown, Owns, StopCleanUp
  <2> QED
    BY <2>2, <2>3 DEF OrderInv
<1>4. CASE Restart
  <2>1. CASE running = TRUE
    BY <1>4, <2>1 DEF OrderInv, ModeKnown, Restart
  <2>2. CASE running = FALSE
    <3>1. PICK s \in Starts : Spawn(s)
      BY <1>4, <2>2 DEF Restart
    <3> QED
      BY <1>4, <2>2, <3>1, OrderSpawn DEF OrderInv, OneAtATime, Restart
  <2> QED
    BY <2>1, <2>2 DEF TypeOK
<1>5. CASE Exit
  BY <1>5, OrderEnd DEF Exit
<1> QED
  BY <1>1, <1>2, <1>3, <1>4, <1>5 DEF UiStep

LEMMA OrderStart ==
    ASSUME TypeOK, OrderInv, NEW s \in Starts, StartStep(s)
    PROVE  OrderInv'
<1> USE DEF Goto
<1>0. InFlight(s) /\ pc \in [Starts -> PC]
  BY DEF StartStep, InFlight, Publish, LockedDropEnds, Begin, WriteHosts, Bind, ApplyProxy,
         Register, Rollback, UndoHosts, ClearRuntime, Leave, DropEnds, TypeOK
<1>1. CASE Publish(s) \/ LockedDropEnds(s)
  <2>1. UNCHANGED <<running, mode, ui, want>> /\ pc[s] \in {"spawned", "publishing", "clearing"}
    BY <1>1 DEF Publish, LockedDropEnds
  <2>2. \E l \in {"publishing", "begin", "leave"} :
            pc' = [pc EXCEPT ![s] = l] /\ (l # "leave" => pc[s] \in {"spawned", "publishing"})
    BY <1>1 DEF Publish, LockedDropEnds
  <2> QED
    BY <1>0, <2>1, <2>2, OrderMove DEF Owns
<1>2. CASE Begin(s)
  <2>1. running = FALSE
    BY <1>2 DEF TypeOK, OrderInv, ModeKnown, Begin
  <2>2. OneAtATime'
    BY <1>2, <2>1 DEF TypeOK, OrderInv, OneAtATime, InFlight, Begin
  <2>3. ModeKnown'
    BY <1>2, <2>1 DEF TypeOK, OrderInv, OneAtATime, ModeKnown, InFlight, Owns, Begin
  <2> QED
    BY <2>2, <2>3 DEF OrderInv
<1>3. CASE WriteHosts(s) \/ ApplyProxy(s) \/ Register(s)
  <2>1. UNCHANGED <<running, mode, ui, want>> /\ Owns(s)
    BY <1>3 DEF WriteHosts, ApplyProxy, Register, Owns
  <2>2. \E l \in {"bind", "rollback", "register", "registerFailed", "leave"} : pc' = [pc EXCEPT ![s] = l]
    BY <1>3 DEF WriteHosts, ApplyProxy, Register
  <2> QED
    BY <1>0, <2>1, <2>2, OrderMove
<1>4. CASE Bind(s)
  <2>1. UNCHANGED <<running, mode, ui, want>> /\ Owns(s)
    BY <1>4 DEF Bind, Owns
  <2>2. pc' = pc \/ \E l \in {"apply", "register", "rollbackBind"} : pc' = [pc EXCEPT ![s] = l]
    BY <1>4 DEF Bind, NextAfterBind
  <2>3. CASE pc' = pc
    BY <2>1, <2>3 DEF OrderInv, OneAtATime, ModeKnown, InFlight, Owns
  <2> QED
    BY <1>0, <2>1, <2>2, <2>3, OrderMove
<1>5. CASE Rollback(s)
  <2>1. PICK l \in {"undo", "failed"} : pc' = [pc EXCEPT ![s] = l]
    BY <1>5 DEF Rollback
  <2>2. OneAtATime'
    BY <1>5, <2>1 DEF TypeOK, OrderInv, OneAtATime, InFlight, Rollback
  <2>3. ModeKnown'
    BY <1>5, <2>1 DEF TypeOK, OrderInv, OneAtATime, ModeKnown, InFlight, Owns,
       Rollback, StopInner, ClearRecord
  <2> QED
    BY <2>2, <2>3 DEF OrderInv
<1>6. CASE UndoHosts(s) \/ ClearRuntime(s) \/ Leave(s) \/ DropEnds(s)
  <2>1. UNCHANGED <<running, mode, ui, want>>
    BY <1>6 DEF UndoHosts, ClearRuntime, Leave, DropEnds
  <2>2. \E l \in {"failed", "clearing", "leave", "dropping", "done"} : pc' = [pc EXCEPT ![s] = l]
    BY <1>6 DEF UndoHosts, ClearRuntime, Leave, DropEnds
  <2> QED
    BY <1>0, <2>1, <2>2, OrderMove DEF Owns
<1> QED
  BY <1>1, <1>2, <1>3, <1>4, <1>5, <1>6 DEF StartStep

LEMMA OrderStep ==
    ASSUME TypeOK, OrderInv, Overlap = FALSE, [Next]_vars
    PROVE  OrderInv'
<1>1. ASSUME UNCHANGED <<running, mode, want, pc, ui>> PROVE OrderInv'
  BY <1>1 DEF OrderInv, OneAtATime, ModeKnown, InFlight, Owns
<1>2. ASSUME NEW s \in Starts, RuntimeStep(s) PROVE OrderInv'
  BY <1>1, <1>2 DEF RuntimeStep, CloseSocket, HookOpen, HookCheck, HookPacket, SetHook
<1>3. CASE UNCHANGED vars
  BY <1>1, <1>3 DEF vars
<1>4. CASE Kill
  BY <1>4, OrderEnd DEF Kill
<1> QED
  BY <1>2, <1>3, <1>4, OrderUser, OrderUi, OrderStart DEF Next

\* Places a call passes before it registers its tasks.
Unregistered == {"unused", "spawned", "publishing", "begin", "hosts", "bind", "apply"}

\* Nothing of such a call was registered, aborted or flagged.
CallFresh == \A s \in Starts :
    pc[s] \in Unregistered => s \notin tasks \cup aborted \cup flagged /\ s # wdStop

\* The sockets of a call that is still binding.
CallPorts == \A s \in Starts :
    /\ pc[s] \in {"unused", "spawned", "publishing", "begin", "hosts"} => listen[s] = {}
    /\ pc[s] = "bind" => listen[s] \subseteq PortsOf(want[s]) /\ listen[s] # PortsOf(want[s])

\* A call that works on the record has published its runtime there; a call that
\* has failed has left the record stopped.
CallRecord == \A s \in Starts :
    /\ pc[s] \in {"publishing", "begin"} \/ Owns(s) => runtime = s
    /\ pc[s] \in {"undo", "failed", "clearing"} => running = FALSE

\* What stands behind a record that says "running", step by step of the call.
Owned ==
    /\ runtime \in Starts
    /\ Owns(runtime) \/ pc[runtime] \in {"leave", "done"}
    /\ runtime \notin aborted \cup flagged
    /\ mode = want[runtime]
Bound == pc[runtime] \in {"apply", "register", "leave", "done"} =>
            listen[runtime] = PortsOf(want[runtime])
Applied == pc[runtime] \in {"register", "leave", "done"} /\ want[runtime] \in {"System", "Pac"} =>
            want[runtime] \in effects
Stoppable == pc[runtime] \in {"leave", "done"} /\ want[runtime] = "DnsIntercept" => wdStop = runtime

Served == running = TRUE => Owned /\ Bound /\ Applied /\ Stoppable

ServingInv == CallFresh /\ CallPorts /\ CallRecord /\ Served

\* A step of one call that leaves the record, the runtimes and the sockets alone.
LEMMA ServingIdle ==
    ASSUME ServingInv,
           UNCHANGED <<running, mode, runtime, tasks, wdStop, pc, want, aborted, flagged, listen>>,
           effects' = effects \/ running = FALSE
    PROVE  ServingInv'
<1>1. CallFresh' /\ CallPorts' /\ CallRecord'
  BY DEF ServingInv, CallFresh, CallPorts, CallRecord, Owns
<1>2. Served'
  BY DEF ServingInv, Served, Owned, Bound, Applied, Stoppable, Owns
<1> QED
  BY <1>1, <1>2 DEF ServingInv

\* With the record stopped, only the calls themselves are to be looked at.
LEMMA ServingStopped ==
    ASSUME running' = FALSE, CallFresh', CallPorts', CallRecord'
    PROVE  ServingInv'
  BY DEF ServingInv, Served

\* A new call is started only when the record is stopped.
LEMMA ServingSpawn ==
    ASSUME TypeOK, ServingInv, NEW s \in Starts, Spawn(s), running = FALSE
    PROVE  ServingInv'
<1>1. /\ pc[s] = "unused" /\ pc' = [pc EXCEPT ![s] = "spawned"]
      /\ want' = [want EXCEPT ![s] = chosen] /\ pc \in [Starts -> PC] /\ want \in [Starts -> Mode]
      /\ UNCHANGED <<running, runtime, tasks, wdStop, aborted, flagged, listen>>
  BY DEF Spawn, TypeOK
<1>2. CallFresh'
  BY <1>1 DEF ServingInv, CallFresh, Unregistered
<1>3. CallPorts'
  BY <1>1 DEF ServingInv, CallPorts
<1>4. CallRecord'
  BY <1>1 DEF ServingInv, CallRecord, Owns
<1> QED
  BY <1>1, <1>2, <1>3, <1>4, ServingStopped

\* stop_inner touches no call that has not registered.
LEMMA StopInnerServing ==
    ASSUME TypeOK, ServingInv, StopInner
    PROVE  /\ running' = FALSE
           /\ \A s \in Starts : pc[s] \in Unregistered =>
                    s \notin tasks' \cup aborted' \cup flagged' /\ s # wdStop'
  BY StartsAssumption DEF TypeOK, ServingInv, CallFresh, StopInner, RaiseFlag, ClearRecord

LEMMA ServingEnd == ASSUME EndProcess PROVE ServingInv'
  BY DEF EndProcess, ServingInv, CallFresh, CallPorts, CallRecord, Served, Unregistered, Owns

LEMMA ServingUi ==
    ASSUME TypeOK, OrderInv, ServingInv, UiStep
    PROVE  ServingInv'
<1>1. CASE StopReadMode
  BY <1>1, ServingIdle DEF StopReadMode
<1>2. CASE StopCallInner
  <2>1. StopInner /\ pc' = pc /\ listen' = listen /\ want' = want
    BY <1>2, Zenon DEF StopCallInner
  <2>2. \A s \in Starts : ~InFlight(s)
    BY <1>2 DEF StopCallInner, OrderInv, OneAtATime
  <2>3. CallFresh'
    BY <2>1, StopInnerServing DEF CallFresh
  <2>4. CallPorts'
    BY <2>1 DEF ServingInv, CallPorts
  <2>5. CallRecord'
    BY <2>1, <2>2 DEF CallRecord, Owns, InFlight
  <2> QED
    BY <2>1, <2>3, <2>4, <2>5, ServingStopped, StopInnerServing
<1>3. CASE StopCleanUp
  <2>1. running = FALSE
    BY <1>3 DEF StopCleanUp, OrderInv, ModeKnown, TypeOK
  <2> QED
    BY <1>3, <2>1, ServingIdle DEF StopCleanUp
<1>4. CASE Restart
  <2>1. CASE running = TRUE
    BY <1>4, <2>1, ServingIdle DEF Restart
  <2>2. CASE running = FALSE
    <3>1. PICK s \in Starts : Spawn(s)
      BY <1>4, <2>2 DEF Restart
    <3> QED
      BY <2>2, <3>1, ServingSpawn
  <2> QED
    BY <2>1, <2>2 DEF TypeOK
<1>5. CASE Exit
  BY <1>5, ServingEnd DEF Exit
<1> QED
  BY <1>1, <1>2, <1>3, <1>4, <1>5 DEF UiStep

LEMMA ServingUser ==
    ASSUME TypeOK, ServingInv, UserStep
    PROVE  ServingInv'
<1>1. ASSUME NEW s \in Starts, PressStart(s) PROVE ServingInv'
  <2>1. Spawn(s) /\ ~running
    BY <1>1, Zenon DEF PressStart
  <2> QED
    BY <2>1, ServingSpawn DEF TypeOK
<1>2. ASSUME UNCHANGED <<running, mode, runtime, tasks, wdStop, pc, want, aborted, flagged, listen, effects>>
      PROVE  ServingInv'
  BY <1>2, ServingIdle
<1> QED
  BY <1>1, <1>2 DEF UserStep, PressStop, RequestExit, SwitchProxyMode, ApplyProxyDialog

\* A worker closes only what was aborted or is shut down: never a socket of the
\* runtime that serves.
LEMMA ServingRuntime ==
    ASSUME TypeOK, RuntimeInv, ServingInv, NEW s \in Starts, RuntimeStep(s)
    PROVE  ServingInv'
<1>1. ASSUME NEW p \in Port, CloseSocket(s, p) PROVE ServingInv'
  <2>1. /\ listen' = [listen EXCEPT ![s] = listen[s] \ {p}]
        /\ UNCHANGED <<running, mode, runtime, tasks, wdStop, pc, want, aborted, flagged, effects>>
        /\ s \in aborted \/ rt[s] = "gone"
        /\ p \in listen[s]
        /\ listen \in [Starts -> SUBSET Port]
    BY <1>1 DEF CloseSocket, TypeOK
  <2>2. CallFresh'
    BY <2>1 DEF ServingInv, CallFresh
  <2>3. CallPorts'
    <3> SUFFICES ASSUME NEW t \in Starts
                 PROVE  /\ pc[t] \in {"unused", "spawned", "publishing", "begin", "hosts"} => listen'[t] = {}
                        /\ pc[t] = "bind" => listen'[t] \subseteq PortsOf(want[t]) /\ listen'[t] # PortsOf(want[t])
      BY <2>1 DEF CallPorts
    <3>1. CASE t # s
      BY <2>1, <3>1 DEF ServingInv, CallPorts
    <3>2. CASE t = s
      <4>1. listen'[t] = listen[t] \ {p}
        BY <2>1, <3>2
      <4> QED
        BY <2>1, <3>2, <4>1 DEF ServingInv, CallPorts
    <3> QED
      BY <3>1, <3>2
  <2>4. CallRecord'
    BY <2>1 DEF ServingInv, CallRecord, Owns
  <2>5. Served'
    <3> SUFFICES ASSUME running = TRUE PROVE (Owned /\ Bound /\ Applied /\ Stoppable)'
      BY <2>1 DEF Served
    <3>1. Owned /\ Bound /\ Applied /\ Stoppable
      BY DEF ServingInv, Served
    <3>2. runtime # s
      BY <2>1, <3>1 DEF Owned, RuntimeInv
    <3>3. listen'[runtime] = listen[runtime]
      BY <2>1, <3>1, <3>2 DEF Owned
    <3> QED
      BY <2>1, <3>1, <3>3 DEF Owned, Bound, Applied, Stoppable, Owns
  <2> QED
    BY <2>2, <2>3, <2>4, <2>5 DEF ServingInv
<1>2. ASSUME NEW h, SetHook(s, h) PROVE ServingInv'
  BY <1>2, ServingIdle DEF SetHook
<1> QED
  BY <1>1, <1>2 DEF RuntimeStep, HookOpen, HookCheck, HookPacket

\* A step of a call after it has left the record, or before it has taken it.
LEMMA ServingOutside ==
    ASSUME TypeOK, ServingInv, NEW s \in Starts, NEW l \in PC, pc' = [pc EXCEPT ![s] = l],
           UNCHANGED <<running, mode, tasks, wdStop, want, aborted, flagged, listen>>,
           effects' = effects \/ running = FALSE,
           runtime' = runtime \/ (running = FALSE /\ \A t \in Starts : t # s => ~InFlight(t)),
           \/ /\ pc[s] \in {"spawned", "publishing"} /\ l \in {"publishing", "begin"}
              /\ runtime' = s /\ running = FALSE
           \/ pc[s] \in {"undo", "failed"} /\ l \in {"failed", "clearing", "leave"} /\ running = FALSE
           \/ pc[s] = "clearing" /\ l = "leave"
           \/ pc[s] = "leave" /\ l = (IF runtime = s THEN "done" ELSE "dropping")
           \/ pc[s] = "dropping" /\ l = "done"
    PROVE  ServingInv'
<1>1. pc \in [Starts -> PC] /\ pc'[s] = l /\ \A t \in Starts : t # s => pc'[t] = pc[t]
  BY DEF TypeOK
<1>2. CallFresh'
  BY <1>1 DEF ServingInv, CallFresh, Unregistered
<1>3. CallPorts'
  BY <1>1 DEF ServingInv, CallPorts
<1>4. CallRecord'
  BY <1>1 DEF ServingInv, CallRecord, Owns, InFlight
<1>5. Served'
  <2> SUFFICES ASSUME running = TRUE PROVE (Owned /\ Bound /\ Applied /\ Stoppable)'
    BY DEF Served
  <2>1. Owned /\ Bound /\ Applied /\ Stoppable /\ runtime' = runtime /\ effects' = effects
    BY DEF ServingInv, Served
  <2>2. runtime # s \/ (pc[s] = "leave" /\ l = "done")
    BY <1>1, <2>1 DEF Owned, Owns
  <2>3. CASE runtime # s
    <3>1. pc'[runtime] = pc[runtime]
      BY <1>1, <2>1, <2>3 DEF Owned
    <3> QED
      BY <2>1, <3>1 DEF Owned, Bound, Applied, Stoppable, Owns
  <2>4. CASE runtime = s /\ pc[s] = "leave" /\ l = "done"
    BY <1>1, <2>1, <2>4 DEF Owned, Bound, Applied, Stoppable, Owns
  <2> QED
    BY <2>2, <2>3, <2>4
<1> QED
  BY <1>2, <1>3, <1>4, <1>5 DEF ServingInv

\* A step of the call that owns the record: its own places are all that counts.
LEMMA ServingOwner ==
    ASSUME TypeOK, ServingInv, NEW s \in Starts, NEW l \in PC, pc' = [pc EXCEPT ![s] = l],
           UNCHANGED <<runtime, want, aborted, flagged>>, runtime = s,
           \A t \in Starts : t # s => ~InFlight(t),
           \A t \in Starts : t # s => listen'[t] = listen[t],
           s \in tasks' => l \notin Unregistered, tasks' \subseteq tasks \cup {s},
           wdStop' = wdStop \/ (wdStop' = s /\ l \notin Unregistered),
           l \in Unregistered => pc[s] \in Unregistered,
           l \in {"hosts"} => listen'[s] = {},
           l \in {"hosts", "bind", "apply", "register", "registerFailed", "leave", "rollback", "rollbackBind"},
           l = "bind" => listen'[s] \subseteq PortsOf(want[s]) /\ listen'[s] # PortsOf(want[s]),
           s \notin aborted \cup flagged, mode' = want[s],
           (Bound /\ Applied /\ Stoppable)'
    PROVE  ServingInv'
<1>1. pc \in [Starts -> PC] /\ pc'[s] = l /\ \A t \in Starts : t # s => pc'[t] = pc[t]
  BY DEF TypeOK
<1>2. CallFresh'
  BY <1>1 DEF ServingInv, CallFresh
<1>3. CallPorts'
  BY <1>1 DEF ServingInv, CallPorts, Unregistered
<1>4. CallRecord'
  BY <1>1 DEF CallRecord, Owns, InFlight
<1>5. Owned'
  BY <1>1 DEF Owned, Owns
<1> QED
  BY <1>2, <1>3, <1>4, <1>5 DEF ServingInv, Served

\* Taking the record, binding, applying, registering and rolling back.
LEMMA ServingStart ==
    ASSUME TypeOK, OrderInv, RuntimeInv, ServingInv, NEW s \in Starts, StartStep(s)
    PROVE  ServingInv'
<1> USE DEF Goto
<1>0. /\ pc \in [Starts -> PC] /\ want[s] \in Mode /\ listen \in [Starts -> SUBSET Port]
      /\ InFlight(s) /\ \A t \in Starts : t # s => ~InFlight(t)
  <2>1. pc \in [Starts -> PC] /\ want[s] \in Mode /\ listen \in [Starts -> SUBSET Port]
    BY DEF TypeOK
  <2>2. InFlight(s)
    BY DEF StartStep, InFlight, Publish, LockedDropEnds, Begin, WriteHosts, Bind, ApplyProxy,
           Register, Rollback, UndoHosts, ClearRuntime, Leave, DropEnds
  <2> QED
    BY <2>1, <2>2 DEF OrderInv, OneAtATime
<1>1. CASE Publish(s)
  <2>1. running = FALSE
    BY <1>1 DEF Publish, OrderInv, ModeKnown, TypeOK
  <2>2. \E l \in {"publishing", "begin"} : pc' = [pc EXCEPT ![s] = l]
    BY <1>1 DEF Publish
  <2>3. /\ UNCHANGED <<running, mode, tasks, wdStop, want, aborted, flagged, listen, effects>>
        /\ runtime' = s /\ pc[s] = "spawned"
    BY <1>1 DEF Publish
  <2> QED
    BY <1>0, <2>1, <2>2, <2>3, ServingOutside
<1>2. CASE LockedDropEnds(s)
  <2>1. /\ UNCHANGED <<running, mode, runtime, tasks, wdStop, want, aborted, flagged, listen, effects>>
        /\ \/ pc[s] = "publishing" /\ pc' = [pc EXCEPT ![s] = "begin"]
           \/ pc[s] = "clearing" /\ pc' = [pc EXCEPT ![s] = "leave"]
    BY <1>2 DEF LockedDropEnds
  <2>2. pc[s] = "publishing" => runtime = s /\ running = FALSE
    BY DEF ServingInv, CallRecord, OrderInv, ModeKnown, TypeOK
  <2> QED
    BY <2>1, <2>2, ServingOutside
<1>3. CASE Begin(s)
  <2>1. running = FALSE
    BY <1>3 DEF Begin, OrderInv, ModeKnown, TypeOK
  <2>2. /\ UNCHANGED <<runtime, tasks, wdStop, want, aborted, flagged, listen, effects>>
        /\ mode' = want[s] /\ pc[s] = "begin"
        /\ \E l \in {"hosts", "bind"} : pc' = [pc EXCEPT ![s] = l]
    BY <1>3, <2>1 DEF Begin
  <2>3. runtime = s /\ listen[s] = {} /\ s \notin tasks \cup aborted \cup flagged
    BY <2>2 DEF ServingInv, CallRecord, CallPorts, CallFresh, Unregistered
  <2>4. PortsOf(want[s]) # {}
    BY <1>0 DEF PortsOf
  <2>5. pc'[s] \in {"hosts", "bind"}
    BY <1>0, <2>2
  <2>6. (Bound /\ Applied /\ Stoppable)'
    BY <2>2, <2>3, <2>5 DEF Bound, Applied, Stoppable
  <2> QED
    BY <1>0, <2>2, <2>3, <2>4, <2>6, ServingOwner DEF Unregistered
<1>4. ASSUME Owns(s), ~Rollback(s) PROVE ServingInv'
  <2>1. /\ runtime = s /\ running = TRUE /\ mode = want[s]
        /\ Owned /\ Bound /\ Applied /\ Stoppable
    BY <1>0, <1>4 DEF ServingInv, CallRecord, OrderInv, ModeKnown, TypeOK, Served
  <2>2. UNCHANGED <<running, mode, runtime, want, aborted, flagged>>
    BY <1>1, <1>2, <1>3, <1>4 DEF StartStep, WriteHosts, Bind, ApplyProxy, Register, Rollback, UndoHosts, ClearRuntime,
       Leave, DropEnds, Owns, Publish, LockedDropEnds, Begin
  <2>3. CASE WriteHosts(s)
    <3>1. /\ UNCHANGED <<tasks, wdStop, listen>> /\ pc[s] = "hosts"
          /\ \E l \in {"bind", "rollback"} : pc' = [pc EXCEPT ![s] = l]
      BY <2>3 DEF WriteHosts
    <3>2. listen[s] = {} /\ s \notin tasks
      BY <3>1 DEF ServingInv, CallPorts, CallFresh, Unregistered
    <3>3. PortsOf(want[s]) # {}
      BY <1>0 DEF PortsOf
    <3>4. pc'[s] \in {"bind", "rollback"}
      BY <1>0, <3>1
    <3>5. (Bound /\ Applied /\ Stoppable)'
      BY <2>1, <2>2, <3>4 DEF Bound, Applied, Stoppable
    <3> QED
      BY <1>0, <2>1, <2>2, <3>1, <3>2, <3>3, <3>5, ServingOwner DEF Owned, Unregistered
  <2>4. CASE Bind(s)
    <3> DEFINE p == NextPort(s)
               bound == listen[s] \cup {p}
    <3>1. UNCHANGED <<tasks, wdStop, effects>> /\ pc[s] = "bind"
      BY <2>4 DEF Bind
    <3>2. /\ listen[s] \subseteq PortsOf(want[s]) /\ listen[s] # PortsOf(want[s]) /\ s \notin tasks
      BY <3>1 DEF ServingInv, CallPorts, CallFresh, Unregistered
    <3>3. p \in PortsOf(want[s])
      BY <1>0, <3>2 DEF NextPort, PortsOf
    <3>4. CASE listen' = [listen EXCEPT ![s] = bound] /\ bound # PortsOf(want[s]) /\ pc' = pc
      <4>1. pc' = [pc EXCEPT ![s] = "bind"] /\ listen'[s] = bound /\ bound \subseteq PortsOf(want[s])
        BY <1>0, <3>1, <3>2, <3>3, <3>4
      <4>2. \A t \in Starts : t # s => listen'[t] = listen[t]
        BY <1>0, <3>4
      <4>3. (Bound /\ Applied /\ Stoppable)'
        BY <2>1, <2>2, <3>1, <3>4 DEF Bound, Applied, Stoppable
      <4> QED
        BY <1>0, <2>1, <2>2, <3>1, <3>2, <3>4, <4>1, <4>2, <4>3, ServingOwner DEF Owned, Unregistered
    <3>5. CASE /\ listen' = [listen EXCEPT ![s] = bound] /\ bound = PortsOf(want[s])
               /\ pc' = [pc EXCEPT ![s] = NextAfterBind(want[s])]
      <4>1. listen'[s] = PortsOf(want[s]) /\ pc'[s] = NextAfterBind(want[s])
        BY <1>0, <3>5
      <4>2. \A t \in Starts : t # s => listen'[t] = listen[t]
        BY <1>0, <3>5
      <4>3. NextAfterBind(want[s]) \in {"apply", "register"}
        BY DEF NextAfterBind
      <4>4. (Bound /\ Applied /\ Stoppable)'
        BY <2>1, <2>2, <4>1 DEF Bound, Applied, Stoppable, NextAfterBind
      <4> QED
        BY <1>0, <2>1, <2>2, <3>1, <3>2, <3>5, <4>1, <4>2, <4>3, <4>4, ServingOwner DEF Owned, Unregistered
    <3>6. CASE pc' = [pc EXCEPT ![s] = "rollbackBind"] /\ listen' = listen
      <4>1. (Bound /\ Applied /\ Stoppable)'
        BY <1>0, <2>1, <2>2, <3>6 DEF Bound, Applied, Stoppable
      <4> QED
        BY <1>0, <2>1, <2>2, <3>1, <3>2, <3>6, <4>1, ServingOwner DEF Owned, Unregistered
    <3> QED
      BY <2>4, <3>4, <3>5, <3>6 DEF Bind
  <2>5. CASE ApplyProxy(s)
    <3>1. /\ UNCHANGED <<tasks, wdStop, listen>> /\ pc[s] = "apply"
          /\ \E l \in {"register", "registerFailed"} :
                 pc' = [pc EXCEPT ![s] = l] /\ (l = "register" => effects' = effects \cup {want[s]})
      BY <2>5 DEF ApplyProxy
    <3>2. s \notin tasks
      BY <3>1 DEF ServingInv, CallFresh, Unregistered
    <3>3. (Bound /\ Applied /\ Stoppable)'
      BY <1>0, <2>1, <2>2, <3>1 DEF Bound, Applied, Stoppable
    <3> QED
      BY <1>0, <2>1, <2>2, <3>1, <3>2, <3>3, ServingOwner DEF Owned, Unregistered
  <2>6. CASE Register(s)
    <3>1. /\ UNCHANGED <<effects, listen>> /\ tasks' = tasks \cup {s} /\ wdStop' = FlagAfter(s)
          /\ \/ pc[s] = "register" /\ pc' = [pc EXCEPT ![s] = "leave"]
             \/ pc[s] = "registerFailed" /\ pc' = [pc EXCEPT ![s] = "rollback"]
      BY <2>6 DEF Register
    <3>2. (Bound /\ Applied /\ Stoppable)'
      BY <1>0, <2>1, <2>2, <3>1 DEF Bound, Applied, Stoppable, FlagAfter
    <3>3. wdStop' = wdStop \/ wdStop' = s
      BY <3>1 DEF FlagAfter
    <3> QED
      BY <1>0, <2>1, <2>2, <3>1, <3>2, <3>3, ServingOwner DEF Owned, Unregistered
  <2> QED
    BY <1>4, <2>3, <2>4, <2>5, <2>6 DEF StartStep, Owns, Publish, LockedDropEnds, Begin, UndoHosts,
       ClearRuntime, Leave, DropEnds
<1>5. CASE Rollback(s)
  <2>1. /\ StopInner /\ UNCHANGED want
        /\ pc[s] \in {"rollback", "rollbackBind"}
        /\ \E l \in {"undo", "failed"} : pc' = [pc EXCEPT ![s] = l]
        /\ \A t \in Starts : t # s => listen'[t] = listen[t]
    BY <1>0, <1>5 DEF Rollback
  <2>2. pc'[s] \in {"undo", "failed"} /\ \A t \in Starts : t # s => pc'[t] = pc[t]
    BY <1>0, <2>1
  <2>3. CallFresh'
    BY <2>1, <2>2, StopInnerServing DEF CallFresh, Unregistered
  <2>4. CallPorts'
    BY <2>1, <2>2 DEF ServingInv, CallPorts
  <2>5. CallRecord'
    BY <1>0, <2>1, <2>2, StopInnerServing DEF CallRecord, Owns, InFlight
  <2> QED
    BY <2>1, <2>3, <2>4, <2>5, ServingStopped, StopInnerServing
<1>6. CASE UndoHosts(s)
  <2>1. running = FALSE
    BY <1>6 DEF UndoHosts, ServingInv, CallRecord
  <2> QED
    BY <1>6, <2>1, ServingOutside DEF UndoHosts
<1>7. CASE ClearRuntime(s)
  <2>1. running = FALSE
    BY <1>7 DEF ClearRuntime, ServingInv, CallRecord
  <2>2. /\ \E l \in {"clearing", "leave"} : pc' = [pc EXCEPT ![s] = l]
        /\ UNCHANGED <<running, mode, tasks, wdStop, want, aborted, flagged, listen, effects>>
        /\ pc[s] = "failed"
    BY <1>7 DEF ClearRuntime
  <2> QED
    BY <1>0, <2>1, <2>2, ServingOutside
<1>8. CASE Leave(s)
  <2>1. /\ pc' = [pc EXCEPT ![s] = IF runtime = s THEN "done" ELSE "dropping"] /\ pc[s] = "leave"
        /\ UNCHANGED <<running, mode, runtime, tasks, wdStop, want, aborted, flagged, listen, effects>>
    BY <1>8 DEF Leave
  <2> QED
    BY <2>1, ServingOutside
<1>9. CASE DropEnds(s)
  BY <1>9, ServingOutside DEF DropEnds
<1> QED
  BY <1>1, <1>2, <1>3, <1>4, <1>5, <1>6, <1>7, <1>8, <1>9
     DEF StartStep, Owns, WriteHosts, Bind, ApplyProxy, Register

\* When the user lets every start call return before touching a button, a
\* record that says "running" has a proxy behind it, whatever fails: a failed
\* start is rolled back to a stopped record, and what a stop aborts or flags is
\* never the proxy a later start put there.
THEOREM ServesWhenRunning ==
    ASSUME Overlap = FALSE
    PROVE  Spec => []ServingWhenRunning
<1>1. Init => OrderInv /\ ServingInv
  <2>1. Init => OrderInv
    BY DEF Init, OrderInv, OneAtATime, ModeKnown, InFlight, Owns
  <2>2. Init => ServingInv
    BY StartsAssumption DEF Init, ServingInv, CallFresh, CallPorts, CallRecord, Served, Unregistered, Owns
  <2> QED
    BY <2>1, <2>2
<1>2. TypeOK /\ RuntimeInv /\ OrderInv /\ ServingInv /\ [Next]_vars => OrderInv' /\ ServingInv'
  <2> SUFFICES ASSUME TypeOK, RuntimeInv, OrderInv, ServingInv, [Next]_vars PROVE ServingInv'
    BY OrderStep
  <2>1. CASE UNCHANGED vars
    BY <2>1, ServingIdle DEF vars
  <2>2. CASE Kill
    BY <2>2, ServingEnd DEF Kill
  <2> QED
    BY <2>1, <2>2, ServingUser, ServingUi, ServingStart, ServingRuntime DEF Next
<1>3. TypeOK /\ RuntimeInv /\ ServingInv => ServingWhenRunning
  <2> SUFFICES ASSUME TypeOK, RuntimeInv, ServingInv, Settled, running = TRUE
               PROVE  /\ runtime \in Starts
                      /\ rt[runtime] = "live" /\ runtime \notin aborted
                      /\ mode = want[runtime] /\ listen[runtime] = PortsOf(mode)
                      /\ mode \in {"System", "Pac"} => mode \in effects
                      /\ mode = "DnsIntercept" => wdStop = runtime /\ runtime \notin flagged
    BY DEF ServingWhenRunning, TypeOK
  <2>1. Owned /\ Bound /\ Applied /\ Stoppable
    BY DEF ServingInv, Served
  <2>2. pc[runtime] = "done"
    BY <2>1 DEF Owned, Owns, Settled, InFlight
  <2>3. rt[runtime] = "live"
    BY <2>1 DEF Owned, RuntimeInv
  <2> QED
    BY <2>1, <2>2, <2>3 DEF Owned, Bound, Applied, Stoppable
<1> QED
  BY <1>1, <1>2, <1>3, RuntimeInit, RuntimeKept, TypeCorrect, PTL DEF Spec

-----------------------------------------------------------------------------
(* How a start call ends, with any faults and any overlap.                 *)

\* The places a call reaches without returning.
Within == PC \ {"done"}

\* Only three steps return: the call leaves its runtime to the manager, its own
\* drop of the runtime is over, or the process ends.
LEMMA CallReturns ==
    ASSUME TypeOK, [Next]_vars, NEW s \in Starts, pc[s] # "done", pc'[s] = "done"
    PROVE  (Leave(s) /\ runtime = s) \/ DropEnds(s) \/ EndProcess
<1> USE DEF Goto
<1>0. pc \in [Starts -> PC]
  BY DEF TypeOK
<1>1. CASE UserStep
  BY <1>0, <1>1 DEF UserStep, PressStart, Spawn, PressStop, RequestExit, SwitchProxyMode, ApplyProxyDialog
<1>2. CASE UiStep
  BY <1>0, <1>2 DEF UiStep, StopReadMode, StopCallInner, StopCleanUp, Restart, Spawn, Exit
<1>3. CASE Kill
  BY <1>3 DEF Kill
<1>4. ASSUME NEW t \in Starts, StartStep(t) PROVE (Leave(s) /\ runtime = s) \/ DropEnds(s)
  <2>1. ASSUME pc' = pc \/ \E l \in Within : pc' = [pc EXCEPT ![t] = l] PROVE FALSE
    BY <1>0, <2>1 DEF Within
  <2>2. CASE Leave(t)
    BY <1>0, <2>2 DEF Leave
  <2>3. CASE DropEnds(t)
    BY <1>0, <2>3 DEF DropEnds
  <2>4. CASE Publish(t) \/ LockedDropEnds(t) \/ Begin(t) \/ WriteHosts(t) \/ ClearRuntime(t)
    BY <2>1, <2>4 DEF Publish, LockedDropEnds, Begin, WriteHosts, ClearRuntime, Within
  <2>5. CASE Bind(t) \/ ApplyProxy(t) \/ Register(t) \/ Rollback(t) \/ UndoHosts(t)
    BY <2>1, <2>5 DEF Bind, NextAfterBind, ApplyProxy, Register, Rollback, UndoHosts, Within
  <2> QED
    BY <1>4, <2>2, <2>3, <2>4, <2>5 DEF StartStep
<1>5. ASSUME NEW t \in Starts, RuntimeStep(t) PROVE FALSE
  BY <1>5 DEF RuntimeStep, CloseSocket, HookOpen, HookCheck, HookPacket, SetHook
<1>6. CASE UNCHANGED vars
  BY <1>6 DEF vars
<1> QED
  BY <1>1, <1>2, <1>3, <1>4, <1>5, <1>6 DEF Next

\* However calls overlap and whatever fails, a start call that returns either
\* leaves its runtime with the manager or has released every socket and its
\* interceptor, so that it never stands in the way of the next start.
THEOREM StartsRelease == Spec => FailedStartReleases
<1>1. ASSUME TypeOK, [Next]_vars, NEW s \in Starts, pc[s] # "done", pc'[s] = "done"
      PROVE  runtime = s \/ Drained(s)'
  <2>1. CASE DropEnds(s)
    BY <2>1 DEF DropEnds, Drained
  <2>2. CASE EndProcess
    BY <2>2 DEF EndProcess, Drained
  <2> QED
    BY <1>1, <2>1, <2>2, CallReturns
<1>2. TypeOK /\ [Next]_vars =>
        [\A s \in Starts : pc[s] # "done" /\ pc'[s] = "done" => runtime = s \/ Drained(s)']_vars
  BY <1>1
<1> QED
  BY <1>2, TypeCorrect, PTL DEF Spec, FailedStartReleases
=============================================================================
