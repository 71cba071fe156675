---------------------------- MODULE ProxyManager ----------------------------
(***************************************************************************)
(* The life cycle of the accelerator: ProxyManager (core/src/proxy.rs) and *)
(* the user-interface thread that drives it (ui/src/app.rs, lib.rs).       *)
(*                                                                         *)
(* Every click on "start" spawns a thread that runs start_blocking: it     *)
(* builds a tokio runtime, publishes it in the shared Inner record, starts *)
(* the listeners of one proxy mode on it, puts the machine-wide side       *)
(* effect of the mode in place (hosts block, system proxy, PAC URL) and    *)
(* registers its tasks.  stop() runs on the user-interface thread.  Inner  *)
(* is guarded by one mutex, released between the steps of both.            *)
(*                                                                         *)
(* A start call and the runtime it builds share one name, a member of      *)
(* Starts.  One action is one critical section of the mutex or one call    *)
(* with an effect outside the process.                                     *)
(***************************************************************************)

CONSTANTS
    Starts,     \* the start_blocking calls of a run (each is used once)
    NoStart,    \* "none", for the fields that hold an Option of a runtime or flag
    Faults,     \* the failures of the environment that a run allows
    Overlap     \* may the user press a button while a start is in flight?

ASSUME StartsAssumption == NoStart \notin Starts
ASSUME OverlapAssumption == Overlap \in BOOLEAN

Mode == {"Hosts", "System", "Pac", "DnsIntercept"}
NoMode == "none"

\* "hosts": no root certificate, or hosts::update_hosts fails; "bind": another
\* program holds the port; "registry": the registry key cannot be opened;
\* "partial": a registry call fails after its first value was written;
\* "cleanup": the removal of a side effect fails (every caller ignores it);
\* "hook": WinDivert cannot be loaded or opened, or its recv fails; "kill":
\* the process dies without running request_exit.
FaultKind == {"hosts", "bind", "registry", "partial", "cleanup", "hook", "kill"}
ASSUME FaultsAssumption == Faults \subseteq FaultKind

Port == {"443", "forward"}

\* The TCP ports a mode listens on.
PortsOf(m) == CASE m = "Hosts"  -> {"443"}
                [] m = "System" -> {"forward"}
                [] m = "Pac"    -> {"forward"}
                [] OTHER        -> {"443", "forward"}

\* The modes that change the machine outside the process.  A side effect is
\* named after its mode: the hosts block, ProxyEnable, AutoConfigURL.
EffectMode == {"Hosts", "System", "Pac"}

VARIABLES
    \* the record Inner behind the mutex
    running,    \* Inner.running
    mode,       \* Inner.mode
    runtime,    \* Inner.runtime, as the start that built it
    tasks,      \* Inner.tasks, as the starts whose tasks it holds
    wdStop,     \* Inner.windivert_stop, as the start that owns the flag
    lock,       \* the runtime being dropped while the mutex is held
    \* the start threads
    pc,         \* where each start call is
    want,       \* the mode each call was given
    rt,         \* life of the runtime each call builds
    listen,     \* the sockets that runtime holds
    aborted,    \* the starts whose tasks were aborted
    hook,       \* the interceptor thread of each start
    flagged,    \* the starts whose interceptor flag is raised
    \* the machine
    effects,    \* the side effects in place
    \* the user-interface thread
    uiPc,       \* progress of stop()
    uiMode,     \* the mode stop() has read
    uiThen,     \* what follows stop(): nothing, start_accel or the end
    chosen      \* settings.proxy.proxy_mode

inner == <<running, mode, runtime, tasks, wdStop>>
threads == <<want, rt, listen, aborted, hook, flagged>>
ui == <<uiPc, uiMode, uiThen>>
vars == <<inner, lock, pc, threads, effects, ui, chosen>>

PC == {"unused", "spawned", "publishing", "begin", "hosts", "bind", "apply",
       "register", "registerFailed", "rollback", "rollbackBind", "undo",
       "failed", "clearing", "leave", "dropping", "done"}
UiPC == {"idle", "read", "inner", "clean", "restart", "exit", "ended"}

TypeOK ==
    /\ running \in BOOLEAN
    /\ mode \in Mode \cup {NoMode}
    /\ runtime \in Starts \cup {NoStart}
    /\ tasks \in SUBSET Starts
    /\ wdStop \in Starts \cup {NoStart}
    /\ lock \in Starts \cup {NoStart}
    /\ pc \in [Starts -> PC]
    /\ want \in [Starts -> Mode]
    /\ rt \in [Starts -> {"none", "live", "gone"}]
    /\ listen \in [Starts -> SUBSET Port]
    /\ aborted \in SUBSET Starts
    /\ hook \in [Starts -> {"off", "armed", "loop", "recv", "closed"}]
    /\ flagged \in SUBSET Starts
    /\ effects \in SUBSET EffectMode
    /\ uiPc \in UiPC
    /\ uiMode \in Mode \cup {NoMode}
    /\ uiThen \in {"idle", "restart", "exit"}
    /\ chosen \in Mode

Init ==
    /\ running = FALSE
    /\ mode = NoMode
    /\ runtime = NoStart
    /\ tasks = {}
    /\ wdStop = NoStart
    /\ lock = NoStart
    /\ pc = [s \in Starts |-> "unused"]
    /\ want = [s \in Starts |-> "Hosts"]
    /\ rt = [s \in Starts |-> "none"]
    /\ listen = [s \in Starts |-> {}]
    /\ aborted = {}
    /\ hook = [s \in Starts |-> "off"]
    /\ flagged = {}
    /\ effects = {}
    /\ uiPc = "idle"
    /\ uiMode = NoMode
    /\ uiThen = "idle"
    /\ chosen \in Mode

(***************************************************************************)
(* What the threads see of each other.                                     *)
(***************************************************************************)
InFlight(s) == pc[s] \notin {"unused", "done"}

\* The thread of start r still holds its own Arc of the runtime.
Holds(r) == pc[r] \notin {"unused", "spawned", "dropping", "done"}

\* Dropping a reference to r destroys the runtime when it is the last one.
LastRef(r) == r # NoStart /\ ~Holds(r)

\* Runtime::drop returns once every task is cancelled and every blocking
\* task, the interceptor loop among them, has returned.
Drained(r) == listen[r] = {} /\ hook[r] \in {"off", "closed"}

PortFree(p) == \A s \in Starts : p \notin listen[s]

UserMayAct ==
    /\ uiPc = "idle"
    /\ lock = NoStart                 \* is_running() takes the mutex
    /\ Overlap \/ \A s \in Starts : ~InFlight(s)

(***************************************************************************)
(* The user-interface thread.                                              *)
(***************************************************************************)
\* start_blocking_thread: clone the chosen mode and spawn a thread.
Spawn(s) ==
    /\ pc[s] = "unused"
    /\ pc' = [pc EXCEPT ![s] = "spawned"]
    /\ want' = [want EXCEPT ![s] = chosen]
    /\ UNCHANGED <<inner, lock, rt, listen, aborted, hook, flagged, effects, chosen>>

PressStart(s) ==
    /\ UserMayAct
    /\ ~running
    /\ Spawn(s)
    /\ UNCHANGED ui

BeginStop(then) == uiPc' = "read" /\ uiThen' = then /\ UNCHANGED uiMode

PressStop ==
    /\ UserMayAct
    /\ running
    /\ BeginStop("idle")
    /\ UNCHANGED <<inner, lock, pc, threads, effects, chosen>>

SwitchProxyMode(m) ==
    /\ UserMayAct
    /\ chosen # m
    /\ chosen' = m
    /\ IF running THEN BeginStop("restart") ELSE UNCHANGED ui
    /\ UNCHANGED <<inner, lock, pc, threads, effects>>

\* The proxy dialog stores a mode without restarting anything.
ApplyProxyDialog(m) ==
    /\ UserMayAct
    /\ chosen # m
    /\ chosen' = m
    /\ UNCHANGED <<inner, lock, pc, threads, effects, ui>>

RequestExit ==
    /\ UserMayAct
    /\ BeginStop("exit")
    /\ UNCHANGED <<inner, lock, pc, threads, effects, chosen>>

\* stop(): read the mode under the mutex ...
StopReadMode ==
    /\ uiPc = "read"
    /\ lock = NoStart
    /\ uiPc' = "inner"
    /\ uiMode' = mode
    /\ UNCHANGED <<uiThen, inner, lock, pc, threads, effects, chosen>>

\* Mutants of the parts of stop_inner: the flag is left where it is; the
\* runtime is shut down under its start thread.
KeepFlag == UNCHANGED <<flagged, wdStop>>
ForceShutdown ==
    /\ runtime' = NoStart
    /\ rt' = IF runtime = NoStart THEN rt ELSE [rt EXCEPT ![runtime] = "gone"]

\* Take the interceptor flag out of the record and raise it.
RaiseFlag ==
    /\ flagged' = IF wdStop = NoStart THEN flagged ELSE flagged \cup {wdStop}
    /\ wdStop' = NoStart

ClearRecord == running' = FALSE /\ mode' = NoMode

\* Arc::try_unwrap: shut the runtime down unless its start thread holds it.
ShutdownRuntime ==
    /\ runtime' = NoStart
    /\ rt' = IF LastRef(runtime) THEN [rt EXCEPT ![runtime] = "gone"] ELSE rt

StopInner ==
    /\ lock = NoStart
    /\ RaiseFlag
    /\ aborted' = aborted \cup tasks
    /\ tasks' = {}
    /\ ClearRecord
    /\ ShutdownRuntime

\* ... then stop_inner ...
StopCallInner ==
    /\ uiPc = "inner"
    /\ StopInner
    /\ uiPc' = "clean"
    /\ UNCHANGED <<uiMode, uiThen, lock, pc, want, listen, hook, effects, chosen>>

\* Removing a side effect; its failure is ignored by every caller.
RemoveEffect(m) ==
    \/ effects' = effects \ {m}
    \/ "cleanup" \in Faults /\ UNCHANGED effects

\* ... then the cleanup of the mode that was read first.
StopCleanUp ==
    /\ uiPc = "clean"
    /\ IF uiMode \in EffectMode THEN RemoveEffect(uiMode) ELSE UNCHANGED effects
    /\ uiPc' = uiThen
    /\ uiMode' = NoMode
    /\ uiThen' = "idle"
    /\ UNCHANGED <<inner, lock, pc, threads, chosen>>

\* The start_accel that ends switch_proxy_mode; it returns if running.
Restart ==
    /\ uiPc = "restart"
    /\ lock = NoStart
    /\ uiPc' = "idle"
    /\ UNCHANGED <<uiMode, uiThen>>
    /\ IF running
       THEN UNCHANGED <<inner, lock, pc, threads, effects, chosen>>
       ELSE \E s \in Starts : Spawn(s)

\* The process is gone: its sockets, threads and memory with it.
EndProcess ==
    /\ running' = FALSE
    /\ mode' = NoMode
    /\ runtime' = NoStart
    /\ tasks' = {}
    /\ wdStop' = NoStart
    /\ lock' = NoStart
    /\ pc' = [s \in Starts |-> "done"]
    /\ rt' = [s \in Starts |-> "gone"]
    /\ listen' = [s \in Starts |-> {}]
    /\ hook' = [s \in Starts |-> "closed"]
    /\ uiPc' = "ended"
    /\ uiMode' = NoMode
    /\ uiThen' = "idle"
    /\ UNCHANGED <<want, aborted, flagged, effects, chosen>>

Exit == uiPc = "exit" /\ EndProcess

Kill == "kill" \in Faults /\ uiPc # "ended" /\ EndProcess

UiStep == StopReadMode \/ StopCallInner \/ StopCleanUp \/ Restart \/ Exit

(***************************************************************************)
(* A start thread.                                                         *)
(***************************************************************************)
Goto(s, l) == pc' = [pc EXCEPT ![s] = l]

\* start_blocking builds the runtime and stores it in Inner.runtime.  The
\* value it replaces is dropped inside the critical section.
Publish(s) ==
    /\ pc[s] = "spawned"
    /\ lock = NoStart
    /\ runtime' = s
    /\ IF LastRef(runtime)
       THEN /\ rt' = [rt EXCEPT ![s] = "live", ![runtime] = "gone"]
            /\ lock' = runtime
            /\ Goto(s, "publishing")
       ELSE /\ rt' = [rt EXCEPT ![s] = "live"]
            /\ Goto(s, "begin")
            /\ UNCHANGED lock
    /\ UNCHANGED <<running, mode, tasks, wdStop, want, listen, aborted, hook,
                   flagged, effects, ui, chosen>>

\* The drop inside the critical section is over; the mutex is released.
LockedDropEnds(s) ==
    /\ pc[s] \in {"publishing", "clearing"}
    /\ Drained(lock)
    /\ lock' = NoStart
    /\ Goto(s, IF pc[s] = "publishing" THEN "begin" ELSE "leave")
    /\ UNCHANGED <<inner, threads, effects, ui, chosen>>

\* The critical section at the head of start(): it refuses when a proxy runs
\* and otherwise records the mode.
Begin(s) ==
    /\ pc[s] = "begin"
    /\ lock = NoStart
    /\ IF running
       THEN Goto(s, "failed") /\ UNCHANGED <<running, mode>>
       ELSE /\ running' = TRUE
            /\ mode' = want[s]
            /\ Goto(s, IF want[s] = "Hosts" THEN "hosts" ELSE "bind")
    /\ UNCHANGED <<runtime, tasks, wdStop, lock, threads, effects, ui, chosen>>

\* Hosts mode: the root certificate, then the hosts block.  No entry is
\* written when no enabled project lists a domain.
WriteHosts(s) ==
    /\ pc[s] = "hosts"
    /\ \/ effects' = effects \cup {"Hosts"} /\ Goto(s, "bind")
       \/ UNCHANGED effects /\ Goto(s, "bind")
       \/ "hosts" \in Faults /\ UNCHANGED effects /\ Goto(s, "rollback")
    /\ UNCHANGED <<inner, lock, threads, ui, chosen>>

\* The next port a call binds: 443 before the forward port.
NextPort(s) == IF "443" \in PortsOf(want[s]) \ listen[s] THEN "443" ELSE "forward"

\* Mutant: the proxy setting is applied in every mode but Hosts.
NextAfterBindWide(m) == IF m # "Hosts" THEN "apply" ELSE "register"

NextAfterBind(m) == IF m \in {"System", "Pac"} THEN "apply" ELSE "register"

\* Once every listener is bound, the accept tasks are spawned; DnsIntercept
\* also spawns the interceptor on a blocking thread.
Bind(s) ==
    /\ pc[s] = "bind"
    /\ LET p == NextPort(s)
           bound == listen[s] \cup {p}
       IN \/ /\ PortFree(p)
             /\ listen' = [listen EXCEPT ![s] = bound]
             /\ IF bound # PortsOf(want[s])
                THEN UNCHANGED <<pc, hook>>
                ELSE /\ Goto(s, NextAfterBind(want[s]))
                     /\ hook' = IF want[s] = "DnsIntercept"
                                THEN [hook EXCEPT ![s] = "armed"] ELSE hook
          \/ /\ ~PortFree(p) \/ "bind" \in Faults
             /\ Goto(s, "rollbackBind")
             /\ UNCHANGED <<listen, hook>>
    /\ UNCHANGED <<inner, lock, want, rt, aborted, flagged, effects, ui, chosen>>

\* set_system_proxy(true) or set_pac_proxy(true).
ApplyProxy(s) ==
    /\ pc[s] = "apply"
    /\ \/ effects' = effects \cup {want[s]} /\ Goto(s, "register")
       \/ "registry" \in Faults /\ UNCHANGED effects /\ Goto(s, "registerFailed")
       \/ "partial" \in Faults /\ effects' = effects \cup {want[s]}
                               /\ Goto(s, "registerFailed")
    /\ UNCHANGED <<inner, lock, threads, ui, chosen>>

\* Mutant: the task is pushed and stop_inner called without drop(g) between.
RegisterHoldsLock(s) ==
    /\ pc[s] \in {"register", "registerFailed"}
    /\ lock = NoStart
    /\ tasks' = tasks \cup {s}
    /\ lock' = IF pc[s] = "register" THEN NoStart ELSE s
    /\ Goto(s, IF pc[s] = "register" THEN "leave" ELSE "rollback")
    /\ UNCHANGED <<running, mode, runtime, wdStop, threads, effects, ui, chosen>>

FlagAfter(s) == IF want[s] = "DnsIntercept" THEN s ELSE wdStop

\* Push the tasks, and in DnsIntercept mode the flag, into Inner; a failed
\* ApplyProxy pushes its task too, to have stop_inner abort it.
Register(s) ==
    /\ pc[s] \in {"register", "registerFailed"}
    /\ lock = NoStart
    /\ tasks' = tasks \cup {s}
    /\ wdStop' = FlagAfter(s)
    /\ Goto(s, IF pc[s] = "register" THEN "leave" ELSE "rollback")
    /\ UNCHANGED <<running, mode, runtime, lock, threads, effects, ui, chosen>>

\* stop_inner on an error path of start(); a listener that was bound but not
\* given to a task is closed as start() returns.
Rollback(s) ==
    /\ pc[s] \in {"rollback", "rollbackBind"}
    /\ StopInner
    /\ listen' = IF s \in aborted' THEN listen ELSE [listen EXCEPT ![s] = {}]
    /\ Goto(s, IF pc[s] = "rollbackBind" /\ want[s] = "Hosts" THEN "undo" ELSE "failed")
    /\ UNCHANGED <<lock, want, hook, effects, ui, chosen>>

\* Mutant: the block stays after a failed bind.
UndoNothing(s) ==
    /\ pc[s] = "undo"
    /\ Goto(s, "failed")
    /\ UNCHANGED <<inner, lock, threads, effects, ui, chosen>>

\* Hosts mode removes its block after a failed bind.
UndoHosts(s) ==
    /\ pc[s] = "undo"
    /\ RemoveEffect("Hosts")
    /\ Goto(s, "failed")
    /\ UNCHANGED <<inner, lock, threads, ui, chosen>>

\* start_blocking clears Inner.runtime after an error, whosever it is.
ClearRuntime(s) ==
    /\ pc[s] = "failed"
    /\ lock = NoStart
    /\ runtime' = NoStart
    /\ IF LastRef(runtime)
       THEN /\ rt' = [rt EXCEPT ![runtime] = "gone"]
            /\ lock' = runtime
            /\ Goto(s, "clearing")
       ELSE Goto(s, "leave") /\ UNCHANGED <<rt, lock>>
    /\ UNCHANGED <<running, mode, tasks, wdStop, want, listen, aborted, hook,
                   flagged, effects, ui, chosen>>

\* Mutant: the temporary runtime of the caller is dropped, whoever holds it.
LeaveWithRuntime(s) ==
    /\ pc[s] = "leave"
    /\ Goto(s, "dropping")
    /\ rt' = [rt EXCEPT ![s] = "gone"]
    /\ UNCHANGED <<inner, lock, want, listen, aborted, hook, flagged, effects, ui, chosen>>

\* Mutant: the call returns without waiting for its runtime to wind down.
LeaveAtOnce(s) ==
    /\ pc[s] = "leave"
    /\ Goto(s, "done")
    /\ rt' = IF runtime = s THEN rt ELSE [rt EXCEPT ![s] = "gone"]
    /\ UNCHANGED <<inner, lock, want, listen, aborted, hook, flagged, effects, ui, chosen>>

\* start_blocking returns and drops its own Arc of the runtime.
Leave(s) ==
    /\ pc[s] = "leave"
    /\ IF runtime = s
       THEN Goto(s, "done") /\ UNCHANGED rt
       ELSE Goto(s, "dropping") /\ rt' = [rt EXCEPT ![s] = "gone"]
    /\ UNCHANGED <<inner, lock, want, listen, aborted, hook, flagged, effects, ui, chosen>>

DropEnds(s) ==
    /\ pc[s] = "dropping"
    /\ Drained(s)
    /\ Goto(s, "done")
    /\ UNCHANGED <<inner, lock, threads, effects, ui, chosen>>

StartStep(s) ==
    \/ Publish(s) \/ LockedDropEnds(s) \/ Begin(s) \/ WriteHosts(s) \/ Bind(s)
    \/ ApplyProxy(s) \/ Register(s) \/ Rollback(s) \/ UndoHosts(s)
    \/ ClearRuntime(s) \/ Leave(s) \/ DropEnds(s)

(***************************************************************************)
(* The tokio workers and the interceptor thread of each runtime.           *)
(***************************************************************************)
\* An aborted accept task, or one of a runtime that is shutting down, is
\* dropped by a worker some time later, and its socket with it.
CloseSocket(s, p) ==
    /\ p \in listen[s]
    /\ s \in aborted \/ rt[s] = "gone"
    /\ listen' = [listen EXCEPT ![s] = @ \ {p}]
    /\ UNCHANGED <<inner, lock, pc, want, rt, aborted, hook, flagged, effects, ui, chosen>>

SetHook(s, h) ==
    /\ hook' = [hook EXCEPT ![s] = h]
    /\ UNCHANGED <<inner, lock, pc, want, rt, listen, aborted, flagged, effects, ui, chosen>>

\* DnsInterceptRuntime::run opens WinDivert without looking at the flag; a
\* blocking task that has not begun is discarded with its runtime.
HookOpen(s) ==
    /\ hook[s] = "armed"
    /\ \/ SetHook(s, "loop")
       \/ ("hook" \in Faults \/ rt[s] = "gone") /\ SetHook(s, "closed")

\* The flag is read once per turn of the loop, before the blocking recv.
HookCheck(s) ==
    /\ hook[s] = "loop"
    /\ SetHook(s, IF s \in flagged THEN "closed" ELSE "recv")

\* A DNS query arrives, is answered or passed on, and the loop turns.
HookPacket(s) ==
    /\ hook[s] = "recv"
    /\ SetHook(s, "loop") \/ ("hook" \in Faults /\ SetHook(s, "closed"))

RuntimeStep(s) ==
    \/ \E p \in Port : CloseSocket(s, p)
    \/ HookOpen(s) \/ HookCheck(s) \/ HookPacket(s)

UserStep ==
    \/ \E s \in Starts : PressStart(s)
    \/ PressStop \/ RequestExit
    \/ \E m \in Mode : SwitchProxyMode(m) \/ ApplyProxyDialog(m)

Next ==
    \/ UserStep \/ UiStep \/ Kill
    \/ \E s \in Starts : StartStep(s) \/ RuntimeStep(s)

Spec == Init /\ [][Next]_vars

\* The operating system runs every thread that can run, the workers among
\* them, and DNS queries keep arriving.  What the user does is not fair.
Fairness ==
    /\ WF_vars(UiStep)
    /\ \A s \in Starts : WF_vars(StartStep(s))
    /\ \A s \in Starts :
        /\ \A p \in Port : WF_vars(CloseSocket(s, p))
        /\ WF_vars(HookOpen(s) \/ HookCheck(s) \/ HookPacket(s))

FairSpec == Spec /\ Fairness

(***************************************************************************)
(* Properties.                                                             *)
(***************************************************************************)
\* No start is in flight, the user-interface thread is not inside stop().
Settled == /\ uiPc \in {"idle", "ended"}
           /\ lock = NoStart
           /\ \A s \in Starts : ~InFlight(s)

\* While the record says "running" the proxy serves: its runtime is alive and
\* owned by the manager, every port of the mode is bound by it, no task of it
\* was aborted, the proxy setting of the mode is in place, and in DnsIntercept
\* mode the interceptor of that runtime can still be stopped.
\* (start_blocking, start, stop_inner: "UI shows running while nothing is bound")
ServingWhenRunning ==
    Settled /\ running =>
        /\ runtime \in Starts
        /\ rt[runtime] = "live" /\ runtime \notin aborted
        /\ mode = want[runtime] /\ listen[runtime] = PortsOf(mode)
        /\ mode \in {"System", "Pac"} => mode \in effects
        /\ mode = "DnsIntercept" => wdStop = runtime /\ runtime \notin flagged

\* The side effects in place are at most the one of the running mode: a stop,
\* a mode switch, a failed start and an orderly exit leave nothing behind.
\* (stop, the error paths of start, request_exit)
EffectsMatchMode == Settled => effects \subseteq {mode}

\* The mutex protects the two fields the user interface reads: "running" and
\* the mode agree in every state, also while calls overlap.
\* (start, stop_inner; the comment of the System branch of start)
ModeAgrees == running <=> mode # NoMode

\* No other call or stop() destroys the runtime a start thread is blocked on,
\* and a mutex held across a drop is held by exactly one thread.
\* (start_blocking, the Arc::try_unwrap of stop_inner)
RuntimeOutlivesCall ==
    /\ \A s \in Starts : Holds(s) => rt[s] = "live"
    /\ lock # NoStart => /\ ~Holds(lock) /\ rt[lock] = "gone"
                         /\ \E s \in Starts : pc[s] \in {"publishing", "clearing"}
    /\ \A s, t \in Starts : {pc[s], pc[t]} \subseteq {"publishing", "clearing"} => s = t

\* A start call returns in one of two ways: its runtime is the one the manager
\* owns, or every socket and interceptor it created is gone, so that the retry
\* the user makes then finds no listener of the failed start in its way.
\* (start_blocking; "the listener spawned just above must be released")
FailedStartReleases ==
    [][\A s \in Starts :
         pc[s] # "done" /\ pc'[s] = "done" => runtime = s \/ Drained(s)']_vars

\* What was aborted goes away: sockets close and the interceptor ends.
\* (stop_inner, DnsInterceptRuntime::run)
ReleasedAfterStop == \A s \in Starts : s \in aborted ~> Drained(s)

\* Every start call returns.  (start_blocking)
StartsReturn == \A s \in Starts : pc[s] = "spawned" ~> pc[s] = "done"
=============================================================================
