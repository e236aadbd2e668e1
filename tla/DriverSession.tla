---------------------------- MODULE DriverSession ---------------------------
(***************************************************************************)
(* The session an NvidiaDriver object has with the CUDA driver             *)
(* (src/driver.cpp: open, close, probe_vmm; include/q38/driver.hpp).       *)
(*                                                                         *)
(* open() closes whatever was open, loads libcuda, resolves seven symbols  *)
(* and makes seven fallible calls, the last of which creates a context and *)
(* makes it current; every failure after the load runs close().  The       *)
(* functions for virtual memory and the one that destroys a context are    *)
(* optional: a library may lack them.  close() never fails, it only may    *)
(* have no way to destroy the context.                                     *)
(***************************************************************************)
EXTENDS Integers, Sequences

CONSTANTS
  Contexts,  \* the contexts the driver may create
  NoContext

ASSUME NoContextAssumption == NoContext \notin Contexts

VARIABLES
  session,  \* the members of the object
  at,       \* the call of open() that comes next, 0 outside open()
  outcome,  \* how the last open() ended
  libs,     \* how often the process has loaded libcuda
  stack,    \* the contexts of the thread, the current one first
  lost,     \* contexts close() could not destroy
  exports   \* the optional functions of the installed library

sessionVars == <<session, at, outcome, libs, stack, lost, exports>>

OpenCalls ==
  <<"symbols", "cuInit", "cuDriverGetVersion", "cuDeviceGet",
    "cuDeviceGetName", "cuDeviceTotalMem", "cuDeviceComputeCapability",
    "cuCtxCreate", "load_vmm">>

(* The member each call fills in.                                          *)
Fact == [cuDriverGetVersion |-> "version", cuDeviceGetName |-> "name",
         cuDeviceTotalMem |-> "memory", cuDeviceComputeCapability |-> "sm"]
Facts == {Fact[c] : c \in DOMAIN Fact}

Learns(call) == IF call \in DOMAIN Fact THEN {Fact[call]} ELSE {}

ClosedSession ==
  [handle |-> FALSE, context |-> NoContext, initialized |-> FALSE,
   known |-> {}, vmm |-> FALSE, granularity |-> 0]

Live == {stack[k] : k \in DOMAIN stack}

available == session.handle /\ session.initialized

SessionInit ==
  /\ session = ClosedSession
  /\ at = 0 /\ outcome = "none"
  /\ libs = 0 /\ stack = << >> /\ lost = {}
  /\ exports \in SUBSET {"cuCtxDestroy", "vmm"}

-----------------------------------------------------------------------------
(* close(): what is left of the thread's contexts, of the loads, and of    *)
(* the members.                                                            *)
Destroyed == session.handle /\ session.context # NoContext
               /\ "cuCtxDestroy" \in exports

(* Destroying the current context makes the one below it current.          *)
StackAfterClose ==
  IF Destroyed /\ stack # << >> /\ Head(stack) = session.context
  THEN Tail(stack) ELSE stack

LostAfterClose ==
  IF Destroyed \/ session.context = NoContext THEN lost
  ELSE lost \cup {session.context}

LibsAfterClose == IF session.handle THEN libs - 1 ELSE libs

CloseSession ==
  /\ session' = ClosedSession
  /\ stack' = StackAfterClose /\ lost' = LostAfterClose
  /\ libs' = LibsAfterClose

Close ==
  /\ at = 0
  /\ CloseSession
  /\ UNCHANGED <<at, outcome, exports>>

(* Mutant: open() does not close the session it has.                       *)
BeginOpen_OverOpen ==
  /\ at = 0
  /\ session' = [ClosedSession EXCEPT !.handle = TRUE]
  /\ libs' = libs + 1
  /\ at' = 1 /\ outcome' = "opening"
  /\ UNCHANGED <<stack, lost, exports>>

(* open(): close() and dlopen().                                           *)
BeginOpen ==
  /\ at = 0
  /\ session' = [ClosedSession EXCEPT !.handle = TRUE]
  /\ stack' = StackAfterClose /\ lost' = LostAfterClose
  /\ libs' = LibsAfterClose + 1
  /\ at' = 1 /\ outcome' = "opening"
  /\ UNCHANGED exports

NoLibrary ==
  /\ at = 0
  /\ CloseSession
  /\ outcome' = "threw"
  /\ UNCHANGED <<at, exports>>

(* A call before the context.                                              *)
OpenCall ==
  /\ at \in 1 .. Len(OpenCalls) - 2
  /\ session' = [session EXCEPT !.known = @ \cup Learns(OpenCalls[at])]
  /\ at' = at + 1
  /\ UNCHANGED <<outcome, libs, stack, lost, exports>>

CreateContext ==
  /\ at = Len(OpenCalls) - 1
  /\ \E c \in Contexts \ Live :
       /\ stack' = <<c>> \o stack
       /\ session' = [session EXCEPT !.context = c]
  /\ at' = at + 1
  /\ UNCHANGED <<outcome, libs, lost, exports>>

(* Any call up to the creation of the context throws; the handler closes.  *)
OpenCallFails ==
  /\ at \in 1 .. Len(OpenCalls) - 1
  /\ CloseSession
  /\ at' = 0 /\ outcome' = "threw"
  /\ UNCHANGED exports

(* Mutant: a failed query of the granularity leaves the flag set.          *)
FinishOpen_KeepsFlag ==
  /\ at = Len(OpenCalls)
  /\ \E granularity \in IF "vmm" \in exports THEN {0, 1} ELSE {0} :
       session' = [session EXCEPT !.vmm = ("vmm" \in exports),
                                  !.granularity = granularity,
                                  !.initialized = TRUE]
  /\ at' = 0 /\ outcome' = "returned"
  /\ UNCHANGED <<libs, stack, lost, exports>>

(* The optional functions for virtual memory, and the end of open(): the   *)
(* granularity is 0 when the functions are missing or the query fails.     *)
FinishOpen ==
  /\ at = Len(OpenCalls)
  /\ \E granularity \in IF "vmm" \in exports THEN {0, 1} ELSE {0} :
       session' = [session EXCEPT !.vmm = (granularity # 0),
                                  !.granularity = granularity,
                                  !.initialized = TRUE]
  /\ at' = 0 /\ outcome' = "returned"
  /\ UNCHANGED <<libs, stack, lost, exports>>

(* probe_vmm() on an open session: a ScopedVmm succeeds, or false.         *)
ProbeVmm ==
  /\ at = 0 /\ available
  /\ "vmm" \in exports
  /\ session' = [session EXCEPT !.vmm = TRUE, !.granularity = 1]
  /\ UNCHANGED <<at, outcome, libs, stack, lost, exports>>

OpenStep == OpenCall \/ CreateContext \/ OpenCallFails \/ FinishOpen

SessionNext == BeginOpen \/ NoLibrary \/ OpenStep \/ Close \/ ProbeVmm

SessionSpec == SessionInit /\ [][SessionNext]_sessionVars

-----------------------------------------------------------------------------
(* Between calls the object is closed and blank or open and complete,      *)
(* whatever failed and whatever was open before; it says that virtual      *)
(* memory is there only with a granularity to allocate by (open,           *)
(* probe_vmm, close).                                                      *)
SessionIsWhole ==
  at = 0 =>
    /\ \/ session = ClosedSession
       \/ /\ available /\ session.context # NoContext
          /\ session.known = Facts
    /\ session.vmm <=> session.granularity # 0
    /\ session.vmm => "vmm" \in exports

(* The process has loaded the library and holds a context exactly as long  *)
(* as the object does, also in the middle of open(); a context outlives    *)
(* it only when the library cannot destroy one.                            *)
NothingRetained ==
  /\ libs = IF session.handle THEN 1 ELSE 0
  /\ Live = lost \cup ({session.context} \ {NoContext})
  /\ lost # {} => "cuCtxDestroy" \notin exports
=============================================================================
