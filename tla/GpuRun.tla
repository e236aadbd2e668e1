------------------------------- MODULE GpuRun -------------------------------
(***************************************************************************)
(* One call of a NvidiaDriver::run_* function (src/driver.cpp).            *)
(*                                                                         *)
(* Every run_* function has the same skeleton: guards; a ScopedVmm that    *)
(* reserves, allocates and maps one workspace; a set-up part outside any   *)
(* inner handler; a first PTX module loaded outside the inner try; the     *)
(* other modules and the body inside it; checked unloads in reverse load   *)
(* order; a tail; `return true'.  What differs is data, the record         *)
(* Program[fn]: its set-up, its modules in load order, its body and tail.  *)
(*                                                                         *)
(* Every CUDA call may return an error.  Launches and memsets are queued   *)
(* on one in-order stream that the device drains concurrently with the     *)
(* host; a kernel may fault, after which every later call fails.           *)
(***************************************************************************)
EXTENDS Naturals, Sequences

CONSTANTS
  Fns,       \* the run_* functions
  Modules,   \* the PTX modules they load
  NoModule,  \* the module of an operation that has none
  Program    \* fn -> [setup, loads, body, tail]

(* What a step of a program may do.                                        *)
Enqueues  == {"memset", "launch"}
Waits     == {"sync", "read"}
CudaCalls == Enqueues \cup Waits \cup {"copy", "resolve", "function"}
Reports   == {"errors", "times"}
Ops       == CudaCalls \cup Reports \cup {"verify"}

Steps  == [op : Ops, mod : Modules \cup {NoModule}]
Bodies == {"setup", "body", "tail"}

ASSUME NoModuleAssumption == NoModule \notin Modules

ASSUME ProgramAssumption ==
  \A f \in Fns :
    /\ Program[f].setup \in Seq(Steps)
    /\ Program[f].body  \in Seq(Steps)
    /\ Program[f].tail  \in Seq(Steps)
    /\ Program[f].loads \in Seq(Modules)
    /\ Program[f].loads # << >>

(* The modules a program launches from are modules it loads.               *)
ASSUME LaunchAssumption ==
  \A f \in Fns :
    /\ \A k \in DOMAIN Program[f].body :
         Program[f].body[k].op = "launch" =>
           \E n \in DOMAIN Program[f].loads :
             Program[f].body[k].mod = Program[f].loads[n]
    /\ \A k \in DOMAIN Program[f].body :
         Program[f].body[k].op # "launch" => Program[f].body[k].mod = NoModule
    /\ \A k \in DOMAIN Program[f].setup :
         /\ Program[f].setup[k].op # "launch"
         /\ Program[f].setup[k].mod = NoModule

(* A body ends idle: nothing is submitted after its last sync, nor in the  *)
(* tail.                                                                   *)
ASSUME IdleAssumption ==
  \A f \in Fns :
    /\ \E j \in DOMAIN Program[f].body :
         /\ Program[f].body[j].op = "sync"
         /\ \A k \in DOMAIN Program[f].body :
              k > j => Program[f].body[k].op \notin Enqueues
    /\ \A k \in DOMAIN Program[f].tail :
         Program[f].tail[k].op \notin Enqueues

(* Every program compares its result, and before it reports any timing.    *)
ASSUME VerifyAssumption ==
  \A f \in Fns :
    /\ \/ \E j \in DOMAIN Program[f].body : Program[f].body[j].op = "verify"
       \/ \E j \in DOMAIN Program[f].tail : Program[f].tail[j].op = "verify"
    /\ \A k \in DOMAIN Program[f].body :
         Program[f].body[k].op = "times" =>
           \E j \in DOMAIN Program[f].body :
             j < k /\ Program[f].body[j].op = "verify"
    /\ \A k \in DOMAIN Program[f].setup : Program[f].setup[k].op # "times"
    /\ \A k \in DOMAIN Program[f].tail : Program[f].tail[k].op # "times"

(* The launches that are timed are synced before their timing is read.     *)
ASSUME TimingAssumption ==
  \A f \in Fns : \A k \in DOMAIN Program[f].body :
    Program[f].body[k].op = "times" =>
      \E j \in DOMAIN Program[f].body :
        /\ j < k /\ Program[f].body[j].op = "sync"
        /\ \A n \in DOMAIN Program[f].body :
             j < n /\ n < k => Program[f].body[n].op \notin Enqueues

-----------------------------------------------------------------------------
VARIABLES
  fn,        \* the function that is running
  phase,     \* where in the skeleton its thread is
  i,         \* next step of that phase
  loads,     \* how many modules of Program[fn].loads have a live handle
  held,      \* workspace parts and modules the driver holds for this call
  refused,   \* of those, the ones whose release call returned an error
  queue,     \* work submitted to the stream and not yet executed
  fault,     \* the context is in a sticky error state
  stray,     \* a kernel ran after its module or memory had been released
  out,       \* kinds of output parameters written
  verified,  \* the comparison with the CPU reference was passed
  ok         \* the value returned (FALSE until `return true')

vars == <<fn, phase, i, loads, held, refused, queue, fault, stray, out,
          verified, ok>>

Phases == {"guard", "ctor", "setup", "first", "try", "body", "unload",
           "tail", "catch", "leave", "done"}

(* ScopedVmm: the constructor's calls, and release() in its order.         *)
(* Mutant: cuMemMap is forgotten.                                          *)
CtorCalls_NoMap == <<"granularity", "range", "physical", "access">>

CtorCalls    == <<"granularity", "range", "physical", "mapping", "access">>
VmmParts     == {"range", "physical", "mapping"}
ReleaseCalls == <<"mapping", "physical", "range">>

Resources == VmmParts \cup Modules

ASSUME NameAssumption == VmmParts \cap Modules = {}

Code == IF phase = "setup" THEN Program[fn].setup
        ELSE IF phase = "body" THEN Program[fn].body ELSE Program[fn].tail

Init ==
  /\ fn \in Fns
  /\ phase = "guard" /\ i = 1 /\ loads = 0
  /\ held = {} /\ refused = {}
  /\ queue = << >> /\ fault = FALSE /\ stray = FALSE
  /\ out = {} /\ verified = FALSE /\ ok = FALSE

Goto(p) == phase' = p /\ i' = 1

(* available(), is_sm86() and the argument checks.                         *)
Guard ==
  /\ phase = "guard"
  /\ Goto("ctor") \/ Goto("done")
  /\ UNCHANGED <<fn, loads, held, refused, queue, fault, stray, out,
                 verified, ok>>

CtorCall ==
  /\ phase = "ctor" /\ i <= Len(CtorCalls)
  /\ held' = held \cup ({CtorCalls[i]} \cap VmmParts)
  /\ i' = i + 1
  /\ UNCHANGED <<fn, phase, loads, refused, queue, fault, stray, out,
                 verified, ok>>

(* Mutant: the constructor throws without calling release(); no destructor *)
(* runs for an object whose constructor threw.                             *)
CtorFails_NoRelease ==
  /\ phase = "ctor" /\ i <= Len(CtorCalls)
  /\ Goto("done")
  /\ UNCHANGED <<fn, loads, held, refused, queue, fault, stray, out,
                 verified, ok>>

CtorFails ==
  /\ phase = "ctor" /\ i <= Len(CtorCalls)
  /\ Goto("leave")
  /\ UNCHANGED <<fn, loads, held, refused, queue, fault, stray, out,
                 verified, ok>>

CtorDone ==
  /\ phase = "ctor" /\ i > Len(CtorCalls)
  /\ Goto("setup")
  /\ UNCHANGED <<fn, loads, held, refused, queue, fault, stray, out,
                 verified, ok>>

-----------------------------------------------------------------------------
(* The steps of the set-up, the body and the tail.                         *)
Step == Code[i]
AtStep == phase \in Bodies /\ i \in DOMAIN Code

(* A blocking call returns when the stream is empty or broken.             *)
(* Mutant: cuCtxSynchronize is replaced by a query that does not wait.     *)
Returns_SyncDoesNotWait == Step.op = "read" => (queue = << >> \/ fault)

Returns == Step.op \in Waits => (queue = << >> \/ fault)

Enqueue ==
  /\ AtStep /\ Step.op \in Enqueues /\ ~fault
  /\ queue' = Append(queue, Step)
  /\ i' = i + 1
  /\ UNCHANGED <<fn, phase, loads, held, refused, fault, stray, out,
                 verified, ok>>

Call ==
  /\ AtStep /\ Step.op \in CudaCalls \ Enqueues /\ ~fault /\ Returns
  /\ i' = i + 1
  /\ UNCHANGED <<fn, phase, loads, held, refused, queue, fault, stray, out,
                 verified, ok>>

Report ==
  /\ AtStep /\ Step.op \in Reports
  /\ out' = out \cup {Step.op}
  /\ i' = i + 1
  /\ UNCHANGED <<fn, phase, loads, held, refused, queue, fault, stray,
                 verified, ok>>

Verify ==
  /\ AtStep /\ Step.op = "verify"
  /\ verified' = TRUE
  /\ i' = i + 1
  /\ UNCHANGED <<fn, phase, loads, held, refused, queue, fault, stray, out,
                 ok>>

(* check() or a comparison throws: to the inner handler from the body, to  *)
(* the outer one from the set-up and the tail.                             *)
(* Mutant: a mismatch in a body is noted and the body goes on.             *)
Throws_NotesTheMismatch ==
  /\ AtStep /\ Step.op \notin Reports /\ Returns
  /\ IF phase = "body"
     THEN IF Step.op = "verify" THEN i' = i + 1 /\ UNCHANGED phase
          ELSE Goto("catch")
     ELSE Goto("leave")
  /\ UNCHANGED <<fn, loads, held, refused, queue, fault, stray, out,
                 verified, ok>>

Throws ==
  /\ AtStep /\ Step.op \notin Reports /\ Returns
  /\ Goto(IF phase = "body" THEN "catch" ELSE "leave")
  /\ UNCHANGED <<fn, loads, held, refused, queue, fault, stray, out,
                 verified, ok>>

(* Mutant: the normal path forgets to unload the modules.                  *)
EndOfSteps_NoUnload ==
  /\ phase \in Bodies /\ i > Len(Code)
  /\ Goto(IF phase = "setup" THEN "first"
          ELSE IF phase = "body" THEN "tail" ELSE "leave")
  /\ ok' = (phase = "tail")
  /\ UNCHANGED <<fn, loads, held, refused, queue, fault, stray, out,
                 verified>>

EndOfSteps ==
  /\ phase \in Bodies /\ i > Len(Code)
  /\ Goto(IF phase = "setup" THEN "first"
          ELSE IF phase = "body" THEN "unload" ELSE "leave")
  /\ ok' = (phase = "tail")
  /\ UNCHANGED <<fn, loads, held, refused, queue, fault, stray, out,
                 verified>>

-----------------------------------------------------------------------------
(* Modules: the first is loaded before the inner try, the others in it.    *)
LoadModule ==
  /\ phase \in {"first", "try"} /\ loads < Len(Program[fn].loads) /\ ~fault
  /\ held' = held \cup {Program[fn].loads[loads + 1]}
  /\ loads' = loads + 1
  /\ Goto("try")
  /\ UNCHANGED <<fn, refused, queue, fault, stray, out, verified, ok>>

LoadFails ==
  /\ phase \in {"first", "try"} /\ loads < Len(Program[fn].loads)
  /\ Goto(IF phase = "try" THEN "catch" ELSE "leave")
  /\ UNCHANGED <<fn, loads, held, refused, queue, fault, stray, out,
                 verified, ok>>

AllLoaded ==
  /\ phase = "try" /\ loads = Len(Program[fn].loads)
  /\ Goto("body")
  /\ UNCHANGED <<fn, loads, held, refused, queue, fault, stray, out,
                 verified, ok>>

(* cuModuleUnload of the last live handle: its return code is checked on   *)
(* the normal path, where the others are then abandoned, and ignored in    *)
(* the handler.                                                            *)
Last == Program[fn].loads[loads]

Unload ==
  /\ phase \in {"unload", "catch"} /\ loads > 0 /\ ~fault
  /\ held' = held \ {Last}
  /\ loads' = loads - 1
  /\ UNCHANGED <<fn, phase, i, refused, queue, fault, stray, out, verified,
                 ok>>

(* Mutant: the handler tries an unload again until it succeeds.            *)
UnloadRefused_Retries ==
  /\ phase \in {"unload", "catch"} /\ loads > 0
  /\ refused' = refused \cup {Last}
  /\ IF phase = "unload" THEN Goto("leave") /\ loads' = loads - 1
     ELSE UNCHANGED <<phase, i, loads>>
  /\ UNCHANGED <<fn, held, queue, fault, stray, out, verified, ok>>

UnloadRefused ==
  /\ phase \in {"unload", "catch"} /\ loads > 0
  /\ refused' = refused \cup {Last}
  /\ loads' = loads - 1
  /\ IF phase = "unload" THEN Goto("leave") ELSE UNCHANGED <<phase, i>>
  /\ UNCHANGED <<fn, held, queue, fault, stray, out, verified, ok>>

AllUnloaded ==
  /\ phase \in {"unload", "catch"} /\ loads = 0
  /\ Goto(IF phase = "unload" THEN "tail" ELSE "leave")
  /\ UNCHANGED <<fn, loads, held, refused, queue, fault, stray, out,
                 verified, ok>>

(* ~ScopedVmm: release() undoes what the constructor did and ignores what  *)
(* the driver answers.                                                     *)
Release ==
  /\ phase = "leave" /\ i <= Len(ReleaseCalls)
  /\ \/ held' = held \ {ReleaseCalls[i]} /\ UNCHANGED refused
     \/ /\ ReleaseCalls[i] \in held
        /\ refused' = refused \cup {ReleaseCalls[i]}
        /\ UNCHANGED held
  /\ i' = i + 1
  /\ UNCHANGED <<fn, phase, loads, queue, fault, stray, out, verified, ok>>

Return ==
  /\ phase = "leave" /\ i > Len(ReleaseCalls)
  /\ Goto("done")
  /\ UNCHANGED <<fn, loads, held, refused, queue, fault, stray, out,
                 verified, ok>>

Host == \/ Guard \/ CtorCall \/ CtorFails \/ CtorDone
        \/ Enqueue \/ Call \/ Report \/ Verify \/ Throws \/ EndOfSteps
        \/ LoadModule \/ LoadFails \/ AllLoaded
        \/ Unload \/ UnloadRefused \/ AllUnloaded
        \/ Release \/ Return

-----------------------------------------------------------------------------
(* The device (external: the CUDA driver and the GPU).                     *)
Backed(q) == "mapping" \in held /\ q.mod \in held \cup {NoModule}

Execute ==
  /\ queue # << >> /\ Backed(Head(queue))
  /\ queue' = Tail(queue)
  /\ UNCHANGED <<fn, phase, i, loads, held, refused, fault, stray, out,
                 verified, ok>>

(* A fault empties the stream; running without backing is one.             *)
KernelFaults ==
  /\ queue # << >>
  /\ queue' = << >>
  /\ fault' = TRUE
  /\ stray' = (stray \/ ~Backed(Head(queue)))
  /\ UNCHANGED <<fn, phase, i, loads, held, refused, out, verified, ok>>

Device == Execute \/ KernelFaults

Next == Host \/ Device

Fairness == WF_vars(Host) /\ WF_vars(Device)

Spec == Init /\ [][Next]_vars /\ Fairness

-----------------------------------------------------------------------------
FlagsOK == /\ fault \in BOOLEAN /\ stray \in BOOLEAN
           /\ verified \in BOOLEAN /\ ok \in BOOLEAN

DataOK == /\ fn \in Fns /\ phase \in Phases /\ i \in Nat
          /\ loads \in 0 .. Len(Program[fn].loads)
          /\ held \in SUBSET Resources /\ refused \in SUBSET Resources
          /\ queue \in Seq(Steps) /\ out \in SUBSET Reports

TypeOK == FlagsOK /\ DataOK

(* Nothing outlives the call unless the driver itself refused to take it   *)
(* back: after the call every part still held had its release call refused,*)
(* except the modules that the checked unloads skip after a refusal, and   *)
(* then the call returned false.                                           *)
NoLeak ==
  phase = "done" =>
    \/ held \subseteq refused
    \/ /\ ~ok /\ refused \cap Modules # {}
       /\ held \ refused \subseteq Modules

(* A call that returns true has compared its result with the reference,    *)
(* has given every module back, and left nothing running.                  *)
TrueIsEarned ==
  ok => /\ verified
        /\ held \cap Modules = {}
        /\ queue = << >> /\ ~stray

(* Timings reach the caller only for a result that passed its check, and   *)
(* only once the measured launches have completed.                         *)
HonestTimings == "times" \in out => verified

TimedWhenIdle ==
  [][("times" \in out' /\ "times" \notin out) => queue = << >>]_vars

(* Until the call fails, work in flight always has its module loaded and   *)
(* its workspace mapped: only the error path tears down a busy stream.     *)
InFlightIsBacked ==
  phase \notin {"catch", "leave", "done"} =>
    \A k \in DOMAIN queue : Backed(queue[k])

(* Every call returns, whatever fails on the way.                          *)
Terminates == <>(phase = "done")

=============================================================================
