--------------------------- MODULE GpuRun_proofs ---------------------------
(***************************************************************************)
(* GpuRun for every set of functions, modules and programs that satisfy    *)
(* the assumptions of GpuRun.  The programs of src/driver.cpp satisfy them *)
(* (TLC evaluates the assumptions on them).                                *)
(***************************************************************************)
EXTENDS GpuRun, TLAPS

Live == {Program[fn].loads[k] : k \in 1 .. loads}

(* The workspace: the constructor maps all of it, it stays mapped until    *)
(* the destructor runs, and what the destructor went past was released or  *)
(* refused.                                                                *)
WorkspaceInv ==
  /\ phase \in {"setup", "first", "try", "body"} => VmmParts \subseteq held
  /\ phase = "ctor" => \A k \in 1 .. 5 :
                         k < i /\ CtorCalls[k] \in VmmParts
                           => CtorCalls[k] \in held
  /\ phase = "leave" => \A k \in 1 .. 3 :
                          k < i /\ ReleaseCalls[k] \in held
                            => ReleaseCalls[k] \in refused
  /\ phase = "done" => held \cap VmmParts \subseteq refused

(* The modules: held ones are exactly the live handles until something is  *)
(* refused, and only the checked unloads can abandon a live handle.        *)
ModulesInv ==
  /\ phase = "guard" => held = {}
  /\ phase \in {"guard", "ctor", "setup", "first"} =>
       loads = 0 /\ held \cap Modules = {}
  /\ phase \in {"try", "body", "unload"} => held \cap Modules \subseteq Live
  /\ phase \in {"try", "body"} => Live \subseteq held
  /\ phase = "body" => loads = Len(Program[fn].loads)
  /\ phase = "tail" => held \cap Modules = {}
  /\ phase = "catch" => held \cap Modules \subseteq Live \cup refused
  /\ phase \in {"leave", "done"} =>
       \/ held \cap Modules \subseteq refused
       \/ ~ok /\ refused \cap Modules # {}
  /\ ok => phase \in {"leave", "done"} /\ held \cap Modules = {}

(* The comparison precedes every timing and every `return true'.           *)
VerifiedInv ==
  /\ "times" \in out => verified
  /\ ok => verified
  /\ phase = "body" =>
       \A j \in DOMAIN Program[fn].body :
         j < i /\ Program[fn].body[j].op = "verify" => verified
  /\ phase \in {"unload", "tail"} =>
       \A j \in DOMAIN Program[fn].body :
         Program[fn].body[j].op = "verify" => verified
  /\ phase = "tail" =>
       \A j \in DOMAIN Program[fn].tail :
         j < i /\ Program[fn].tail[j].op = "verify" => verified

(* The stream is idle once the last sync has returned.                     *)
IdleInv ==
  /\ phase \in {"guard", "ctor", "unload", "tail"} => queue = << >>
  /\ ok => queue = << >>
  /\ phase = "body" =>
       \A j \in DOMAIN Program[fn].body :
         /\ j < i /\ Program[fn].body[j].op = "sync"
         /\ \A k \in DOMAIN Program[fn].body :
              j < k /\ k < i => Program[fn].body[k].op \notin Enqueues
         => queue = << >>

StrayInv == stray => phase \in {"catch", "leave", "done"} /\ ~ok

IInv == TypeOK /\ WorkspaceInv /\ ModulesInv /\ VerifiedInv /\ IdleInv
        /\ InFlightIsBacked /\ StrayInv
-----------------------------------------------------------------------------
(* What ProgramAssumption says of the module list of one function.         *)
LEMMA LoadsFacts ==
  ASSUME NEW f \in Fns
  PROVE  /\ Program[f].loads \in Seq(Modules)
         /\ Len(Program[f].loads) \in Nat
         /\ \A k \in 1 .. Len(Program[f].loads) : Program[f].loads[k] \in Modules
<1>1. Program[f].loads \in Seq(Modules)
  BY ProgramAssumption
<1>. QED
  BY <1>1

(* The calls of the constructor and of release(), one by one.             *)
LEMMA CallFacts ==
  /\ Len(CtorCalls) = 5 /\ Len(ReleaseCalls) = 3
  /\ \A k \in 1 .. 3 : ReleaseCalls[k] \in VmmParts
  /\ VmmParts = {ReleaseCalls[k] : k \in 1 .. 3}
  /\ VmmParts \subseteq {CtorCalls[k] : k \in 1 .. 5}
<1>1. /\ CtorCalls[2] = "range" /\ CtorCalls[3] = "physical"
      /\ CtorCalls[4] = "mapping" /\ Len(CtorCalls) = 5
  BY DEF CtorCalls
<1>2. /\ ReleaseCalls[1] = "mapping" /\ ReleaseCalls[2] = "physical"
      /\ ReleaseCalls[3] = "range" /\ Len(ReleaseCalls) = 3
  BY DEF ReleaseCalls
<1>3. 1 .. 3 = {1, 2, 3} /\ 2 \in 1 .. 5 /\ 3 \in 1 .. 5 /\ 4 \in 1 .. 5
  OBVIOUS
<1>. QED
  BY <1>1, <1>2, <1>3 DEF VmmParts

(* Type correctness: every variable stays within its type.                 *)
LEMMA TypeInit == Init => TypeOK
<1> SUFFICES ASSUME Init PROVE TypeOK
  OBVIOUS
<1>1. FlagsOK
  BY Zenon DEF Init, FlagsOK
<1>2. Len(Program[fn].loads) \in Nat
  BY LoadsFacts DEF Init
<1>3. DataOK
  BY <1>2 DEF Init, DataOK, Phases, Resources
<1>. QED
  BY <1>1, <1>3 DEF TypeOK

(* Every step keeps the four flags Boolean: fault and stray of the device, *)
(* verified and ok of the host function.                                   *)
LEMMA FlagsStep == FlagsOK /\ [Next]_vars => FlagsOK'
<1> USE DEF FlagsOK
<1>1. FlagsOK /\ EndOfSteps => FlagsOK'
  BY Zenon DEF EndOfSteps
<1>2. FlagsOK /\ KernelFaults => FlagsOK'
  BY Zenon DEF KernelFaults
<1>3. FlagsOK /\ Verify => FlagsOK'
  BY Zenon DEF Verify
<1>4. ASSUME FlagsOK, [Next]_vars, ~EndOfSteps, ~KernelFaults, ~Verify
      PROVE  UNCHANGED <<fault, stray, verified, ok>>
  BY <1>4, Zenon DEF Next, Host, Device, vars, Guard, CtorCall, CtorFails, CtorDone,
     Enqueue, Call, Report, Throws, LoadModule, LoadFails, AllLoaded, Unload,
     UnloadRefused, AllUnloaded, Release, Return, Execute
<1>. QED
  BY <1>1, <1>2, <1>3, <1>4, Zenon

(* Every step keeps the data well typed: the place in the skeleton, the    *)
(* number of live module handles, what is held, and the stream.            *)
LEMMA DataStep == DataOK /\ [Next]_vars => DataOK'
<1> SUFFICES ASSUME DataOK, [Next]_vars PROVE DataOK'
  OBVIOUS
<1> USE DEF DataOK, Phases, Resources, VmmParts, Goto
<1>0. /\ Len(Program[fn].loads) \in Nat
      /\ \A k \in 1 .. Len(Program[fn].loads) : Program[fn].loads[k] \in Modules
  BY LoadsFacts
<1>1. CASE Guard
  BY <1>1 DEF Guard
<1>2. CASE CtorCall
  BY <1>2 DEF CtorCall
<1>3. CASE CtorFails
  BY <1>3 DEF CtorFails
<1>4. CASE CtorDone
  BY <1>4 DEF CtorDone
<1>5. CASE Enqueue
  <2>1. Step \in Steps
    BY <1>5, ProgramAssumption DEF Enqueue, AtStep, Bodies, Step, Code
  <2>. QED
    BY <2>1, <1>5 DEF Enqueue
<1>6. CASE Call
  BY <1>6 DEF Call
<1>7. CASE Report
  BY <1>7 DEF Report
<1>8. CASE Verify
  BY <1>8 DEF Verify
<1>9. CASE Throws
  BY <1>9 DEF Throws
<1>10. CASE EndOfSteps
  <2>1. phase' \in Phases /\ i' = 1 
    BY <1>10 DEF EndOfSteps, Bodies
  <2>. QED
    BY <2>1, <1>10 DEF EndOfSteps
<1>11. CASE LoadModule
  <2>1. Program[fn].loads[loads + 1] \in Modules
    BY <1>0, <1>11 DEF LoadModule
  <2>2. held' \in SUBSET Resources
    BY <2>1, <1>11 DEF LoadModule
  <2>3. fn' = fn /\ loads' \in 0 .. Len(Program[fn].loads)
    BY <1>0, <1>11 DEF LoadModule
  <2>. QED
    BY <2>2, <2>3, <1>11 DEF LoadModule
<1>12. CASE LoadFails
  BY <1>12 DEF LoadFails
<1>13. CASE AllLoaded
  BY <1>13 DEF AllLoaded
<1>14. CASE Unload
  <2>1. held' \in SUBSET Resources
    BY <1>14 DEF Unload
  <2>2. fn' = fn /\ loads' \in 0 .. Len(Program[fn].loads)
    BY <1>0, <1>14 DEF Unload
  <2>. QED
    BY <2>1, <2>2, <1>14 DEF Unload
<1>15. CASE UnloadRefused
  <2>1. Last \in Modules
    BY <1>0, <1>15 DEF UnloadRefused, Last
  <2>2. refused' \in SUBSET Resources
    BY <2>1, <1>15 DEF UnloadRefused
  <2>3. fn' = fn /\ loads' \in 0 .. Len(Program[fn].loads)
    BY <1>0, <1>15 DEF UnloadRefused
  <2>4. phase' \in Phases /\ i' \in Nat
    BY <1>15 DEF UnloadRefused
  <2>. QED
    BY <2>2, <2>3, <2>4, <1>15 DEF UnloadRefused
<1>16. CASE AllUnloaded
  BY <1>16 DEF AllUnloaded
<1>17. CASE Release
  <2>1. held' \in SUBSET Resources
    BY <1>17 DEF Release
  <2>2. refused' \subseteq refused \cup held
    BY <1>17 DEF Release
  <2>. QED
    BY <2>1, <2>2, <1>17 DEF Release
<1>18. CASE Return
  BY <1>18 DEF Return
<1>19. CASE Execute
  BY <1>19 DEF Execute
<1>20. CASE KernelFaults
  BY <1>20 DEF KernelFaults
<1>21. CASE UNCHANGED vars
  BY <1>21 DEF vars
<1>. QED
  BY <1>1, <1>2, <1>3, <1>4, <1>5, <1>6, <1>7, <1>8, <1>9, <1>10, <1>11,
     <1>12, <1>13, <1>14, <1>15, <1>16, <1>17, <1>18, <1>19, <1>20, <1>21
     DEF Next, Host, Device

(* Both halves of the type invariant are preserved.                        *)
LEMMA TypeStep == TypeOK /\ [Next]_vars => TypeOK'
  BY FlagsStep, DataStep DEF TypeOK

(* The state of a run_* call is always well typed; in particular the count *)
(* of live module handles never leaves 0 .. the number of modules loaded.  *)
THEOREM TypeCorrect == Spec => []TypeOK
<1>. QED
  BY TypeInit, TypeStep, PTL DEF Spec
-----------------------------------------------------------------------------
(* Every step preserves what is known of the workspace.                    *)
LEMMA WorkspaceStep == IInv /\ [Next]_vars => WorkspaceInv'
<1> SUFFICES ASSUME IInv, [Next]_vars PROVE WorkspaceInv'
  OBVIOUS
<1> USE DEF WorkspaceInv, Goto
<1>0. WorkspaceInv /\ i \in Nat
  BY DEF IInv, TypeOK, DataOK
<1>1. CASE Guard
  <2>1. \/ phase' = "ctor" /\ i' = 1
        \/ phase' = "done" /\ held' = {}
    BY <1>1 DEF Guard, IInv, ModulesInv
  <2>. QED
    BY <2>1
<1>2. CASE CtorCall
  BY <1>0, <1>2 DEF CtorCall
<1>3. CASE CtorFails
  BY <1>3 DEF CtorFails
<1>4. CASE CtorDone
  <2>1. \A k \in 1 .. 5 : k < i
    BY <1>0, <1>4, CallFacts DEF CtorDone
  <2>2. VmmParts \subseteq held
    BY <1>0, <2>1, <1>4, CallFacts DEF CtorDone
  <2>. QED
    BY <2>2, <1>4 DEF CtorDone
<1>5. CASE Enqueue \/ Call \/ Report \/ Verify
  <2>1. /\ phase \in Bodies
        /\ UNCHANGED <<phase, held, refused>>
    BY <1>5 DEF Enqueue, Call, Report, Verify, AtStep
  <2>. QED
    BY <1>0, <2>1 DEF Bodies
<1>6. CASE Throws
  <2>1. phase' \in {"catch", "leave"} /\ i' = 1
    BY <1>6 DEF Throws
  <2>. QED
    BY <2>1
<1>7. CASE EndOfSteps
  <2>1. \/ phase \in {"setup", "body"} /\ phase' \in {"first", "unload"}
        \/ phase' = "leave"
    BY <1>7 DEF EndOfSteps, Bodies
  <2>2. i' = 1 /\ UNCHANGED <<held, refused>>
    BY <1>7 DEF EndOfSteps
  <2>. QED
    BY <1>0, <2>1, <2>2
<1>8. CASE LoadModule
  <2>1. /\ phase \in {"first", "try"} /\ phase' = "try"
        /\ held \subseteq held'
    BY <1>8 DEF LoadModule
  <2>. QED
    BY <1>0, <2>1
<1>9. CASE LoadFails \/ AllLoaded
  <2>1. \/ phase' \in {"catch", "leave"} /\ i' = 1
        \/ phase = "try" /\ phase' = "body" /\ held' = held
    BY <1>9 DEF LoadFails, AllLoaded
  <2>. QED
    BY <1>0, <2>1
<1>10. CASE Unload
  BY <1>10 DEF Unload
<1>11. CASE UnloadRefused \/ AllUnloaded
  <2>1. \/ phase' \in {"unload", "catch", "tail"}
        \/ phase' = "leave" /\ i' = 1
    BY <1>11 DEF UnloadRefused, AllUnloaded
  <2>. QED
    BY <2>1
<1>12. CASE Release
  <2>1. i \in 1 .. 3 \/ i = 0
    BY <1>0, <1>12, CallFacts DEF Release
  <2>2. ReleaseCalls[i] \in held' => ReleaseCalls[i] \in refused'
    BY <1>12 DEF Release
  <2>3. held' \subseteq held /\ refused \subseteq refused'
    BY <1>12 DEF Release
  <2>4. phase = "leave" /\ phase' = "leave" /\ i' = i + 1
    BY <1>12 DEF Release
  <2>. QED
    BY <1>0, <2>1, <2>2, <2>3, <2>4
<1>13. CASE Return
  <2>1. \A k \in 1 .. 3 : k < i
    BY <1>0, <1>13, CallFacts DEF Return
  <2>2. held \cap VmmParts \subseteq refused
    BY <1>0, <2>1, <1>13, CallFacts DEF Return
  <2>. QED
    BY <2>2, <1>13 DEF Return
<1>14. CASE Device \/ UNCHANGED vars
  <2>1. UNCHANGED <<phase, i, held, refused>>
    BY <1>14 DEF Device, Execute, KernelFaults, vars
  <2>. QED
    BY <1>0, <2>1
<1>. QED
  BY <1>1, <1>2, <1>3, <1>4, <1>5, <1>6, <1>7, <1>8, <1>9, <1>10, <1>11,
     <1>12, <1>13, <1>14 DEF Next, Host

(* Every step preserves what is known of the modules.                      *)
LEMMA ModulesStep == IInv /\ [Next]_vars => ModulesInv'
<1> SUFFICES ASSUME IInv, [Next]_vars PROVE ModulesInv'
  OBVIOUS
<1> USE DEF ModulesInv, Goto
<1>0. /\ ModulesInv
      /\ fn \in Fns /\ Len(Program[fn].loads) \in Nat
      /\ loads \in 0 .. Len(Program[fn].loads)
      /\ held \subseteq VmmParts \cup Modules /\ VmmParts \cap Modules = {}
  BY LoadsFacts, NameAssumption DEF IInv, TypeOK, DataOK, Resources
<1>1. CASE Guard
  BY <1>0, <1>1 DEF Guard
<1>2. CASE CtorCall
  <2>1. held' \cap Modules = held \cap Modules
    BY <1>0, <1>2 DEF CtorCall
  <2>2. phase = "ctor" /\ UNCHANGED <<phase, loads, ok>>
    BY <1>2 DEF CtorCall
  <2>. QED
    BY <1>0, <2>1, <2>2
<1>3. CASE CtorFails
  BY <1>0, <1>3 DEF CtorFails
<1>4. CASE CtorDone
  BY <1>0, <1>4 DEF CtorDone
<1>5. CASE \/ Enqueue \/ Call \/ Report \/ Verify \/ Device \/ UNCHANGED vars
  <2>1. UNCHANGED <<fn, phase, loads, held, refused, ok>>
    BY <1>5 DEF Enqueue, Call, Report, Verify, Device, Execute, KernelFaults,
                vars
  <2>2. Live' = Live
    BY <2>1 DEF Live
  <2>. QED
    BY <1>0, <2>1, <2>2
<1>6. CASE Throws
  <2>1. /\ UNCHANGED <<fn, loads, held, refused, ok>>
        /\ \/ phase = "body" /\ phase' = "catch"
           \/ phase \in {"setup", "tail"} /\ phase' = "leave"
    BY <1>6 DEF Throws, AtStep, Bodies
  <2>2. Live' = Live
    BY <2>1 DEF Live
  <2>. QED
    BY <1>0, <2>1, <2>2
<1>7. CASE EndOfSteps
  <2>1. /\ UNCHANGED <<fn, loads, held, refused>>
        /\ \/ phase = "setup" /\ phase' = "first" /\ ~ok'
           \/ phase = "body" /\ phase' = "unload" /\ ~ok'
           \/ phase = "tail" /\ phase' = "leave"
    BY <1>7 DEF EndOfSteps, Bodies
  <2>2. Live' = Live
    BY <2>1 DEF Live
  <2>. QED
    BY <1>0, <2>1, <2>2
<1>8. CASE LoadModule
  <2>1. /\ phase \in {"first", "try"} /\ phase' = "try"
        /\ loads' = loads + 1 /\ UNCHANGED <<fn, refused, ok>>
        /\ held' = held \cup {Program[fn].loads[loads + 1]}
    BY <1>8 DEF LoadModule
  <2>2. Live' = Live \cup {Program[fn].loads[loads + 1]}
    <3>1. 1 .. loads' = (1 .. loads) \cup {loads + 1}
      BY <1>0, <2>1
    <3>. QED
      BY <2>1, <3>1 DEF Live
  <2>3. held \cap Modules \subseteq Live /\ Live \subseteq held
    <3>1. CASE phase = "try"
      BY <1>0, <3>1
    <3>2. CASE phase = "first"
      <4>1. 1 .. loads = {}
        BY <1>0, <3>2
      <4>. QED
        BY <1>0, <3>2, <4>1 DEF Live
    <3>. QED
      BY <2>1, <3>1, <3>2
  <2>. QED
    BY <1>0, <2>1, <2>2, <2>3
<1>9. CASE LoadFails
  <2>1. /\ UNCHANGED <<fn, loads, held, refused, ok>>
        /\ \/ phase = "try" /\ phase' = "catch"
           \/ phase = "first" /\ phase' = "leave"
    BY <1>9 DEF LoadFails
  <2>2. Live' = Live
    BY <2>1 DEF Live
  <2>. QED
    BY <1>0, <2>1, <2>2
<1>10. CASE AllLoaded
  <2>1. /\ UNCHANGED <<fn, loads, held, refused, ok>>
        /\ phase = "try" /\ phase' = "body" /\ loads = Len(Program[fn].loads)
    BY <1>10 DEF AllLoaded
  <2>2. Live' = Live
    BY <2>1 DEF Live
  <2>. QED
    BY <1>0, <2>1, <2>2
<1>11. CASE Unload \/ UnloadRefused
  <2>1. loads > 0 /\ loads' = loads - 1 /\ fn' = fn /\ UNCHANGED ok
    BY <1>11 DEF Unload, UnloadRefused
  <2>2. Live \subseteq Live' \cup {Last}
    <3>1. 1 .. loads = (1 .. loads') \cup {loads}
      BY <1>0, <2>1
    <3>. QED
      BY <2>1, <3>1 DEF Live, Last
  <2>3. CASE Unload
    BY <1>0, <2>1, <2>2, <2>3 DEF Unload
  <2>4. CASE UnloadRefused
    <3>1. Last \in Modules
      BY <1>0, <2>1, LoadsFacts DEF Last
    <3>2. CASE phase = "unload"
      <4>1. phase' = "leave" /\ ~ok /\ refused' = refused \cup {Last}
        BY <1>0, <2>4, <3>2 DEF UnloadRefused
      <4>. QED
        BY <1>0, <2>1, <3>1, <4>1
    <3>3. CASE phase = "catch"
      <4>1. /\ phase' = "catch" /\ held' = held
            /\ refused' = refused \cup {Last}
        BY <2>4, <3>3 DEF UnloadRefused
      <4>. QED
        BY <1>0, <2>1, <2>2, <3>3, <4>1
    <3>. QED
      BY <2>4, <3>2, <3>3 DEF UnloadRefused
  <2>. QED
    BY <1>11, <2>3, <2>4
<1>12. CASE AllUnloaded
  <2>1. /\ UNCHANGED <<held, refused, ok>> /\ loads = 0
        /\ \/ phase = "unload" /\ phase' = "tail"
           \/ phase = "catch" /\ phase' = "leave"
    BY <1>12 DEF AllUnloaded
  <2>2. Live = {}
    <3>1. 1 .. loads = {}
      BY <2>1
    <3>. QED
      BY <3>1 DEF Live
  <2>. QED
    BY <1>0, <2>1, <2>2
<1>13. CASE Release
  <2>1. /\ held' \subseteq held /\ refused \subseteq refused'
        /\ phase = "leave" /\ phase' = "leave" /\ ok' = ok
    BY <1>13 DEF Release
  <2>. QED
    BY <1>0, <2>1
<1>14. CASE Return
  BY <1>0, <1>14 DEF Return
<1>. QED
  BY <1>1, <1>2, <1>3, <1>4, <1>5, <1>6, <1>7, <1>8, <1>9, <1>10, <1>11,
     <1>12, <1>13, <1>14 DEF Next, Host

(* The three parts of a program are finite sequences of steps.             *)
LEMMA PartFacts ==
  ASSUME NEW f \in Fns
  PROVE  /\ DOMAIN Program[f].body = 1 .. Len(Program[f].body)
         /\ DOMAIN Program[f].tail = 1 .. Len(Program[f].tail)
         /\ Len(Program[f].body) \in Nat /\ Len(Program[f].tail) \in Nat
<1>1. Program[f].body \in Seq(Steps) /\ Program[f].tail \in Seq(Steps)
  BY ProgramAssumption
<1>. QED
  BY <1>1

(* Every step preserves what is known of the comparison.                   *)
LEMMA VerifiedStep == IInv /\ [Next]_vars => VerifiedInv'
<1> SUFFICES ASSUME IInv, [Next]_vars PROVE VerifiedInv'
  OBVIOUS
<1> USE DEF VerifiedInv, Goto
<1>0. /\ VerifiedInv /\ fn \in Fns /\ i \in Nat
      /\ ok => phase \in {"leave", "done"}
  BY DEF IInv, TypeOK, DataOK, ModulesInv
<1>1. CASE \/ Guard \/ CtorCall \/ CtorFails \/ CtorDone \/ LoadModule
           \/ LoadFails \/ Release \/ Return
  <2>1. /\ UNCHANGED <<out, verified, ok>>
        /\ phase' \in Phases \ {"body", "unload", "tail"}
    BY <1>1 DEF Guard, CtorCall, CtorFails, CtorDone, LoadModule, LoadFails,
                Release, Return, Phases
  <2>. QED
    BY <1>0, <2>1
<1>2. CASE Unload \/ UnloadRefused \/ Device \/ UNCHANGED vars
  <2>1. /\ UNCHANGED <<fn, out, verified, ok>>
        /\ UNCHANGED <<phase, i>> \/ phase' = "leave"
    BY <1>2 DEF Unload, UnloadRefused, Device, Execute, KernelFaults, vars
  <2>. QED
    BY <1>0, <2>1
<1>3. CASE Enqueue \/ Call
  <2>1. /\ UNCHANGED <<fn, phase, out, verified, ok>> /\ i' = i + 1
        /\ phase \in Bodies /\ Code[i].op # "verify"
    BY <1>3 DEF Enqueue, Call, AtStep, Step, CudaCalls, Enqueues, Waits
  <2>. QED
    BY <1>0, <2>1, PartFacts DEF Code, Bodies
<1>4. CASE Report
  <2>1. /\ UNCHANGED <<fn, phase, verified, ok>> /\ i' = i + 1
        /\ phase \in Bodies /\ i \in DOMAIN Code
        /\ Code[i].op \in {"errors", "times"} /\ out' = out \cup {Code[i].op}
    BY <1>4 DEF Report, AtStep, Step, Reports
  <2>2. Code[i].op = "times" => verified
    <3>1. CASE phase = "body"
      BY <1>0, <2>1, <3>1, PartFacts, VerifyAssumption DEF Code
    <3>2. CASE phase \in {"setup", "tail"}
      BY <1>0, <2>1, <3>2, VerifyAssumption DEF Code
    <3>. QED
      BY <2>1, <3>1, <3>2 DEF Bodies
  <2>. QED
    BY <1>0, <2>1, <2>2, PartFacts DEF Code, Bodies
<1>5. CASE Verify
  <2>1. verified' /\ ok' = ok /\ out' = out
    BY <1>5 DEF Verify
  <2>. QED
    BY <1>0, <2>1
<1>6. CASE Throws
  <2>1. /\ UNCHANGED <<out, verified, ok>> /\ phase' \in {"catch", "leave"}
    BY <1>6 DEF Throws
  <2>. QED
    BY <1>0, <2>1
<1>7. CASE EndOfSteps
  <2>1. /\ UNCHANGED <<fn, out, verified>> /\ i > Len(Code)
        /\ \/ phase = "setup" /\ phase' = "first" /\ ~ok'
           \/ phase = "body" /\ phase' = "unload" /\ ~ok'
           \/ phase = "tail" /\ phase' = "leave"
    BY <1>7 DEF EndOfSteps, Bodies
  <2>2. CASE phase = "setup"
    BY <1>0, <2>1, <2>2
  <2>3. CASE phase = "body"
    <3>1. \A j \in DOMAIN Program[fn].body : j < i
      BY <1>0, <2>1, <2>3, PartFacts DEF Code
    <3>. QED
      BY <1>0, <2>1, <2>3, <3>1
  <2>4. CASE phase = "tail"
    <3>1. \A j \in DOMAIN Program[fn].tail : j < i
      BY <1>0, <2>1, <2>4, PartFacts DEF Code
    <3>2. verified
      BY <1>0, <2>4, <3>1, VerifyAssumption
    <3>. QED
      BY <1>0, <2>1, <2>4, <3>2
  <2>. QED
    BY <2>1, <2>2, <2>3, <2>4
<1>8. CASE AllLoaded
  <2>1. /\ UNCHANGED <<fn, out, verified, ok>> /\ phase' = "body" /\ i' = 1
    BY <1>8 DEF AllLoaded
  <2>. QED
    BY <1>0, <2>1, PartFacts
<1>9. CASE AllUnloaded
  <2>1. /\ UNCHANGED <<fn, out, verified, ok>> /\ i' = 1
        /\ \/ phase = "unload" /\ phase' = "tail"
           \/ phase' = "leave"
    BY <1>9 DEF AllUnloaded
  <2>. QED
    BY <1>0, <2>1, PartFacts
<1>. QED
  BY <1>1, <1>2, <1>3, <1>4, <1>5, <1>6, <1>7, <1>8, <1>9 DEF Next, Host

(* Every step preserves what is known of the stream: past the last sync it *)
(* is empty.                                                               *)
LEMMA IdleStep == IInv /\ [Next]_vars => IdleInv'
<1> SUFFICES ASSUME IInv, [Next]_vars PROVE IdleInv'
  OBVIOUS
<1> USE DEF IdleInv, Goto
<1>0. /\ IdleInv /\ fn \in Fns /\ i \in Nat
      /\ ok => phase \in {"leave", "done"}
  BY DEF IInv, TypeOK, DataOK, ModulesInv
<1>1. CASE \/ Guard \/ CtorCall \/ CtorFails \/ CtorDone \/ LoadModule
           \/ LoadFails \/ Release \/ Return \/ Throws
  <2>1. /\ UNCHANGED <<queue, ok>>
        /\ \/ phase' \notin {"guard", "ctor", "body", "unload", "tail"}
           \/ phase \in {"guard", "ctor"} /\ phase' = "ctor"
    BY <1>1 DEF Guard, CtorCall, CtorFails, CtorDone, LoadModule, LoadFails,
                Release, Return, Throws
  <2>. QED
    BY <1>0, <2>1
<1>2. CASE Unload \/ UnloadRefused \/ UNCHANGED vars
  <2>1. /\ UNCHANGED <<fn, queue, ok>>
        /\ UNCHANGED <<phase, i>> \/ phase' = "leave"
    BY <1>2 DEF Unload, UnloadRefused, vars
  <2>. QED
    BY <1>0, <2>1
<1>3. CASE Device
  <2>1. queue # << >> /\ UNCHANGED <<fn, phase, i, ok>>
    BY <1>3 DEF Device, Execute, KernelFaults
  <2>. QED
    BY <1>0, <2>1
<1>4. CASE Enqueue
  <2>1. /\ UNCHANGED <<fn, phase, ok>> /\ i' = i + 1
        /\ phase \in Bodies /\ i \in DOMAIN Code /\ Code[i].op \in Enqueues
    BY <1>4 DEF Enqueue, AtStep, Step
  <2>2. phase # "tail"
    BY <1>0, <2>1, IdleAssumption DEF Code
  <2>3. CASE phase = "body"
    <3>1. \A j \in DOMAIN Program[fn].body :
            j < i + 1 /\ Program[fn].body[j].op = "sync" => j < i
      BY <1>0, <2>1, <2>3, PartFacts DEF Code, Enqueues
    <3>. QED
      BY <1>0, <2>1, <2>3, <3>1, PartFacts DEF Code
  <2>. QED
    BY <1>0, <2>1, <2>2, <2>3 DEF Bodies
<1>5. CASE Call \/ Report \/ Verify
  <2>1. /\ UNCHANGED <<fn, phase, queue, ok>> /\ i' = i + 1
        /\ phase \in Bodies /\ i \in DOMAIN Code
        /\ Code[i].op = "sync" => queue = << >>
    BY <1>5 DEF Call, Report, Verify, AtStep, Step, Returns, Waits, Reports
  <2>2. CASE phase = "body"
    BY <1>0, <2>1, <2>2, PartFacts DEF Code
  <2>. QED
    BY <1>0, <2>1, <2>2 DEF Bodies
<1>6. CASE EndOfSteps
  <2>1. /\ UNCHANGED <<fn, queue>> /\ i > Len(Code)
        /\ \/ phase = "setup" /\ phase' = "first" /\ ~ok'
           \/ phase = "body" /\ phase' = "unload" /\ ~ok'
           \/ phase = "tail" /\ phase' = "leave"
    BY <1>6 DEF EndOfSteps, Bodies
  <2>2. CASE phase = "body"
    <3>1. \A j \in DOMAIN Program[fn].body : j < i
      BY <1>0, <2>1, <2>2, PartFacts DEF Code
    <3>2. queue = << >>
      BY <1>0, <2>2, <3>1, IdleAssumption, PartFacts
    <3>. QED
      BY <2>1, <2>2, <3>2
  <2>. QED
    BY <1>0, <2>1, <2>2
<1>7. CASE AllLoaded
  <2>1. /\ UNCHANGED <<fn, queue, ok>> /\ phase' = "body" /\ i' = 1
    BY <1>7 DEF AllLoaded
  <2>. QED
    BY <1>0, <2>1, PartFacts
<1>8. CASE AllUnloaded
  <2>1. /\ UNCHANGED <<fn, queue, ok>>
        /\ \/ phase = "unload" /\ phase' = "tail"
           \/ phase' = "leave"
    BY <1>8 DEF AllUnloaded
  <2>. QED
    BY <1>0, <2>1
<1>. QED
  BY <1>1, <1>2, <1>3, <1>4, <1>5, <1>6, <1>7, <1>8 DEF Next, Host
-----------------------------------------------------------------------------
(* What is submitted is backed when it is submitted.                       *)
LEMMA SubmittedBacked ==
  ASSUME IInv, Enqueue
  PROVE  phase # "tail" /\ Backed(Step)
<1>0. /\ fn \in Fns /\ i \in Nat /\ WorkspaceInv /\ ModulesInv
  BY DEF IInv, TypeOK, DataOK
<1>1. phase \in Bodies /\ i \in DOMAIN Code /\ Step = Code[i]
      /\ Step.op \in Enqueues
  BY DEF Enqueue, AtStep, Step
<1>2. phase # "tail"
  BY <1>0, <1>1, IdleAssumption DEF Code
<1>3. "mapping" \in held
  BY <1>0, <1>1, <1>2 DEF WorkspaceInv, Bodies, VmmParts
<1>4. CASE phase = "setup"
  BY <1>0, <1>1, <1>3, <1>4, LaunchAssumption DEF Code, Backed
<1>5. CASE phase = "body"
  <2>1. loads = Len(Program[fn].loads) /\ Live \subseteq held
    BY <1>0, <1>5 DEF ModulesInv
  <2>2. CASE Step.op = "launch"
    <3>1. PICK n \in DOMAIN Program[fn].loads : Step.mod = Program[fn].loads[n]
      BY <1>0, <1>1, <1>5, <2>2, LaunchAssumption DEF Code
    <3>2. Step.mod \in Live
      <4>1. n \in 1 .. loads
        BY <1>0, <2>1, LoadsFacts
      <4>. QED
        BY <3>1, <4>1 DEF Live
    <3>3. Step.mod \in held
      BY <2>1, <3>2
    <3>. QED
      BY <1>3, <1>5, <3>3, Zenon DEF Backed
  <2>3. CASE Step.op # "launch"
    BY <1>0, <1>1, <1>3, <1>5, <2>3, LaunchAssumption DEF Code, Backed
  <2>. QED
    BY <2>2, <2>3
<1>. QED
  BY <1>1, <1>2, <1>4, <1>5 DEF Bodies

(* Every step keeps the work in flight backed, until the call fails.       *)
LEMMA BackedStep == IInv /\ [Next]_vars => InFlightIsBacked'
<1> SUFFICES ASSUME IInv, [Next]_vars,
                    phase' \notin {"catch", "leave", "done"}
             PROVE  \A k \in DOMAIN queue' : Backed(queue[k])'
  BY DEF InFlightIsBacked
<1>0. /\ queue \in Seq(Steps) /\ IdleInv /\ InFlightIsBacked
  BY DEF IInv, TypeOK, DataOK
<1>1. CASE Enqueue
  <2>1. phase' = phase /\ held' = held /\ queue' = Append(queue, Step)
    BY <1>1 DEF Enqueue
  <2>2. \A k \in DOMAIN queue : Backed(queue[k])
    BY <1>0, <2>1 DEF InFlightIsBacked
  <2>3. Backed(Step)
    BY <1>1, SubmittedBacked
  <2>4. \A k \in DOMAIN queue' : queue'[k] = Step \/ \E n \in DOMAIN queue :
                                                      queue'[k] = queue[n]
    BY <1>0, <2>1
  <2>. QED
    BY <2>1, <2>2, <2>3, <2>4 DEF Backed
<1>2. CASE Execute
  <2>1. phase' = phase /\ held' = held /\ queue' = Tail(queue)
        /\ queue # << >>
    BY <1>2 DEF Execute
  <2>2. \A k \in DOMAIN queue' : \E n \in DOMAIN queue : queue'[k] = queue[n]
    BY <1>0, <2>1
  <2>. QED
    BY <1>0, <2>1, <2>2 DEF InFlightIsBacked, Backed
<1>3. CASE KernelFaults
  <2>1. queue' = << >>
    BY <1>3 DEF KernelFaults
  <2>. QED
    BY <2>1
<1>4. CASE queue = << >> /\ ~Enqueue
  <2>1. queue' = << >>
    BY <1>4 DEF Next, Host, Device, vars, Guard, CtorCall, CtorFails, CtorDone,
       Call, Report, Verify, Throws, EndOfSteps, LoadModule, LoadFails,
       AllLoaded, Unload, UnloadRefused, AllUnloaded, Release, Return, Execute,
       KernelFaults
  <2>. QED
    BY <2>1
<1>5. CASE /\ queue # << >> /\ ~Enqueue /\ ~Execute /\ ~KernelFaults
  <2>1. queue' = queue /\ held \subseteq held'
        /\ phase \notin {"catch", "leave", "done"}
    BY <1>0, <1>5 DEF IdleInv, Next, Host, Device, vars, Goto, Guard, CtorCall,
       CtorFails, CtorDone, Call, Report, Verify, Throws, EndOfSteps,
       LoadModule, LoadFails, AllLoaded, Unload, UnloadRefused, AllUnloaded,
       Release, Return
  <2>. QED
    BY <1>0, <2>1 DEF InFlightIsBacked, Backed
<1>. QED
  BY <1>1, <1>2, <1>3, <1>4, <1>5

(* Every step: work is overtaken by a release only after a failure.        *)
LEMMA StrayStep == IInv /\ [Next]_vars => StrayInv'
<1> SUFFICES ASSUME IInv, [Next]_vars PROVE StrayInv'
  OBVIOUS
<1>0. /\ queue \in Seq(Steps) /\ IdleInv /\ InFlightIsBacked /\ StrayInv
      /\ ok => queue = << >>
  BY DEF IInv, TypeOK, DataOK, IdleInv
<1>1. CASE KernelFaults
  <2>1. /\ queue # << >> /\ UNCHANGED <<phase, ok>>
        /\ stray' => stray \/ ~Backed(Head(queue))
    BY <1>1 DEF KernelFaults
  <2>2. Head(queue) = queue[1] /\ 1 \in DOMAIN queue
    BY <1>0, <2>1
  <2>. QED
    BY <1>0, <2>1, <2>2 DEF StrayInv, InFlightIsBacked
<1>2. CASE ~KernelFaults
  <2>1. stray' = stray
    BY <1>2 DEF Next, Host, Device, vars, Guard, CtorCall, CtorFails, CtorDone,
       Enqueue, Call, Report, Verify, Throws, EndOfSteps, LoadModule, LoadFails,
       AllLoaded, Unload, UnloadRefused, AllUnloaded, Release, Return, Execute
  <2>2. phase \in {"catch", "leave", "done"} =>
          phase' \in {"catch", "leave", "done"} /\ ok' = ok
    BY <1>2 DEF Next, Host, Device, vars, Goto, Guard, CtorCall, CtorFails,
       CtorDone, Enqueue, Call, Report, Verify, Throws, EndOfSteps, LoadModule,
       LoadFails, AllLoaded, Unload, UnloadRefused, AllUnloaded, Release,
       Return, Execute, AtStep, Bodies
  <2>. QED
    BY <1>0, <2>1, <2>2 DEF StrayInv
<1>. QED
  BY <1>1, <1>2
-----------------------------------------------------------------------------
(* The conjunction of all of it is inductive.                              *)
LEMMA InductiveInit == Init => IInv
<1> SUFFICES ASSUME Init PROVE IInv
  OBVIOUS
<1>1. WorkspaceInv /\ ModulesInv /\ VerifiedInv /\ IdleInv
  BY DEF Init, WorkspaceInv, ModulesInv, VerifiedInv, IdleInv
<1>2. InFlightIsBacked /\ StrayInv
  BY DEF Init, InFlightIsBacked, StrayInv
<1>. QED
  BY <1>1, <1>2, TypeInit DEF IInv

(* The strengthening is preserved by every step, part by part.             *)
LEMMA InductiveStep == IInv /\ [Next]_vars => IInv'
<1>1. IInv => TypeOK
  BY DEF IInv
<1>. QED
  BY <1>1, TypeStep, WorkspaceStep, ModulesStep, VerifiedStep, IdleStep,
     BackedStep, StrayStep DEF IInv

(* The strengthening holds in every reachable state of a run_* call, for any *)
(* programs that satisfy the assumptions of GpuRun.                        *)
THEOREM Inductive == Spec => []IInv
<1>. QED
  BY InductiveInit, InductiveStep, PTL DEF Spec

(* Nothing outlives the call unless its release was refused, or a refused  *)
(* checked unload made the call skip the other modules and return false.   *)
THEOREM NoLeakHolds == Spec => []NoLeak
<1>1. IInv => NoLeak
  <2> SUFFICES ASSUME IInv, phase = "done"
               PROVE  \/ held \subseteq refused
                      \/ /\ ~ok /\ refused \cap Modules # {}
                         /\ held \ refused \subseteq Modules
    BY DEF NoLeak
  <2>1. held \subseteq VmmParts \cup Modules
    BY DEF IInv, TypeOK, DataOK, Resources
  <2>2. held \cap VmmParts \subseteq refused
    BY DEF IInv, WorkspaceInv
  <2>3. \/ held \cap Modules \subseteq refused
        \/ ~ok /\ refused \cap Modules # {}
    BY DEF IInv, ModulesInv
  <2>. QED
    BY <2>1, <2>2, <2>3
<1>. QED
  BY Inductive, <1>1, PTL

(* A call that returns true compared its result, gave every module back,   *)
(* left nothing running, and no kernel of it ran without backing.          *)
THEOREM TrueIsEarnedHolds == Spec => []TrueIsEarned
<1>1. IInv => TrueIsEarned
  BY DEF IInv, TrueIsEarned, VerifiedInv, ModulesInv, IdleInv, StrayInv
<1>. QED
  BY Inductive, <1>1, PTL

(* Timings reach the caller only for a result that passed its comparison.  *)
THEOREM HonestTimingsHolds == Spec => []HonestTimings
<1>1. IInv => HonestTimings
  BY DEF IInv, HonestTimings, VerifiedInv
<1>. QED
  BY Inductive, <1>1, PTL

(* Until the call fails, the device never runs a kernel whose module has   *)
(* been unloaded or whose workspace has been unmapped.                     *)
THEOREM InFlightIsBackedHolds == Spec => []InFlightIsBacked
<1>1. IInv => InFlightIsBacked
  BY DEF IInv
<1>. QED
  BY Inductive, <1>1, PTL

(* Timings are written only while the stream is idle: the launches they    *)
(* are of have completed.                                                  *)
THEOREM TimedWhenIdleHolds == Spec => TimedWhenIdle
<1>1. ASSUME IInv, [Next]_vars, "times" \in out', "times" \notin out
      PROVE  queue = << >>
  <2>1. fn \in Fns /\ IdleInv
    BY <1>1 DEF IInv, TypeOK, DataOK
  <2>2. CASE Report
    <3>1. /\ phase \in Bodies /\ i \in DOMAIN Code
          /\ Code[i].op = "times"
      BY <1>1, <2>2 DEF Report, AtStep, Step
    <3>2. phase = "body"
      BY <2>1, <3>1, VerifyAssumption DEF Code, Bodies
    <3>. QED
      BY <2>1, <3>1, <3>2, TimingAssumption DEF Code, IdleInv
  <2>3. CASE \/ Guard \/ CtorCall \/ CtorFails \/ CtorDone \/ Enqueue
             \/ Call \/ Verify \/ Throws \/ EndOfSteps
    BY <1>1, <2>3 DEF Guard, CtorCall, CtorFails, CtorDone, Enqueue, Call,
       Verify, Throws, EndOfSteps
  <2>4. CASE \/ LoadModule \/ LoadFails \/ AllLoaded \/ Unload
             \/ UnloadRefused \/ AllUnloaded \/ Release \/ Return
    BY <1>1, <2>4 DEF LoadModule, LoadFails, AllLoaded, Unload,
       UnloadRefused, AllUnloaded, Release, Return
  <2>5. CASE Device \/ UNCHANGED vars
    BY <1>1, <2>5 DEF Device, Execute, KernelFaults, vars
  <2>. QED
    BY <1>1, <2>2, <2>3, <2>4, <2>5 DEF Next, Host
<1>. QED
  BY Inductive, <1>1, PTL DEF Spec, TimedWhenIdle
=============================================================================
