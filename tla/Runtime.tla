------------------------------ MODULE Runtime -------------------------------
(***************************************************************************)
(* A Runtime object (src/runtime.cpp: load, info, the run_* functions;     *)
(* include/q38/runtime.hpp): a path, a PackFile and an NvidiaDriver, and   *)
(* the programs that load a model with it and run a layer.                 *)
(*                                                                         *)
(* load() sets the path, opens the pack and opens the driver, in this      *)
(* order.  The pack may be missing, refused by the system or refused by    *)
(* parse(); the driver may fail at any of its calls, which load() passes   *)
(* on or swallows.  A load that throws leaves what it did so far: a caller *)
(* that goes on has a driver of an earlier load with no pack, or with the  *)
(* first tensors of one that was refused.                                  *)
(***************************************************************************)
EXTENDS DriverSession, FiniteSets

CONSTANTS
  Paths,
  Disk,       \* path -> the file there, or None
  Files, Addresses, Fds, None,
  MaxLoads    \* bound on the loads of one object

VARIABLES
  alive, obj, mapping, fds, moved,                           \* the pack
  path,      \* model_path_
  phase,     \* where the program is
  required,  \* the argument require_gpu
  result,    \* how the last load() ended
  launched,  \* what the last run used: a file, its tensors, a context
  loads

packVars == <<alive, obj, mapping, fds, moved>>
callVars == <<path, phase, required, result, launched, loads>>
vars     == <<packVars, sessionVars, callVars>>

Pack == INSTANCE PackFile WITH Handles <- {"pack"}

ASSUME RuntimeAssumption ==
  /\ Pack!NoneIsNew /\ Fds \subseteq Nat /\ Pack!FilesHaveTheirTypes
  /\ None \notin Paths
  /\ \A p \in Paths : Disk[p] \in Files \cup {None}

pack      == obj["pack"]
NoLaunch  == [file |-> None, tensors |-> << >>, context |-> NoContext]

Init ==
  /\ Pack!Init /\ SessionInit
  /\ path = None /\ phase = "unborn" /\ required = FALSE
  /\ result = "never" /\ launched = NoLaunch /\ loads = 0

Construct ==
  /\ phase = "unborn"
  /\ Pack!Construct("pack")
  /\ phase' = "idle"
  /\ UNCHANGED <<sessionVars, path, required, result, launched, loads>>

(* Mutant: the path is taken over when the pack was accepted.              *)
LoadPack_PathLast(p, require) ==
  /\ phase = "idle" /\ loads < MaxLoads
  /\ loads' = loads + 1 /\ required' = require
  /\ \/ /\ Pack!OpenFails("pack")
        /\ result' = "threw" /\ UNCHANGED <<path, phase>>
     \/ /\ Disk[p] # None
        /\ Pack!OpenFile("pack", Disk[p])
        /\ IF Pack!Accepted(Disk[p])
           THEN phase' = "driver" /\ path' = p /\ UNCHANGED result
           ELSE result' = "threw" /\ UNCHANGED <<path, phase>>
  /\ UNCHANGED <<sessionVars, launched>>

(* load(p, require), up to the return of pack_.open().                     *)
LoadPack(p, require) ==
  /\ phase = "idle" /\ loads < MaxLoads
  /\ loads' = loads + 1 /\ required' = require
  /\ path' = p
  /\ \/ /\ Pack!OpenFails("pack")
        /\ result' = "threw" /\ UNCHANGED phase
     \/ /\ Disk[p] # None
        /\ Pack!OpenFile("pack", Disk[p])
        /\ IF Pack!Accepted(Disk[p])
           THEN phase' = "driver" /\ UNCHANGED result
           ELSE result' = "threw" /\ UNCHANGED phase
  /\ UNCHANGED <<sessionVars, launched>>

LoadResult == IF outcome' = "threw" /\ required THEN "threw" ELSE "returned"

(* load(), a step of driver_.open(); its end is the end of load().         *)
LoadDriver ==
  /\ phase = "driver"
  /\ IF at = 0 THEN BeginOpen \/ NoLibrary
               ELSE OpenStep
  /\ IF at' = 0 THEN phase' = "idle" /\ result' = LoadResult
                ELSE UNCHANGED <<phase, result>>
  /\ UNCHANGED <<packVars, path, required, launched, loads>>

(* A run_* function that finds its tensors, the first of the pack here,    *)
(* and calls the driver.  Otherwise it returns false and changes nothing.  *)
Run ==
  /\ phase = "idle"
  /\ available
  /\ pack.tensors # << >>
  /\ Pack!TensorData(pack, pack.tensors[1]) # None
  /\ launched' = [file |-> mapping[pack.mapped], tensors |-> pack.tensors,
                  context |-> stack[1]]
  /\ UNCHANGED <<packVars, sessionVars, path, phase, required, result, loads>>

(* The end of the scope: the members go in reverse order, the driver first.*)
Destroy ==
  /\ phase = "idle"
  /\ Close
  /\ Pack!Destroy("pack")
  /\ phase' = "dead"
  /\ UNCHANGED <<path, required, result, launched, loads>>

(* A program with an NvidiaDriver of its own and no pack, as q38_gpu_smoke.  *)
UseDriver ==
  /\ phase = "unborn"
  /\ phase' = "bare"
  /\ UNCHANGED <<packVars, sessionVars, path, required, result, launched, loads>>

Bare ==
  /\ phase = "bare"
  /\ SessionNext
  /\ UNCHANGED <<packVars, callVars>>

Next ==
  \/ UseDriver \/ Bare
  \/ Construct \/ LoadDriver \/ Run \/ Destroy
  \/ \E p \in Paths, require \in BOOLEAN : LoadPack(p, require)

Spec == Init /\ [][Next]_vars

-----------------------------------------------------------------------------
(* A load that returned left a whole accepted pack, and the driver it was  *)
(* asked for; a driver that failed to open is closed, not half open.       *)
(* After a load that threw, whatever header and tensors info() still shows *)
(* are those of the file it shows the path of: never one model's path with *)
(* another's tensors.                                                      *)
LoadedMeansWhole ==
  phase = "idle" /\ path # None =>
    /\ result = "returned" =>
         /\ pack.mapped # None /\ Pack!Accepted(mapping[pack.mapped])
         /\ pack.tensors = mapping[pack.mapped].tensors
         /\ required => available
         /\ outcome = "threw" => session = ClosedSession
    /\ pack.header # Pack!NoHeader =>
         Disk[path] # None /\ pack.header = Pack!HeaderIn(Disk[path])
    /\ pack.tensors # << >> =>
         pack.tensors = SubSeq(Disk[path].tensors, 1, Len(pack.tensors))

(* Kernels run on tensors of the file that load() named last, on all of    *)
(* them when that load returned, and in the context of this driver: no     *)
(* run_* function makes a context current, so the one created last has to  *)
(* be the object's own.                                                    *)
RunsOnTheLoadedModel ==
  [][ launched' # launched =>
        /\ launched'.file = Disk[path]
        /\ launched'.context = session.context
        /\ result = "returned" => launched'.tensors = Disk[path].tensors
    ]_vars
=============================================================================
