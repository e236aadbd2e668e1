--------------------------- MODULE Runtime_proofs ---------------------------
(***************************************************************************)
(* What open(), close() and probe_vmm() leave behind (src/driver.cpp), for *)
(* every set of contexts and whatever the library exports; and what load() *)
(* and the runs make of a driver and a pack (src/runtime.cpp), for every   *)
(* set of paths and whatever files are there.                              *)
(***************************************************************************)
EXTENDS Runtime, TLAPS

-----------------------------------------------------------------------------
(* The session.                                                            *)

(* What a call that returned has filled in, counted while open() runs: the *)
(* name of a fact is known once its call is behind.                        *)
LearntBy(position) ==
  UNION {Learns(OpenCalls[k]) : k \in 1 .. position - 1}

SessionType ==
  /\ session \in [handle : BOOLEAN, context : Contexts \cup {NoContext},
                  initialized : BOOLEAN, known : SUBSET Facts,
                  vmm : BOOLEAN, granularity : {0, 1}]
  /\ at \in 0 .. 9
  /\ libs \in Int

(* Inside open() the library is loaded, the context exists from the call   *)
(* that creates it on, and nothing of the end of open() has happened.      *)
OpenInProgress ==
  at > 0 =>
    /\ session.handle /\ ~session.initialized
    /\ ~session.vmm /\ session.granularity = 0
    /\ session.context # NoContext <=> at = 9
    /\ session.known = LearntBy(at)

(* The contexts of the thread: the one of the object on top, below it those *)
(* that could not be destroyed.                                            *)
StackIsOurs ==
  /\ stack \in Seq(Contexts)
  /\ lost \subseteq Contexts /\ session.context \notin lost
  /\ Live = lost \cup ({session.context} \ {NoContext})
  /\ session.context # NoContext =>
       stack # << >> /\ Head(stack) = session.context
  /\ "cuCtxDestroy" \in exports =>
       Len(stack) = IF session.context = NoContext THEN 0 ELSE 1

(* An open() that threw left the object closed.                            *)
ThrewMeansClosed == at = 0 /\ outcome = "threw" => session = ClosedSession

LoadedOnce == libs = IF session.handle THEN 1 ELSE 0

LostOnlyWithoutDestroy == lost # {} => "cuCtxDestroy" \notin exports

SessionInv ==
  /\ SessionType
  /\ OpenInProgress
  /\ SessionIsWhole
  /\ StackIsOurs
  /\ ThrewMeansClosed
  /\ LoadedOnce
  /\ LostOnlyWithoutDestroy

-----------------------------------------------------------------------------
(* The calls that fill in a member, by position.                           *)
LEMMA CallsOfOpen ==
  /\ Len(OpenCalls) = 9
  /\ \A k \in 1 .. 9 : Learns(OpenCalls[k]) \subseteq Facts
  /\ LearntBy(1) = {}
  /\ \A n \in 1 .. 8 : LearntBy(n + 1) = LearntBy(n) \cup Learns(OpenCalls[n])
  /\ LearntBy(9) = Facts
  /\ Learns(OpenCalls[8]) = {}
<1>1. Len(OpenCalls) = 9
  BY DEF OpenCalls
<1>2. DOMAIN Fact = {"cuDriverGetVersion", "cuDeviceGetName",
                     "cuDeviceTotalMem", "cuDeviceComputeCapability"}
  BY DEF Fact
<1>3. \A k \in 1 .. 9 : Learns(OpenCalls[k]) \subseteq Facts
  BY DEF Learns, Facts
<1>4. LearntBy(1) = {}
  BY DEF LearntBy
<1>5. \A n \in 1 .. 8 : LearntBy(n + 1) = LearntBy(n) \cup Learns(OpenCalls[n])
  <2>1. \A n \in 1 .. 8 : 1 .. (n + 1) - 1 = (1 .. n - 1) \cup {n}
    OBVIOUS
  <2> QED
    BY <2>1 DEF LearntBy
<1>6. LearntBy(9) = Facts
  <2>1. LearntBy(9) \subseteq Facts
    BY <1>3 DEF LearntBy
  <2>2. Facts \subseteq LearntBy(9)
    <3>1. \A c \in DOMAIN Fact : \E k \in 1 .. 8 : OpenCalls[k] = c
      <4>1. /\ OpenCalls[3] = "cuDriverGetVersion"
            /\ OpenCalls[5] = "cuDeviceGetName"
            /\ OpenCalls[6] = "cuDeviceTotalMem"
            /\ OpenCalls[7] = "cuDeviceComputeCapability"
        BY DEF OpenCalls
      <4> QED
        BY <1>2, <4>1
    <3>2. \A k \in 1 .. 8 : k \in 1 .. 9 - 1
      OBVIOUS
    <3> QED
      BY <3>1, <3>2 DEF Facts, LearntBy, Learns
  <2> QED
    BY <2>1, <2>2
<1>7. Learns(OpenCalls[8]) = {}
  <2>1. OpenCalls[8] = "cuCtxCreate"
    BY DEF OpenCalls
  <2>2. "cuCtxCreate" \notin DOMAIN Fact
    BY <1>2
  <2> QED
    BY <2>1, <2>2 DEF Learns
<1> QED
  BY <1>1, <1>3, <1>4, <1>5, <1>6, <1>7

LiveOf(s) == {s[k] : k \in DOMAIN s}

LEMMA PushLive ==
  ASSUME NEW S, NEW s \in Seq(S), NEW c \in S
  PROVE  /\ <<c>> \o s \in Seq(S) /\ <<c>> \o s # << >>
         /\ Head(<<c>> \o s) = c
         /\ Len(<<c>> \o s) = Len(s) + 1
         /\ LiveOf(<<c>> \o s) = {c} \cup LiveOf(s)
<1> DEFINE t == <<c>> \o s
<1>1. /\ t \in Seq(S) /\ Len(t) = Len(s) + 1 /\ Len(s) \in Nat
      /\ DOMAIN t = 1 .. Len(s) + 1 /\ DOMAIN s = 1 .. Len(s)
      /\ t[1] = c /\ \A k \in 1 .. Len(s) : t[k + 1] = s[k]
  OBVIOUS
<1>2. t # << >> /\ Head(t) = c
  BY <1>1
<1> HIDE DEF t
<1>3. LiveOf(t) \subseteq {c} \cup LiveOf(s)
  <2>1. ASSUME NEW k \in 1 .. Len(s) + 1 PROVE t[k] \in {c} \cup LiveOf(s)
    <3>1. CASE k = 1
      BY <3>1, <1>1
    <3>2. CASE k # 1
      <4>1. k - 1 \in 1 .. Len(s) /\ (k - 1) + 1 = k
        BY <3>2, <1>1
      <4>2. t[k] = s[k - 1]
        BY <4>1, <1>1
      <4> QED
        BY <4>1, <4>2, <1>1 DEF LiveOf
    <3> QED
      BY <3>1, <3>2
  <2> QED
    BY <2>1, <1>1 DEF LiveOf
<1>4. {c} \cup LiveOf(s) \subseteq LiveOf(t)
  <2>1. ASSUME NEW k \in 1 .. Len(s) PROVE s[k] \in LiveOf(t)
    <3>1. k + 1 \in DOMAIN t /\ t[k + 1] = s[k]
      BY <1>1
    <3> QED
      BY <3>1 DEF LiveOf
  <2>2. c \in LiveOf(t)
    <3>1. 1 \in DOMAIN t /\ t[1] = c
      BY <1>1
    <3> QED
      BY <3>1 DEF LiveOf
  <2> QED
    BY <2>1, <2>2, <1>1 DEF LiveOf
<1> QED
  BY <1>1, <1>2, <1>3, <1>4 DEF t

(* close() unloads exactly what was loaded, and gives a context up only    *)
(* when the library cannot destroy one.                                    *)
LEMMA CloseLetsGo ==
  ASSUME SessionInv
  PROVE  /\ LibsAfterClose = 0
         /\ LostAfterClose # {} => "cuCtxDestroy" \notin exports
         /\ StackAfterClose \in Seq(Contexts) /\ LostAfterClose \subseteq Contexts
         /\ LiveOf(StackAfterClose) = LostAfterClose
         /\ "cuCtxDestroy" \in exports => Len(StackAfterClose) = 0
<1>1. session.context # NoContext => session.handle
  <2>1. CASE at = 0
    BY <2>1 DEF SessionInv, SessionIsWhole, ClosedSession, available
  <2>2. CASE at > 0
    BY <2>2 DEF SessionInv, OpenInProgress
  <2> QED
    BY <2>1, <2>2 DEF SessionInv, SessionType
<1>2. LibsAfterClose = 0
  BY DEF SessionInv, SessionType, LoadedOnce, LibsAfterClose
<1>3. LostAfterClose # {} => "cuCtxDestroy" \notin exports
  BY <1>1 DEF SessionInv, LostOnlyWithoutDestroy, LostAfterClose, Destroyed
<1>4. /\ stack \in Seq(Contexts) /\ lost \subseteq Contexts
      /\ session.context \in Contexts \cup {NoContext}
      /\ LiveOf(stack) = lost \cup ({session.context} \ {NoContext})
  BY DEF SessionInv, SessionType, StackIsOurs, Live, LiveOf
<1>5. LostAfterClose \subseteq Contexts
  BY <1>4 DEF LostAfterClose
<1>6. CASE Destroyed
  <2>1. /\ Len(stack) = 1 /\ stack # << >> /\ Head(stack) = session.context
        /\ lost = {}
    BY <1>6 DEF SessionInv, StackIsOurs, LostOnlyWithoutDestroy, Destroyed
  <2>2. Tail(stack) \in Seq(Contexts) /\ Len(Tail(stack)) = 0
    BY <2>1, <1>4
  <2>3. StackAfterClose = Tail(stack) /\ LostAfterClose = {}
    BY <1>6, <2>1 DEF StackAfterClose, LostAfterClose
  <2>4. LiveOf(Tail(stack)) = {}
    <3>1. \A s \in Seq(Contexts) : Len(s) = 0 => DOMAIN s = {}
      OBVIOUS
    <3> QED
      BY <3>1, <2>2 DEF LiveOf
  <2> QED
    BY <1>2, <1>3, <2>2, <2>3, <2>4
<1>7. CASE ~ Destroyed
  <2>1. StackAfterClose = stack
    BY <1>7 DEF StackAfterClose
  <2>2. LostAfterClose = lost \cup ({session.context} \ {NoContext})
    BY <1>7 DEF LostAfterClose
  <2>3. "cuCtxDestroy" \in exports => session.context = NoContext
    BY <1>1, <1>7 DEF Destroyed
  <2>4. "cuCtxDestroy" \in exports => Len(stack) = 0
    BY <2>3 DEF SessionInv, StackIsOurs
  <2> QED
    BY <1>2, <1>3, <1>4, <1>5, <2>1, <2>2, <2>4
<1> QED
  BY <1>6, <1>7

LEMMA ClosedIsWhole ==
  /\ ClosedSession \in [handle : BOOLEAN, context : Contexts \cup {NoContext},
                        initialized : BOOLEAN, known : SUBSET Facts,
                        vmm : BOOLEAN, granularity : {0, 1}]
  /\ ~ClosedSession.handle /\ ~ClosedSession.vmm
  /\ ~ClosedSession.initialized
  /\ ClosedSession.granularity = 0 /\ ClosedSession.context = NoContext
  /\ ClosedSession.known = {}
  BY DEF ClosedSession

LEMMA SessionInvInit == SessionInit => SessionInv
<1> SUFFICES ASSUME SessionInit PROVE SessionInv
  OBVIOUS
<1> USE DEF SessionInit
<1>1. SessionType
  BY ClosedIsWhole DEF SessionType
<1>2. OpenInProgress /\ SessionIsWhole
  BY ClosedIsWhole DEF OpenInProgress, SessionIsWhole
<1>3. LoadedOnce /\ LostOnlyWithoutDestroy
  BY ClosedIsWhole DEF LoadedOnce, LostOnlyWithoutDestroy
<1>4. StackIsOurs /\ ThrewMeansClosed
  BY ClosedIsWhole DEF StackIsOurs, ThrewMeansClosed, Live
<1> QED
  BY <1>1, <1>2, <1>3, <1>4 DEF SessionInv

(* A step that leaves the object closed and open() over.                   *)
LEMMA ClosingStep ==
  ASSUME SessionInv, CloseSession, at' = 0, UNCHANGED exports
  PROVE  SessionInv'
<1> USE CloseLetsGo, ClosedIsWhole DEF CloseSession
<1>1. SessionType'
  BY DEF SessionType
<1>2. OpenInProgress' /\ SessionIsWhole'
  BY DEF OpenInProgress, SessionIsWhole
<1>3. LoadedOnce' /\ LostOnlyWithoutDestroy'
  BY DEF LoadedOnce, LostOnlyWithoutDestroy
<1>4. StackIsOurs' /\ ThrewMeansClosed'
  BY NoContextAssumption DEF StackIsOurs, ThrewMeansClosed, Live, LiveOf
<1> QED
  BY <1>1, <1>2, <1>3, <1>4 DEF SessionInv

-----------------------------------------------------------------------------
LEMMA BeginOpenKeeps ==
  ASSUME SessionInv, BeginOpen PROVE SessionInv'
<1> USE CloseLetsGo, ClosedIsWhole, CallsOfOpen DEF BeginOpen
<1>1. session' \in [handle : BOOLEAN, context : Contexts \cup {NoContext},
                    initialized : BOOLEAN, known : SUBSET Facts,
                    vmm : BOOLEAN, granularity : {0, 1}]
      /\ session'.handle /\ ~session'.initialized /\ ~session'.vmm
      /\ session'.granularity = 0 /\ session'.context = NoContext
      /\ session'.known = {}
  BY DEF ClosedSession
<1>2. SessionType'
  BY <1>1 DEF SessionType
<1>3. OpenInProgress'
  BY <1>1 DEF OpenInProgress, LearntBy
<1>4. SessionIsWhole'
  BY DEF SessionIsWhole
<1>5. LoadedOnce' /\ LostOnlyWithoutDestroy'
  BY <1>1 DEF LoadedOnce, LostOnlyWithoutDestroy
<1>6. StackIsOurs' /\ ThrewMeansClosed'
  BY <1>1, NoContextAssumption
  DEF StackIsOurs, ThrewMeansClosed, Live, LiveOf
<1> QED
  BY <1>2, <1>3, <1>4, <1>5, <1>6 DEF SessionInv

LEMMA OpenCallKeeps ==
  ASSUME SessionInv, OpenCall PROVE SessionInv'
<1> USE CallsOfOpen DEF OpenCall, SessionInv
<1>1. at \in 1 .. 7 /\ at' = at + 1
  OBVIOUS
<1>2. Learns(OpenCalls[at]) \subseteq Facts
  BY <1>1
<1>3. SessionType'
  BY <1>1, <1>2 DEF SessionType
<1>4. session.known = LearntBy(at)
  BY <1>1 DEF OpenInProgress
<1>5. session'.known = LearntBy(at + 1)
  <2>1. session'.known = session.known \cup Learns(OpenCalls[at])
    BY DEF SessionType
  <2>2. LearntBy(at + 1) = LearntBy(at) \cup Learns(OpenCalls[at])
    BY <1>1
  <2> QED
    BY <1>4, <2>1, <2>2
<1>6. LearntBy(at)' = LearntBy(at + 1)
  BY <1>1 DEF LearntBy
<1>7. OpenInProgress'
  BY <1>1, <1>5, <1>6 DEF OpenInProgress, SessionType
<1>8. SessionIsWhole'
  BY <1>1 DEF SessionIsWhole
<1>9. LoadedOnce' /\ LostOnlyWithoutDestroy'
  BY DEF LoadedOnce, LostOnlyWithoutDestroy, SessionType
<1>10. StackIsOurs' /\ ThrewMeansClosed'
  <2>1. session'.context = session.context
    BY DEF SessionType
  <2> QED
    BY <1>1, <2>1 DEF StackIsOurs, ThrewMeansClosed, Live
<1> QED
  BY <1>3, <1>7, <1>8, <1>9, <1>10

LEMMA CreateContextKeeps ==
  ASSUME SessionInv, CreateContext PROVE SessionInv'
<1> USE CallsOfOpen DEF CreateContext, SessionInv
<1>1. PICK c \in Contexts \ Live : /\ session' = [session EXCEPT !.context = c]
                                  /\ stack' = <<c>> \o stack
  OBVIOUS
<1>2. at = 8 /\ at' = 9
  OBVIOUS
<1>3. SessionType'
  <2>1. session' \in [handle : BOOLEAN, context : Contexts \cup {NoContext},
                      initialized : BOOLEAN, known : SUBSET Facts,
                      vmm : BOOLEAN, granularity : {0, 1}]
    BY <1>1 DEF SessionType
  <2>2. at' \in 0 .. 9 /\ libs' \in Int
    BY <1>2 DEF SessionType
  <2> QED
    BY <2>1, <2>2 DEF SessionType
<1>4. session'.context = c /\ session'.known = session.known
  BY <1>1 DEF SessionType
<1>5. LearntBy(at)' = LearntBy(at)
  <2>1. LearntBy(8 + 1) = LearntBy(8) \cup Learns(OpenCalls[8])
    <3>1. 8 \in 1 .. 8
      OBVIOUS
    <3> QED
      BY <3>1
  <2>2. LearntBy(at)' = LearntBy(9) /\ LearntBy(at) = LearntBy(8)
    BY <1>2 DEF LearntBy
  <2> QED
    BY <2>1, <2>2
<1>6. OpenInProgress'
  BY <1>1, <1>2, <1>4, <1>5, NoContextAssumption
     DEF OpenInProgress, SessionType
<1>7. SessionIsWhole'
  BY <1>2 DEF SessionIsWhole
<1>8. LoadedOnce' /\ LostOnlyWithoutDestroy'
  BY <1>1 DEF LoadedOnce, LostOnlyWithoutDestroy, SessionType
<1>9. ThrewMeansClosed'
  BY <1>2 DEF ThrewMeansClosed
<1>10. StackIsOurs'
  <2>1. session.context = NoContext
    BY <1>2 DEF OpenInProgress
  <2>2. stack \in Seq(Contexts) /\ LiveOf(stack) = lost
    BY <2>1 DEF StackIsOurs, Live, LiveOf
  <2>3. /\ stack' \in Seq(Contexts) /\ stack' # << >> /\ Head(stack') = c
        /\ Len(stack') = Len(stack) + 1
        /\ LiveOf(stack') = {c} \cup lost
    BY <1>1, <2>2, PushLive
  <2>4. c \notin lost /\ c # NoContext /\ lost' = lost
        /\ session'.context = c /\ exports' = exports
    BY <1>1, <1>4, <2>2, NoContextAssumption DEF Live, LiveOf
  <2>5. Live' = {c} \cup lost
    BY <2>3 DEF Live, LiveOf
  <2>6. "cuCtxDestroy" \in exports => Len(stack') = 1
    BY <2>1, <2>3 DEF StackIsOurs
  <2> QED
    BY <2>3, <2>4, <2>5, <2>6 DEF StackIsOurs
<1> QED
  BY <1>3, <1>6, <1>7, <1>8, <1>9, <1>10

LEMMA FinishOpenKeeps ==
  ASSUME SessionInv, FinishOpen PROVE SessionInv'
<1> USE CallsOfOpen DEF FinishOpen, SessionInv
<1>1. PICK granularity \in IF "vmm" \in exports THEN {0, 1} ELSE {0} :
        session' = [session EXCEPT !.vmm = (granularity # 0),
                                   !.granularity = granularity,
                                   !.initialized = TRUE]
  OBVIOUS
<1>2. at = 9 /\ at' = 0
  OBVIOUS
<1>3. /\ session.handle /\ session.context # NoContext
      /\ session.known = Facts
  <2>1. LearntBy(at) = Facts
    BY <1>2 DEF LearntBy
  <2> QED
    BY <1>2, <2>1 DEF OpenInProgress
<1>4. SessionType'
  <2>1. /\ granularity \in {0, 1} /\ (granularity # 0) \in BOOLEAN
    BY <1>1
  <2>2. session' \in [handle : BOOLEAN, context : Contexts \cup {NoContext},
                      initialized : BOOLEAN, known : SUBSET Facts,
                      vmm : BOOLEAN, granularity : {0, 1}]
    BY <1>1, <2>1 DEF SessionType
  <2>3. at' \in 0 .. 9 /\ libs' \in Int
    BY <1>2 DEF SessionType
  <2> QED
    BY <2>2, <2>3 DEF SessionType
<1>5. /\ session'.handle /\ session'.initialized
      /\ session'.context = session.context
      /\ session'.known = session.known
      /\ session'.vmm = (granularity # 0)
      /\ session'.granularity = granularity
  BY <1>1, <1>3 DEF SessionType
<1>6. SessionIsWhole'
  BY <1>1, <1>2, <1>3, <1>5 DEF SessionIsWhole, available
<1>7. OpenInProgress'
  BY <1>2 DEF OpenInProgress
<1>8. LoadedOnce' /\ LostOnlyWithoutDestroy'
  BY <1>3, <1>5 DEF LoadedOnce, LostOnlyWithoutDestroy
<1>9. StackIsOurs' /\ ThrewMeansClosed'
  BY <1>5 DEF StackIsOurs, ThrewMeansClosed, Live
<1> QED
  BY <1>4, <1>6, <1>7, <1>8, <1>9

LEMMA ProbeVmmKeeps ==
  ASSUME SessionInv, ProbeVmm PROVE SessionInv'
<1> USE DEF ProbeVmm, SessionInv
<1>1. SessionType'
  BY DEF SessionType
<1>2. /\ session'.handle = session.handle
      /\ session'.initialized = session.initialized
      /\ session'.context = session.context
      /\ session'.known = session.known
      /\ session'.vmm /\ session'.granularity = 1
  BY DEF SessionType
<1>3. SessionIsWhole'
  BY <1>2, ClosedIsWhole DEF SessionIsWhole, available
<1>4. OpenInProgress'
  BY DEF OpenInProgress
<1>5. LoadedOnce' /\ LostOnlyWithoutDestroy'
  BY <1>2 DEF LoadedOnce, LostOnlyWithoutDestroy
<1>6. StackIsOurs' /\ ThrewMeansClosed'
  BY <1>2, ClosedIsWhole DEF StackIsOurs, ThrewMeansClosed, Live, available
<1> QED
  BY <1>1, <1>3, <1>4, <1>5, <1>6

LEMMA SessionInvStep == SessionInv /\ [SessionNext]_sessionVars => SessionInv'
<1> SUFFICES ASSUME SessionInv, [SessionNext]_sessionVars PROVE SessionInv'
  OBVIOUS
<1>1. CASE BeginOpen
  BY <1>1, BeginOpenKeeps
<1>2. CASE NoLibrary
  BY <1>2, ClosingStep DEF NoLibrary
<1>3. CASE OpenCall
  BY <1>3, OpenCallKeeps
<1>4. CASE CreateContext
  BY <1>4, CreateContextKeeps
<1>5. CASE OpenCallFails
  BY <1>5, ClosingStep DEF OpenCallFails
<1>6. CASE FinishOpen
  BY <1>6, FinishOpenKeeps
<1>7. CASE Close
  BY <1>7, ClosingStep DEF Close
<1>8. CASE ProbeVmm
  BY <1>8, ProbeVmmKeeps
<1>9. CASE UNCHANGED sessionVars
  BY <1>9 DEF sessionVars, SessionInv, SessionType, OpenInProgress,
     SessionIsWhole, available, LoadedOnce, LostOnlyWithoutDestroy, LearntBy,
     StackIsOurs, ThrewMeansClosed, Live
<1> QED
  BY <1>1, <1>2, <1>3, <1>4, <1>5, <1>6, <1>7, <1>8, <1>9
     DEF SessionNext, OpenStep

LEMMA SessionInvHolds == SessionSpec => []SessionInv
  BY SessionInvInit, SessionInvStep, PTL DEF SessionSpec

-----------------------------------------------------------------------------
(* Between calls the object is closed and blank or open and complete, with *)
(* any number of opens, failures at any call and probes before (open,      *)
(* close, probe_vmm).                                                      *)
THEOREM SessionAlwaysWhole == SessionSpec => []SessionIsWhole
<1>1. SessionInv => SessionIsWhole
  BY DEF SessionInv
<1> QED
  BY <1>1, SessionInvHolds, PTL

(* The process holds one load of the library and one context exactly as    *)
(* long as the object does, also in the middle of open(), for any number   *)
(* of opens that fail at any call; a context outlives the object only when *)
(* the library cannot destroy one.                                         *)
THEOREM NothingIsRetained == SessionSpec => []NothingRetained
<1>1. SessionInv => NothingRetained
  BY DEF SessionInv, NothingRetained, StackIsOurs, LoadedOnce,
     LostOnlyWithoutDestroy
<1> QED
  BY <1>1, SessionInvHolds, PTL

-----------------------------------------------------------------------------
(* The runtime: its driver.                                                *)

(* A step of the runtime is a step of the session or leaves it alone; a    *)
(* load takes open() from call to call, the destructor is a close().       *)
LEMMA SessionStep == [Next]_vars => [SessionNext]_sessionVars
<1> SUFFICES ASSUME [Next]_vars PROVE [SessionNext]_sessionVars
  OBVIOUS
<1>1. CASE LoadDriver
  <2>1. BeginOpen \/ NoLibrary \/ OpenStep
    BY <1>1 DEF LoadDriver
  <2> QED
    BY <2>1 DEF SessionNext
<1>2. CASE Destroy
  BY <1>2 DEF Destroy, SessionNext
<1>3. CASE Bare
  BY <1>3 DEF Bare
<1>4. CASE UseDriver \/ Construct \/ Run
  BY <1>4 DEF UseDriver, Construct, Run
<1>5. CASE \E p \in Paths, require \in BOOLEAN : LoadPack(p, require)
  BY <1>5 DEF LoadPack
<1>6. CASE UNCHANGED vars
  BY <1>6 DEF vars
<1> QED
  BY <1>1, <1>2, <1>3, <1>4, <1>5, <1>6 DEF Next

(* The runtime implements the session of its driver: whatever order it is  *)
(* loaded, run and destroyed in, the driver sees a legal life.             *)
THEOREM RuntimeDrivesSession == Spec => SessionSpec
<1>1. Init => SessionInit
  BY DEF Init
<1> QED
  BY <1>1, SessionStep, PTL DEF Spec, SessionSpec

(* So between the calls of a Runtime its driver is closed and blank, or    *)
(* open and complete, for any paths, files and number of loads.            *)
THEOREM RuntimeSessionWhole == Spec => []SessionIsWhole
  BY RuntimeDrivesSession, SessionAlwaysWhole, PTL

(* Nor does it retain a load of the library or a context.                  *)
THEOREM RuntimeRetainsNothing == Spec => []NothingRetained
  BY RuntimeDrivesSession, NothingIsRetained, PTL

-----------------------------------------------------------------------------
(* The runtime: its pack, an object of PackFile.                           *)
P == INSTANCE PackFile_proofs WITH Handles <- {"pack"}

LEMMA PackAssumptions ==
  P!NoneIsNew /\ Fds \subseteq Nat /\ P!FilesHaveTheirTypes
  BY RuntimeAssumption
  DEF Pack!NoneIsNew, P!NoneIsNew, Pack!FilesHaveTheirTypes,
      P!FilesHaveTheirTypes, Pack!TensorRecord, P!TensorRecord

LEMMA SamePack ==
  /\ Pack!Init <=> P!Init
  /\ Pack!Construct("pack") <=> P!Construct("pack")
  /\ Pack!OpenFails("pack") <=> P!Close("pack")
  /\ Pack!Destroy("pack") <=> P!Destroy("pack")
  /\ \A f : Pack!OpenFile("pack", f) <=> P!OpenFile("pack", f)
  /\ \A f : Pack!Accepted(f) <=> P!Accepted(f)
  BY DEF Pack!Init, P!Init, Pack!Construct, P!Construct, Pack!OpenFails,
     Pack!Close, P!Close, Pack!Destroy, P!Destroy, Pack!OpenFile, P!OpenFile,
     Pack!Accepted, P!Accepted, Pack!Empty, P!Empty, Pack!NoHeader, P!NoHeader,
     Pack!MappingAfterClose, P!MappingAfterClose, Pack!FdsAfterClose,
     P!FdsAfterClose, Pack!Parsed, P!Parsed, Pack!HeaderIn, P!HeaderIn,
     Pack!Prefix, P!Prefix, Pack!Manifest, P!Manifest, Pack!HeaderBytes,
     P!HeaderBytes, Pack!HeaderAccepted, P!HeaderAccepted,
     Pack!TensorsAccepted, P!TensorsAccepted, Pack!TensorAccepted,
     P!TensorAccepted, Pack!InRange, P!InRange

LEMMA PackStep == [Next]_vars => [P!Next]_packVars
<1> SUFFICES ASSUME [Next]_vars PROVE [P!Next]_packVars
  OBVIOUS
<1>1. CASE Construct
  BY <1>1, SamePack DEF Construct, P!Next
<1>2. CASE Destroy
  BY <1>2, SamePack DEF Destroy, P!Next
<1>3. ASSUME NEW p \in Paths, NEW require \in BOOLEAN, LoadPack(p, require)
      PROVE  P!Next
  <2>1. CASE P!Close("pack")
    BY <2>1 DEF P!Next
  <2>2. CASE Disk[p] # None /\ P!OpenFile("pack", Disk[p])
    BY <2>2, RuntimeAssumption DEF P!Next
  <2> QED
    BY <1>3, <2>1, <2>2, SamePack DEF LoadPack
<1>4. CASE UseDriver \/ Bare \/ LoadDriver \/ Run
  BY <1>4 DEF UseDriver, Bare, LoadDriver, Run
<1>5. CASE UNCHANGED vars
  BY <1>5 DEF vars
<1> QED
  BY <1>1, <1>2, <1>3, <1>4, <1>5 DEF Next

(* The pack of a runtime has the life of a PackFile object: what is proved *)
(* of those holds of it.                                                   *)
PackInv == P!Inv /\ P!Whole

LEMMA PackInvariance ==
  /\ Init => PackInv
  /\ PackInv /\ [Next]_vars => PackInv'
<1>1. Init => P!Init
  BY SamePack DEF Init
<1>2. Init => PackInv
  BY <1>1, PackAssumptions, P!InitInv, P!InitWhole DEF PackInv
<1>3. PackInv /\ [P!Next]_packVars => PackInv'
  BY PackAssumptions, P!NextInv, P!NextWhole DEF PackInv, packVars, P!vars
<1> QED
  BY <1>2, <1>3, PackStep

-----------------------------------------------------------------------------
(* The runtime: the pack against the path and the driver.                  *)

(* Nothing is moved; between loads the driver is between calls; a pack     *)
(* that is mapped is the file of the path, accepted where the load went    *)
(* past pack_.open(), and the driver is there where it was required.       *)
RuntimeInv ==
  /\ moved = {}
  /\ phase \in {"unborn", "bare", "idle", "driver", "dead"}
  /\ phase \notin {"driver", "bare"} => at = 0
  /\ phase = "unborn" => path = None /\ result = "never"
  /\ phase \in {"idle", "driver"} =>
       /\ path \in Paths \cup {None}
       /\ pack.mapped # None => /\ path # None
                                /\ Disk[path] # None
                                /\ mapping[pack.mapped] = Disk[path]
  /\ phase = "driver" => pack.mapped # None /\ Pack!Accepted(Disk[path])
  /\ phase = "idle" /\ result = "returned" =>
       /\ pack.mapped # None /\ Pack!Accepted(Disk[path])
       /\ required => available

LEMMA LoadPackKeeps ==
  ASSUME PackInv, RuntimeInv, NEW p \in Paths, NEW require \in BOOLEAN,
         LoadPack(p, require)
  PROVE  RuntimeInv'
<1>1. /\ phase = "idle" /\ at = 0 /\ path' = p /\ required' = require
      /\ UNCHANGED sessionVars /\ moved = {}
  BY DEF LoadPack, RuntimeInv
<1>2. at' = 0 /\ (available' <=> available)
  BY <1>1 DEF sessionVars, available
<1>3. obj \in [{"pack"} -> P!Object]
  BY DEF PackInv, P!Inv, P!TypeOK, P!Object
<1>4. CASE P!Close("pack") /\ result' = "threw" /\ UNCHANGED phase
  <2>1. pack'.mapped = None /\ moved' = {}
    BY <1>1, <1>3, <1>4 DEF P!Close, P!Empty, pack
  <2> QED
    BY <1>1, <1>2, <1>4, <2>1 DEF RuntimeInv
<1>5. CASE /\ Disk[p] # None /\ P!OpenFile("pack", Disk[p])
           /\ IF Pack!Accepted(Disk[p])
              THEN phase' = "driver" /\ UNCHANGED result
              ELSE result' = "threw" /\ UNCHANGED phase
  <2>1. PICK a \in Addresses, fd \in Fds :
          /\ obj' = [obj EXCEPT !["pack"] = P!Parsed(a, fd, Disk[p])]
          /\ mapping' = [P!MappingAfterClose("pack") EXCEPT ![a] = Disk[p]]
          /\ moved' = moved \ {"pack"}
    BY <1>5 DEF P!OpenFile
  <2>2. pack'.mapped = a /\ a # None
    BY <1>3, <2>1, PackAssumptions DEF pack, P!Parsed, P!NoneIsNew
  <2>3. mapping'[a] = Disk[p]
    BY <2>1 DEF P!MappingAfterClose
  <2>4. moved' = {} /\ p # None
    BY <1>1, <2>1, RuntimeAssumption
  <2> QED
    BY <1>1, <1>2, <1>5, <2>2, <2>3, <2>4 DEF RuntimeInv
<1> QED
  BY <1>4, <1>5, SamePack DEF LoadPack

LEMMA LoadDriverKeeps ==
  ASSUME SessionInv, SessionInv', RuntimeInv, LoadDriver
  PROVE  RuntimeInv'
<1>1. /\ phase = "driver" /\ UNCHANGED packVars
      /\ UNCHANGED <<path, required>>
      /\ at' = 0 => phase' = "idle" /\ result' = LoadResult
      /\ at' # 0 => phase' = "driver" /\ result' = result
  BY DEF LoadDriver
<1>2. /\ pack' = pack /\ pack.mapped # None /\ Pack!Accepted(Disk[path])
      /\ mapping' = mapping /\ moved' = moved /\ path' = path
  BY <1>1 DEF RuntimeInv, packVars, pack
<1>3. ASSUME at' = 0, result' = "returned", required'
      PROVE  available'
  <2>1. outcome' # "threw"
    BY <1>1, <1>3 DEF LoadResult
  <2>2. FinishOpen
    <3>1. CASE at = 0
      <4>1. BeginOpen \/ NoLibrary
        BY <3>1 DEF LoadDriver
      <4> QED
        BY <1>3, <2>1, <4>1 DEF BeginOpen, NoLibrary
    <3>2. CASE at # 0
      <4>1. OpenStep
        BY <3>2 DEF LoadDriver
      <4>2. at \in 0 .. 9 /\ Len(OpenCalls) = 9
        BY CallsOfOpen DEF SessionInv, SessionType
      <4> QED
        BY <1>3, <2>1, <3>2, <4>1, <4>2
        DEF OpenStep, OpenCall, CreateContext, OpenCallFails
    <3> QED
      BY <3>1, <3>2
  <2>3. at = 9
    BY <2>2, CallsOfOpen DEF FinishOpen
  <2>4. session.handle
    BY <2>3 DEF SessionInv, OpenInProgress
  <2> QED
    BY <2>2, <2>4 DEF FinishOpen, available, SessionInv, SessionType
<1> QED
  BY <1>1, <1>2, <1>3 DEF RuntimeInv

LEMMA RuntimeInvStep ==
  PackInv /\ SessionInv /\ SessionInv' /\ RuntimeInv /\ [Next]_vars
    => RuntimeInv'
<1> SUFFICES ASSUME PackInv, SessionInv, SessionInv', RuntimeInv, [Next]_vars
             PROVE  RuntimeInv'
  OBVIOUS
<1>1. CASE UseDriver
  BY <1>1 DEF UseDriver, RuntimeInv, packVars
<1>2. CASE Bare
  BY <1>2 DEF Bare, RuntimeInv, packVars, callVars
<1>3. CASE Construct
  <2>1. P!Construct("pack")
    BY <1>3, SamePack DEF Construct
  <2>2. obj \in [{"pack"} -> P!Object]
    BY DEF PackInv, P!Inv, P!TypeOK, P!Object
  <2>3. pack'.mapped = None /\ moved' = {}
    BY <2>1, <2>2 DEF P!Construct, P!Empty, pack, RuntimeInv
  <2>4. /\ phase' = "idle" /\ at' = 0 /\ path' = path /\ result' = result
        /\ path = None /\ result = "never"
    BY <1>3 DEF Construct, RuntimeInv, sessionVars
  <2> QED
    BY <2>3, <2>4 DEF RuntimeInv
<1>4. CASE LoadDriver
  BY <1>4, LoadDriverKeeps
<1>5. CASE Run
  BY <1>5 DEF Run, RuntimeInv, packVars, sessionVars, pack, available
<1>6. CASE Destroy
  <2>1. P!Destroy("pack") /\ phase' = "dead" /\ at' = 0
    BY <1>6, SamePack DEF Destroy, Close
  <2> QED
    BY <2>1 DEF RuntimeInv, P!Destroy
<1>7. ASSUME NEW p \in Paths, NEW require \in BOOLEAN, LoadPack(p, require)
      PROVE  RuntimeInv'
  BY <1>7, LoadPackKeeps
<1>8. CASE UNCHANGED vars
  BY <1>8 DEF vars, packVars, sessionVars, callVars, RuntimeInv, pack, available
<1> QED
  BY <1>1, <1>2, <1>3, <1>4, <1>5, <1>6, <1>7, <1>8 DEF Next

LEMMA RuntimeInvHolds == Spec => [](PackInv /\ SessionInv /\ RuntimeInv)
<1>1. Init => RuntimeInv
  BY DEF Init, Pack!Init, SessionInit, RuntimeInv
<1>2. Spec => []SessionInv
  BY RuntimeDrivesSession, SessionInvHolds, PTL
<1>3. Spec => []PackInv
  BY PackInvariance, PTL DEF Spec
<1> QED
  BY <1>1, <1>2, <1>3, RuntimeInvStep, PTL DEF Spec

(* What of a file is in a pack that maps it.                               *)
LEMMA PackHolds ==
  ASSUME PackInv, RuntimeInv, phase = "idle", pack.mapped # None
  PROVE  /\ Disk[path] # None /\ mapping[pack.mapped] = Disk[path]
         /\ pack.header \in {Pack!NoHeader, Pack!HeaderIn(Disk[path])}
         /\ pack.tensors = SubSeq(Disk[path].tensors, 1, Len(pack.tensors))
              \/ pack.tensors = << >>
         /\ Pack!Accepted(Disk[path]) => pack.tensors = Disk[path].tensors
<1>1. /\ path # None /\ Disk[path] # None /\ mapping[pack.mapped] = Disk[path]
  BY DEF RuntimeInv
<1>2. Disk[path] \in Files
  BY <1>1, RuntimeAssumption DEF RuntimeInv
<1>3. P!Holds(pack, Disk[path])
  BY <1>1 DEF PackInv, P!Whole, pack
<1>4. /\ P!Prefix(Disk[path]) = SubSeq(Disk[path].tensors, 1,
                                       Len(P!Prefix(Disk[path])))
      /\ P!TensorsAccepted(Disk[path]) =>
           P!Prefix(Disk[path]) = Disk[path].tensors
  BY <1>2, PackAssumptions, P!PrefixIsAccepted
<1>5. /\ Pack!NoHeader = P!NoHeader
      /\ Pack!HeaderIn(Disk[path]) = P!HeaderIn(Disk[path])
  BY DEF Pack!NoHeader, P!NoHeader, Pack!HeaderIn, P!HeaderIn
<1>6. Pack!Accepted(Disk[path]) => /\ P!HeaderAccepted(Disk[path])
                                   /\ P!TensorsAccepted(Disk[path])
  BY SamePack DEF P!Accepted
<1> QED
  BY <1>1, <1>3, <1>4, <1>5, <1>6 DEF P!Holds

(* After a load that returned the pack is whole and the driver there or    *)
(* closed, and after any load header and tensors are those of the file the *)
(* path names, for any files, any order of loads and any failure of the    *)
(* system, of parse() or of the driver.                                    *)
THEOREM LoadsAreWhole == Spec => []LoadedMeansWhole
<1>1. PackInv /\ SessionInv /\ RuntimeInv => LoadedMeansWhole
  <2> SUFFICES ASSUME PackInv, SessionInv, RuntimeInv,
                      phase = "idle", path # None
               PROVE
    /\ result = "returned" =>
         /\ pack.mapped # None /\ Pack!Accepted(mapping[pack.mapped])
         /\ pack.tensors = mapping[pack.mapped].tensors
         /\ required => available
         /\ outcome = "threw" => session = ClosedSession
    /\ pack.header # Pack!NoHeader =>
         Disk[path] # None /\ pack.header = Pack!HeaderIn(Disk[path])
    /\ pack.tensors # << >> =>
         pack.tensors = SubSeq(Disk[path].tensors, 1, Len(pack.tensors))
    BY DEF LoadedMeansWhole
  <2>1. ASSUME result = "returned"
        PROVE  /\ pack.mapped # None /\ Pack!Accepted(mapping[pack.mapped])
               /\ pack.tensors = mapping[pack.mapped].tensors
               /\ required => available
    BY <2>1, PackHolds DEF RuntimeInv
  <2>2. outcome = "threw" => session = ClosedSession
    BY DEF SessionInv, ThrewMeansClosed, RuntimeInv
  <2>3. CASE pack.mapped = None
    <3>1. pack = P!Empty
      BY <2>3 DEF PackInv, P!Whole, RuntimeInv, pack
    <3>2. pack.header = Pack!NoHeader /\ pack.tensors = << >>
      BY <3>1 DEF P!Empty, P!NoHeader, Pack!NoHeader
    <3> QED
      BY <2>1, <2>2, <3>2
  <2>4. CASE pack.mapped # None
    BY <2>1, <2>2, <2>4, PackHolds
  <2> QED
    BY <2>3, <2>4
<1> QED
  BY <1>1, RuntimeInvHolds, PTL

(* A run reads the tensors of the file that load() named last, all of them *)
(* when that load returned, in the context of the object's own driver.     *)
THEOREM RunsOnWhatWasLoaded == Spec => RunsOnTheLoadedModel
<1>1. ASSUME PackInv, SessionInv, RuntimeInv, Run
      PROVE  /\ launched'.file = Disk[path]
             /\ launched'.context = session.context
             /\ result = "returned" => launched'.tensors = Disk[path].tensors
  <2>1. /\ phase = "idle" /\ available /\ pack.tensors # << >> /\ at = 0
        /\ launched' = [file |-> mapping[pack.mapped],
                        tensors |-> pack.tensors, context |-> stack[1]]
    BY <1>1 DEF Run, RuntimeInv
  <2>2. pack.mapped # None
    BY <1>1, <2>1 DEF PackInv, P!Whole, pack
  <2>3. session.context # NoContext
    BY <1>1, <2>1, ClosedIsWhole DEF SessionInv, SessionIsWhole, available
  <2>4. stack[1] = session.context
    BY <1>1, <2>3 DEF SessionInv, StackIsOurs
  <2>5. result = "returned" => Pack!Accepted(Disk[path])
    BY <1>1, <2>1 DEF RuntimeInv
  <2> QED
    BY <1>1, <2>1, <2>2, <2>4, <2>5, PackHolds
<1>2. ASSUME [Next]_vars, launched' # launched PROVE Run
  BY <1>2 DEF Next, vars, callVars, UseDriver, Bare, Construct, LoadDriver,
     Destroy, LoadPack
<1>3. PackInv /\ SessionInv /\ RuntimeInv /\ [Next]_vars =>
        [ launched' # launched =>
            /\ launched'.file = Disk[path]
            /\ launched'.context = session.context
            /\ result = "returned" => launched'.tensors = Disk[path].tensors
        ]_vars
  BY <1>1, <1>2
<1> QED
  BY <1>3, RuntimeInvHolds, PTL DEF Spec, RunsOnTheLoadedModel
=============================================================================
