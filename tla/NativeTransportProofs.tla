------------------------ MODULE NativeTransportProofs ------------------------
(***************************************************************************)
(* The transport to the Vulkan host, for any number of frames, slots,      *)
(* upload buffers and host processes: its slot counter is exactly the calls*)
(* that hold a slot, at most one host process runs, and every POST carries *)
(* the bytes of its own frame.  And the Linux host at its other end.       *)
(***************************************************************************)
EXTENDS NativeTransport, LinuxHost, FiniteSetTheorems, SequenceTheorems, TLAPS

LEMMA Bounds == MaxCall \in Nat /\ MaxInFlight \in Nat /\ MaxInFlight > 0 /\ MaxHost \in Nat
  BY TransportAssumption

-----------------------------------------------------------------------------
(* The slots                                                               *)

\* Every waiter is parked, and waits once.
Lined ==
  /\ \A i \in 1..Len(waiters) : pc[waiters[i]] = "parked"
  /\ \A i, j \in 1..Len(waiters) : waiters[i] = waiters[j] => i = j

SlotInv ==
  /\ pc \in [Call -> Progress] /\ waiters \in Seq(Call)
  /\ Lined
  /\ SlotsExact

LEMMA HoldersFinite == IsFiniteSet(Holders)
<1>1. IsFiniteSet(Call)
  BY Bounds, FS_Interval DEF Call
<1>2. Holders \subseteq Call
  BY DEF Holders
<1> QED  BY <1>1, <1>2, FS_Subset

\* A call that takes a slot, and one that gives it back.
LEMMA HolderEnters ==
  ASSUME NEW c \in Call, c \notin Holders, Holders' = Holders \cup {c},
         SlotsExact, inFlight < MaxInFlight, inFlight' = inFlight + 1
  PROVE  SlotsExact'
<1>1. Cardinality(Holders \cup {c}) = Cardinality(Holders) + 1
  BY HoldersFinite, FS_AddElement
<1>2. Cardinality(Holders) \in Nat
  BY HoldersFinite, FS_CardinalityType
<1> QED  BY <1>1, <1>2, Bounds DEF SlotsExact

LEMMA HolderLeaves ==
  ASSUME NEW c \in Holders, Holders' = Holders \ {c},
         SlotsExact, inFlight' = inFlight - 1
  PROVE  SlotsExact'
<1>1. Cardinality(Holders \ {c}) = Cardinality(Holders) - 1
  BY HoldersFinite, FS_RemoveElement
<1>2. Cardinality(Holders) \in Nat
  BY HoldersFinite, FS_CardinalityType
<1> QED  BY <1>1, <1>2, Bounds DEF SlotsExact

\* Steps that move no call into or out of its slot or its place in the line.
LEMMA SlotsUntouched ==
  ASSUME SlotInv, pc' \in [Call -> Progress], UNCHANGED <<inFlight, waiters>>,
         \A d \in Call : /\ pc[d] \in Running <=> pc'[d] \in Running
                         /\ pc[d] = "parked" => pc'[d] = "parked"
  PROVE  SlotInv'
<1>1. Holders' = Holders
  BY DEF Holders
<1>2. SlotsExact'
  BY <1>1 DEF SlotInv, SlotsExact
<1>3. \A i \in 1..Len(waiters) : waiters[i] \in Call
  BY DEF SlotInv
<1>4. Lined'
  BY <1>3 DEF SlotInv, Lined
<1> QED  BY <1>2, <1>4 DEF SlotInv

LEMMA TakeSlotKeeps ==
  ASSUME SlotInv, NEW c \in Call, pc[c] \in {"new", "woken"}, TakeSlot(c)
  PROVE  SlotInv'
<1>1. pc \in [Call -> Progress] /\ waiters \in Seq(Call) /\ Lined /\ SlotsExact
  BY DEF SlotInv
<1>2. c \notin Holders
  BY DEF Holders, Running
<1>3. CASE disposed /\ pc' = [pc EXCEPT ![c] = "failed"] /\ UNCHANGED <<inFlight, waiters>>
  <2>1. pc' \in [Call -> Progress]
    BY <1>1, <1>3 DEF Progress, Settled
  <2>2. \A d \in Call : /\ pc[d] \in Running <=> pc'[d] \in Running
                        /\ pc[d] = "parked" => pc'[d] = "parked"
    BY <1>1, <1>3 DEF Running
  <2> QED  BY <1>3, <2>1, <2>2, SlotsUntouched
<1>4. CASE /\ pc' = [pc EXCEPT ![c] = "parked"] /\ waiters' = Append(waiters, c)
           /\ inFlight' = inFlight
  <2>1. pc' \in [Call -> Progress] /\ waiters' \in Seq(Call)
    BY <1>1, <1>4 DEF Progress
  <2>2. Holders' = Holders
    BY <1>1, <1>4 DEF Holders, Running
  <2>3. SlotsExact'
    BY <1>1, <1>4, <2>2 DEF SlotsExact
  <2>4. /\ Len(waiters) \in Nat /\ Len(waiters') = Len(waiters) + 1
        /\ waiters'[Len(waiters) + 1] = c
        /\ \A i \in 1..Len(waiters) : waiters'[i] = waiters[i] /\ waiters[i] \in Call
    BY <1>1, <1>4
  <2>5. \A i \in 1..Len(waiters) : pc[waiters[i]] = "parked" /\ waiters[i] # c
    BY <1>1 DEF Lined
  <2>6. Lined'
    <3>1. \A i \in 1..Len(waiters') : i \in 1..Len(waiters) \/ i = Len(waiters) + 1
      BY <2>4
    <3>2. \A i \in 1..Len(waiters') : pc'[waiters'[i]] = "parked"
      BY <1>1, <1>4, <2>4, <2>5, <3>1
    <3>3. \A i, j \in 1..Len(waiters') : waiters'[i] = waiters'[j] => i = j
      BY <1>1, <2>4, <2>5, <3>1 DEF Lined
    <3> QED  BY <3>2, <3>3 DEF Lined
  <2> QED  BY <2>1, <2>3, <2>6 DEF SlotInv
<1>5. CASE inFlight < MaxInFlight /\ Enter(c) /\ waiters' = waiters
  <2>1. pc' = [pc EXCEPT ![c] = "await"] \/ pc' = [pc EXCEPT ![c] = "ready"]
          \/ pc' = [pc EXCEPT ![c] = "failing"]
    BY <1>5 DEF Enter, Oversize, EnsureEndpoint
  <2>2. pc' \in [Call -> Progress] /\ pc'[c] \in Running /\ \A d \in Call \ {c} : pc'[d] = pc[d]
    BY <1>1, <2>1 DEF Progress, Running
  <2>3. Holders' = Holders \cup {c}
    BY <2>2 DEF Holders
  <2>4. SlotsExact'
    BY <1>1, <1>2, <1>5, <2>3, HolderEnters DEF Enter
  <2>5. \A i \in 1..Len(waiters) : waiters[i] \in Call /\ waiters[i] # c
    BY <1>1 DEF Lined
  <2>6. Lined'
    BY <1>1, <1>5, <2>2, <2>5 DEF Lined
  <2> QED  BY <1>1, <1>5, <2>2, <2>4, <2>6 DEF SlotInv
<1> QED  BY <1>3, <1>4, <1>5 DEF TakeSlot

LEMMA ReleaseKeeps ==
  ASSUME SlotInv, NEW c \in Call, pc[c] \in Running, NEW outcome \in Settled,
         Release(c, outcome)
  PROVE  SlotInv'
<1>1. pc \in [Call -> Progress] /\ waiters \in Seq(Call) /\ Lined /\ SlotsExact
  BY DEF SlotInv
<1>2. c \in Holders /\ outcome \notin Running /\ outcome \in Progress /\ outcome # "parked"
  BY DEF Holders, Running, Settled, Progress
<1>3. inFlight' = inFlight - 1
  BY DEF Release
<1>4. \A i \in 1..Len(waiters) : waiters[i] \in Call /\ pc[waiters[i]] = "parked" /\ waiters[i] # c
  BY <1>1 DEF Lined, Running
<1>5. CASE waiters = <<>>
  <2>1. pc' = [pc EXCEPT ![c] = outcome] /\ waiters' = waiters
    BY <1>5 DEF Release
  <2>2. pc' \in [Call -> Progress] /\ Holders' = Holders \ {c}
    BY <1>1, <1>2, <2>1 DEF Holders
  <2>3. SlotsExact'
    BY <1>1, <1>2, <1>3, <2>2, HolderLeaves
  <2>4. Lined'
    BY <1>5, <2>1 DEF Lined
  <2> QED  BY <1>1, <2>1, <2>2, <2>3, <2>4 DEF SlotInv
<1>6. CASE waiters # <<>>
  <2> DEFINE w == Head(waiters)
  <2>1. pc' = [pc EXCEPT ![c] = outcome, ![w] = "woken"] /\ waiters' = Tail(waiters)
    BY <1>6 DEF Release
  <2>2. /\ w = waiters[1] /\ 1 \in 1..Len(waiters) /\ Len(waiters) \in Nat
        /\ Len(waiters') = Len(waiters) - 1 /\ waiters' \in Seq(Call)
        /\ \A i \in 1..Len(waiters') : waiters'[i] = waiters[i + 1] /\ i + 1 \in 1..Len(waiters)
    BY <1>1, <1>6, <2>1
  <2>3. w \in Call /\ w # c /\ pc[w] = "parked"
    BY <1>4, <2>2
  <2> HIDE DEF w
  <2>4. /\ pc' \in [Call -> Progress] /\ pc'[c] = outcome /\ pc'[w] = "woken"
        /\ \A d \in Call \ {c, w} : pc'[d] = pc[d]
    BY <1>1, <1>2, <2>1, <2>3 DEF Progress
  <2>5. Holders' = Holders \ {c}
    BY <1>2, <2>3, <2>4 DEF Holders, Running
  <2>6. SlotsExact'
    BY <1>1, <1>2, <1>3, <2>5, HolderLeaves
  <2>7. \A i \in 1..Len(waiters') : waiters'[i] \in Call \ {c, w}
    <3> TAKE i \in 1..Len(waiters')
    <3>1. waiters'[i] = waiters[i + 1] /\ i + 1 \in 1..Len(waiters) /\ i + 1 # 1
      BY <2>2
    <3>2. waiters[i + 1] # w
      BY <1>1, <2>2, <3>1 DEF Lined
    <3> QED  BY <1>4, <3>1, <3>2
  <2>8. Lined'
    <3>1. \A i \in 1..Len(waiters') : pc'[waiters'[i]] = "parked"
      BY <1>4, <2>2, <2>4, <2>7
    <3>2. \A i, j \in 1..Len(waiters') : waiters'[i] = waiters'[j] => i = j
      <4> TAKE i, j \in 1..Len(waiters')
      <4>1. waiters'[i] = waiters[i + 1] /\ waiters'[j] = waiters[j + 1]
            /\ i + 1 \in 1..Len(waiters) /\ j + 1 \in 1..Len(waiters)
        BY <2>2
      <4>2. waiters[i + 1] = waiters[j + 1] => i + 1 = j + 1
        BY <1>1, <4>1 DEF Lined
      <4> QED  BY <4>1, <4>2
    <3> QED  BY <3>1, <3>2 DEF Lined
  <2> QED  BY <2>2, <2>4, <2>6, <2>8 DEF SlotInv
<1> QED  BY <1>5, <1>6

LEMMA ClientKeeps ==
  ASSUME SlotInv, NEW c \in Call, ClientStep(c) \/ HostStep(c)
  PROVE  SlotInv'
<1>1. pc \in [Call -> Progress]
  BY DEF SlotInv
<1>2. CASE Run(c)
  <2>1. pc[c] = "new"
    BY <1>2 DEF Run
  <2>2. CASE TakeSlot(c)
    BY <2>1, <2>2, TakeSlotKeeps
  <2>3. CASE pc' = [pc EXCEPT ![c] = "failed"] /\ UNCHANGED slotVars
    <3>1. pc' \in [Call -> Progress]
      BY <1>1, <2>3 DEF Progress, Settled
    <3>2. \A d \in Call : /\ pc[d] \in Running <=> pc'[d] \in Running
                          /\ pc[d] = "parked" => pc'[d] = "parked"
      BY <1>1, <2>1, <2>3 DEF Running
    <3> QED  BY <2>3, <3>1, <3>2, SlotsUntouched DEF slotVars
  <2> QED  BY <1>2, <2>2, <2>3 DEF Run
<1>3. CASE Recheck(c)
  BY <1>3, TakeSlotKeeps DEF Recheck
<1>4. CASE Post(c)
  <2>1. pc[c] = "ready" /\ pc' = [pc EXCEPT ![c] = "posted"] /\ UNCHANGED <<inFlight, waiters>>
    BY <1>4 DEF Post
  <2>2. pc' \in [Call -> Progress]
    BY <1>1, <2>1 DEF Progress, Running
  <2>3. \A d \in Call : /\ pc[d] \in Running <=> pc'[d] \in Running
                        /\ pc[d] = "parked" => pc'[d] = "parked"
    BY <1>1, <2>1 DEF Running
  <2> QED  BY <2>1, <2>2, <2>3, SlotsUntouched
<1>5. CASE Refuse(c) \/ Serve(c) \/ Fail(c) \/ Reject(c)
  <2>1. pc[c] \in Running /\ \E outcome \in Settled : Release(c, outcome)
    BY <1>5 DEF Refuse, Serve, Fail, Reject, Running, Settled
  <2> QED  BY <2>1, ReleaseKeeps
<1> QED  BY <1>2, <1>3, <1>4, <1>5 DEF ClientStep, HostStep

LEMMA ResolveKeeps ==
  ASSUME SlotInv, NEW info, Resolve(info)
  PROVE  SlotInv'
<1>1. pc \in [Call -> Progress]
  BY DEF SlotInv
<1>2. /\ pc' = [c \in Call |-> IF pc[c] # "await" THEN pc[c]
                               ELSE IF info # None THEN "ready" ELSE "failing"]
      /\ UNCHANGED <<inFlight, waiters>>
  BY DEF Resolve
<1>3. pc' \in [Call -> Progress]
  BY <1>1, <1>2 DEF Progress, Running
<1>4. \A d \in Call : /\ pc[d] \in Running <=> pc'[d] \in Running
                      /\ pc[d] = "parked" => pc'[d] = "parked"
  BY <1>2 DEF Running
<1> QED  BY <1>2, <1>3, <1>4, SlotsUntouched

LEMMA DisposeKeeps ==
  ASSUME SlotInv, Dispose
  PROVE  SlotInv'
<1>1. pc \in [Call -> Progress] /\ SlotsExact
  BY DEF SlotInv
<1>2. /\ waiters' = <<>> /\ inFlight' = inFlight
      /\ pc' = [c \in Call |-> IF pc[c] = "parked" THEN "woken" ELSE pc[c]]
  BY DEF Dispose
<1>3. pc' \in [Call -> Progress]
  BY <1>1, <1>2 DEF Progress
<1>4. Holders' = Holders
  BY <1>2 DEF Holders, Running
<1>5. SlotsExact'
  BY <1>1, <1>2, <1>4 DEF SlotsExact
<1>6. Lined' /\ waiters' \in Seq(Call)
  BY <1>2 DEF Lined
<1> QED  BY <1>3, <1>5, <1>6 DEF SlotInv

LEMMA SlotStep == ASSUME SlotInv, [Next]_vars PROVE SlotInv'
<1>1. CASE \E c \in Call : ClientStep(c) \/ HostStep(c)
  BY <1>1, ClientKeeps
<1>2. CASE QueryReplied \/ QueryLost
  BY <1>2, ResolveKeeps DEF QueryReplied, QueryLost
<1>3. CASE Dispose
  BY <1>3, DisposeKeeps
<1>4. CASE \/ Create \/ Get \/ GetElsewhere \/ ShakeReady \/ ShakeFailed \/ InfoExpires
           \/ (\E h \in Host : PortGone(h) \/ HostExits(h)) \/ UNCHANGED vars
  <2>1. UNCHANGED <<pc, inFlight, waiters>>
    BY <1>4 DEF Create, Get, GetElsewhere, ShakeReady, ShakeFailed, InfoExpires, PortGone,
                HostExits, vars, clientVars, slotVars
  <2> QED  BY <2>1, SlotsUntouched DEF SlotInv
<1> QED  BY <1>1, <1>2, <1>3, <1>4 DEF Next

LEMMA InitSlots == ASSUME Init PROVE SlotInv
<1>1. pc = [c \in Call |-> "new"] /\ waiters = <<>> /\ inFlight = 0
  BY DEF Init
<1>2. Holders = {}
  BY <1>1 DEF Holders, Running
<1>3. SlotsExact
  BY <1>1, <1>2, FS_EmptySet, Bounds DEF SlotsExact
<1>4. Lined /\ pc \in [Call -> Progress] /\ waiters \in Seq(Call)
  BY <1>1 DEF Lined, Progress
<1> QED  BY <1>3, <1>4 DEF SlotInv

\* realesrgan-native-vulkan-client.ts:333-346. The slot counter is exactly the calls that hold a
\* slot, at most maxInFlight of them, however calls end and race for a freed slot.
THEOREM SlotsCorrect == Spec => []SlotsExact
<1>1. Init => SlotInv
  BY InitSlots
<1>2. SlotInv /\ [Next]_vars => SlotInv'
  BY SlotStep
<1>3. SlotInv => SlotsExact
  BY DEF SlotInv
<1> QED  BY <1>1, <1>2, <1>3, PTL DEF Spec

-----------------------------------------------------------------------------
(* The waiters                                                             *)

Woken == {c \in Call : pc[c] = "woken"}

WaitInv ==
  /\ SlotInv
  /\ disposed => waiters = <<>>
  /\ waiters # <<>> => MaxInFlight - inFlight <= Cardinality(Woken)

LEMMA WokenFinite == IsFiniteSet(Woken) /\ Cardinality(Woken) \in Nat
<1>1. IsFiniteSet(Call)
  BY Bounds, FS_Interval DEF Call
<1>2. Woken \subseteq Call
  BY DEF Woken
<1> QED  BY <1>1, <1>2, FS_Subset, FS_CardinalityType

LEMMA InFlightInt == ASSUME SlotInv PROVE inFlight \in Nat
  BY HoldersFinite, FS_CardinalityType DEF SlotInv, SlotsExact

\* A call that takes its slot was woken, or is a newcomer that no longer leaves it free.
LEMMA TakeSlotWakes ==
  ASSUME WaitInv, NEW c \in Call, pc[c] \in {"new", "woken"}, TakeSlot(c)
  PROVE  waiters' # <<>> => MaxInFlight - inFlight' <= Cardinality(Woken')
<1>1. inFlight \in Nat /\ pc \in [Call -> Progress]
  BY InFlightInt DEF WaitInv, SlotInv
<1>2. CASE disposed /\ UNCHANGED <<inFlight, waiters>>
  BY <1>2 DEF WaitInv
<1>3. CASE /\ inFlight >= MaxInFlight /\ pc' = [pc EXCEPT ![c] = "parked"]
           /\ inFlight' = inFlight
  <2>1. Woken' = Woken \ {c}
    BY <1>1, <1>3 DEF Woken
  <2>2. IsFiniteSet(Woken \ {c}) /\ Cardinality(Woken \ {c}) \in Nat
    BY WokenFinite, FS_Subset, FS_CardinalityType
  <2> QED  BY <1>1, <1>3, <2>1, <2>2, Bounds
<1>4. CASE Enter(c) /\ waiters' = waiters /\ inFlight' = inFlight + 1
  <2>1. pc' = [pc EXCEPT ![c] = "await"] \/ pc' = [pc EXCEPT ![c] = "ready"]
          \/ pc' = [pc EXCEPT ![c] = "failing"]
    BY <1>4 DEF Enter, Oversize, EnsureEndpoint
  <2>2. pc'[c] # "woken" /\ \A d \in Call \ {c} : pc'[d] = pc[d]
    BY <1>1, <2>1
  <2>3. Woken' = Woken \ {c}
    BY <2>2 DEF Woken
  <2>4. /\ c \in Woken => Cardinality(Woken \ {c}) = Cardinality(Woken) - 1
        /\ c \notin Woken => Woken \ {c} = Woken
    <3> HIDE DEF Woken
    <3>1. c \in Woken => Cardinality(Woken \ {c}) = Cardinality(Woken) - 1
      BY WokenFinite, FS_RemoveElement
    <3> QED  BY <3>1
  <2>5. Cardinality(Woken') >= Cardinality(Woken) - 1 /\ Cardinality(Woken) \in Nat
    BY <2>3, <2>4, WokenFinite
  <2> HIDE DEF Woken
  <2>6. waiters # <<>> => MaxInFlight - inFlight <= Cardinality(Woken)
    BY DEF WaitInv
  <2>7. Cardinality(Woken') \in Int
    BY <2>3, <2>4, WokenFinite
  <2> QED  BY <1>1, <1>4, <2>5, <2>6, <2>7, Bounds
<1> QED  BY <1>2, <1>3, <1>4 DEF TakeSlot, Enter

LEMMA ReleaseWakes ==
  ASSUME WaitInv, NEW c \in Call, pc[c] \in Running, NEW outcome \in Settled,
         Release(c, outcome)
  PROVE  waiters' # <<>> => MaxInFlight - inFlight' <= Cardinality(Woken')
<1>1. /\ inFlight \in Nat /\ pc \in [Call -> Progress] /\ waiters \in Seq(Call) /\ Lined
  BY InFlightInt DEF WaitInv, SlotInv
<1>2. SUFFICES ASSUME waiters' # <<>>
               PROVE  MaxInFlight - inFlight' <= Cardinality(Woken')
  OBVIOUS
<1>3. waiters # <<>>
  BY <1>2 DEF Release
<1> DEFINE w == Head(waiters)
<1>4. /\ inFlight' = inFlight - 1
      /\ pc' = [pc EXCEPT ![c] = outcome, ![w] = "woken"]
  BY <1>3 DEF Release
<1>5. w = waiters[1] /\ 1 \in 1..Len(waiters) /\ w \in Call
  BY <1>1, <1>3
<1>6. pc[w] = "parked"
  BY <1>1, <1>5 DEF Lined
<1> HIDE DEF w
<1>7. w # c /\ pc[c] # "woken" /\ outcome # "woken"
  BY <1>6 DEF Running, Settled
<1>8. Woken' = Woken \cup {w} /\ w \notin Woken
  BY <1>1, <1>4, <1>5, <1>6, <1>7 DEF Woken
<1>9. Cardinality(Woken') = Cardinality(Woken) + 1 /\ Cardinality(Woken) \in Nat
  BY <1>8, WokenFinite, FS_AddElement
<1>10. MaxInFlight - inFlight <= Cardinality(Woken)
  BY <1>3 DEF WaitInv
<1> HIDE DEF Woken
<1> QED  BY <1>1, <1>4, <1>9, <1>10, Bounds

LEMMA WaitStep == ASSUME WaitInv, [Next]_vars PROVE WaitInv'
<1>1. SlotInv'
  BY SlotStep DEF WaitInv
<1>2. pc \in [Call -> Progress]
  BY DEF WaitInv, SlotInv
<1>3. disposed' => waiters' = <<>>
  <2>1. CASE Dispose
    BY <2>1 DEF Dispose
  <2>2. CASE \E c \in Call : ClientStep(c) \/ HostStep(c)
    <3>1. PICK c \in Call : ClientStep(c) \/ HostStep(c)
      BY <2>2
    <3>2. disposed' = disposed
      BY <3>1 DEF ClientStep, HostStep, Run, Recheck, Post, Refuse, Serve, Fail, Reject
    <3>3. disposed /\ waiters = <<>> => waiters' = <<>>
      BY <3>1 DEF ClientStep, HostStep, Run, Recheck, Post, Refuse, Serve, Fail, Reject,
                  TakeSlot, Release, slotVars
    <3> QED  BY <3>2, <3>3 DEF WaitInv
  <2>3. CASE \/ Create \/ QueryReplied \/ QueryLost
             \/ Get \/ GetElsewhere \/ ShakeReady \/ ShakeFailed \/ InfoExpires
             \/ (\E h \in Host : PortGone(h) \/ HostExits(h)) \/ UNCHANGED vars
    <3>1. UNCHANGED <<disposed, waiters>>
      BY <2>3 DEF Create, QueryReplied, QueryLost, Resolve, Get, GetElsewhere, ShakeReady,
                  ShakeFailed, InfoExpires, PortGone, HostExits, vars, clientVars, slotVars
    <3> QED  BY <3>1 DEF WaitInv
  <2> QED  BY <2>1, <2>2, <2>3 DEF Next
<1>4. waiters' # <<>> => MaxInFlight - inFlight' <= Cardinality(Woken')
  <2>1. CASE \E c \in Call : ClientStep(c) \/ HostStep(c)
    <3>1. PICK c \in Call : ClientStep(c) \/ HostStep(c)
      BY <2>1
    <3>2. CASE pc[c] \in {"new", "woken"} /\ TakeSlot(c)
      BY <3>2, TakeSlotWakes
    <3>3. CASE pc[c] \in Running /\ \E outcome \in Settled : Release(c, outcome)
      BY <3>3, ReleaseWakes
    <3>4. CASE /\ pc[c] \in {"new", "ready"} /\ UNCHANGED <<inFlight, waiters>>
               /\ pc' = [pc EXCEPT ![c] = "failed"] \/ pc' = [pc EXCEPT ![c] = "posted"]
      <4>1. Woken' = Woken
        BY <1>2, <3>4 DEF Woken
      <4> QED  BY <3>4, <4>1 DEF WaitInv
    <3> QED
      BY <3>1, <3>2, <3>3, <3>4 DEF ClientStep, HostStep, Run, Recheck, Post, Refuse, Serve, Fail,
                                    Reject, Running, Settled, slotVars
  <2>2. CASE Dispose
    BY <2>2 DEF Dispose
  <2>3. CASE \E info \in {reply, None} : Resolve(info)
    <3>1. Woken' = Woken /\ UNCHANGED <<inFlight, waiters>>
      BY <2>3 DEF Resolve, Woken
    <3> QED  BY <3>1 DEF WaitInv
  <2>4. CASE \/ Create \/ Get \/ GetElsewhere \/ ShakeReady \/ ShakeFailed \/ InfoExpires
             \/ (\E h \in Host : PortGone(h) \/ HostExits(h)) \/ UNCHANGED vars
    <3>1. UNCHANGED <<pc, inFlight, waiters>>
      BY <2>4 DEF Create, Get, GetElsewhere, ShakeReady, ShakeFailed, InfoExpires, PortGone,
                  HostExits, vars, clientVars, slotVars
    <3> QED  BY <3>1 DEF WaitInv, Woken
  <2> QED  BY <2>1, <2>2, <2>3, <2>4 DEF Next, QueryReplied, QueryLost
<1> QED  BY <1>1, <1>3, <1>4 DEF WaitInv

\* The same code. No wake-up is lost to a newcomer, to an error path or to disposal: a slot that is
\* free while calls are parked has a woken call on its way to it.
THEOREM WaitersCorrect == Spec => []NoStrandedWaiter
<1>1. Init => WaitInv
  <2>1. ASSUME Init PROVE WaitInv
    <3>1. waiters = <<>>
      BY <2>1 DEF Init
    <3> QED  BY <2>1, <3>1, InitSlots DEF WaitInv
  <2> QED  BY <2>1
<1>2. WaitInv /\ [Next]_vars => WaitInv'
  BY WaitStep
<1>3. WaitInv => NoStrandedWaiter
  BY DEF WaitInv, NoStrandedWaiter, Woken
<1> QED  BY <1>1, <1>2, <1>3, PTL DEF Spec

-----------------------------------------------------------------------------
(* The host                                                                *)

First(h) == [host |-> h, first |-> TRUE, stale |-> FALSE]
Again(h) == [host |-> h, first |-> FALSE, stale |-> FALSE]

\* A handshake runs over the port the broker keeps, or it has none; every process that
\* runs is at the other end of one of these ports.
HostInv ==
  /\ started \in Nat /\ alive \subseteq 1..started /\ gone \subseteq 1..started
  /\ alive \cap gone = {}
  /\ \/ shake = NoShake
     \/ bPort = None /\ \E h \in 1..started : shake = First(h)
     \/ bPort # None /\ shake = Again(bPort)
  /\ bPort \in 0..started
  /\ alive \subseteq {bPort, shake.host}
  /\ bInfo # None => bPort = bInfo

LEMMA Shakes ==
  /\ NoShake.host = None
  /\ \A h \in Nat \ {0} :
       /\ First(h).host = h /\ First(h) # NoShake /\ First(h).first = TRUE
       /\ First(h).stale = FALSE
       /\ Again(h).host = h /\ Again(h) # NoShake /\ Again(h).first = FALSE
       /\ Again(h).stale = FALSE
  BY DEF NoShake, First, Again, None

LEMMA HandshakeKeeps ==
  ASSUME HostInv, shake = NoShake, Handshake, UNCHANGED <<bPort, bInfo, gone>>
  PROVE  HostInv'
<1>1. CASE bPort # None /\ shake' = Again(bPort) /\ UNCHANGED <<alive, started>>
  BY <1>1, Shakes DEF HostInv, None
<1>2. CASE /\ bPort = None /\ started' = started + 1 /\ alive' = alive \cup {started + 1}
           /\ shake' = First(started + 1)
  <2>1. alive = {}
    BY <1>2, Shakes DEF HostInv, None
  <2>2. started + 1 \in 1..(started + 1) /\ gone \subseteq 1..(started + 1)
        /\ started + 1 \notin gone
    BY DEF HostInv
  <2>3. shake'.host = started + 1
    BY <1>2, Shakes DEF HostInv
  <2> QED  BY <1>2, <2>1, <2>2, <2>3 DEF HostInv
<1> QED  BY <1>1, <1>2 DEF Handshake, First, Again
LEMMA ShakeReadyKeeps ==
  ASSUME HostInv, ShakeReady
  PROVE  HostInv'
<1>1. shake # NoShake /\ shake' = NoShake /\ bInfo' = shake.host /\ UNCHANGED <<gone, started>>
  BY DEF ShakeReady
<1>2. CASE bPort = None /\ \E h \in 1..started : shake = First(h)
  <2>1. PICK h \in 1..started : shake = First(h)
    BY <1>2
  <2>2. shake.host = h /\ shake.first = TRUE /\ shake.stale = FALSE
    BY <2>1, Shakes DEF HostInv
  <2>3. bPort' = h /\ alive' = alive
    BY <2>2 DEF ShakeReady
  <2> QED  BY <1>1, <1>2, <2>2, <2>3, Shakes DEF HostInv, None
<1>3. CASE bPort # None /\ shake = Again(bPort)
  <2>1. bPort \in Nat \ {0}
    BY <1>3 DEF HostInv, None
  <2>2. shake.host = bPort /\ shake.first = FALSE
    BY <1>3, <2>1, Shakes
  <2>3. bPort' = bPort /\ alive' = alive
    BY <2>2 DEF ShakeReady
  <2> QED  BY <1>1, <2>2, <2>3, Shakes DEF HostInv
<1> QED  BY <1>1, <1>2, <1>3 DEF HostInv

LEMMA ShakeFailedKeeps ==
  ASSUME HostInv, ShakeFailed
  PROVE  HostInv'
<1>1. shake # NoShake /\ shake' = NoShake /\ UNCHANGED <<gone, started>>
  BY DEF ShakeFailed
<1>2. CASE bPort = None /\ \E h \in 1..started : shake = First(h)
  <2>1. PICK h \in 1..started : shake = First(h)
    BY <1>2
  <2>2. shake.host = h /\ shake.first = TRUE
    BY <2>1, Shakes DEF HostInv
  <2>3. alive' = alive \ {h} /\ UNCHANGED <<bPort, bInfo>>
    BY <2>2 DEF ShakeFailed
  <2> QED  BY <1>1, <1>2, <2>2, <2>3, Shakes DEF HostInv, None
<1>3. CASE bPort # None /\ shake = Again(bPort)
  <2>1. bPort \in Nat \ {0}
    BY <1>3 DEF HostInv, None
  <2>2. shake.host = bPort /\ shake.first = FALSE
    BY <1>3, <2>1, Shakes
  <2>3. bPort' = None /\ alive' = alive \ {bPort} /\ bInfo' = None
    BY <2>2 DEF ShakeFailed, Invalidate
  <2> QED  BY <1>1, <2>2, <2>3, Shakes DEF HostInv, None
<1> QED  BY <1>1, <1>2, <1>3 DEF HostInv

LEMMA PortGoneKeeps ==
  ASSUME HostInv, NEW h \in Host, PortGone(h)
  PROVE  HostInv'
<1>1. h \in gone /\ h \notin alive /\ h \in Nat \ {0} /\ gone' = gone \ {h} /\ started' = started
  BY Bounds DEF PortGone, HostInv, Host
<1>2. CASE bPort = h
  <2>1. bPort' = None /\ bInfo' = None /\ alive' = alive \ {None}
    BY <1>2 DEF PortGone, Invalidate
  <2>2. CASE shake = NoShake
    <3>1. shake.host # h
      BY <1>1, <2>2, Shakes DEF None
    <3>2. shake' = [shake EXCEPT !.stale = FALSE]
      BY <1>2, <2>2, <3>1 DEF PortGone
    <3>3. shake' = NoShake
      BY <2>2, <3>2 DEF NoShake
    <3> QED  BY <1>1, <1>2, <2>1, <2>2, <3>3, Shakes DEF HostInv, None
  <2>3. CASE shake # NoShake
    <3>1. shake = Again(h)
      BY <1>1, <1>2, <2>3 DEF HostInv, None
    <3>2. shake.host = h
      BY <1>1, <3>1, Shakes
    <3>3. shake' = NoShake
      BY <3>2 DEF PortGone
    <3> QED  BY <1>1, <1>2, <2>1, <3>2, <3>3, Shakes DEF HostInv, None
  <2> QED  BY <2>2, <2>3
<1>3. CASE bPort # h
  <2>1. UNCHANGED <<bPort, bInfo, alive>>
    BY <1>3 DEF PortGone
  <2>2. shake' = shake \/ (shake.host = h /\ shake' = NoShake)
    BY <1>3 DEF PortGone
  <2> QED  BY <1>1, <2>1, <2>2, Shakes DEF HostInv
<1> QED  BY <1>2, <1>3

LEMMA HostStepKeeps == ASSUME HostInv, [Next]_vars PROVE HostInv'
<1>1. CASE UNCHANGED <<bPort, bInfo, shake, alive, gone, started>>
  BY <1>1 DEF HostInv
<1>2. CASE \/ (\E c \in Call : ClientStep(c) \/ HostStep(c))
           \/ Create \/ Dispose \/ QueryReplied \/ QueryLost \/ UNCHANGED vars
  <2>1. UNCHANGED brokerVars
    BY <1>2 DEF ClientStep, HostStep, Run, Recheck, Post, Refuse, Serve, Fail, Reject,
                Create, Dispose, QueryReplied, QueryLost, Resolve, vars
  <2> QED  BY <1>1, <2>1 DEF brokerVars
<1>3. CASE Get
  <2>1. UNCHANGED <<bPort, bInfo, gone>>
    BY <1>3 DEF Get
  <2>2. UNCHANGED <<shake, alive, started>> \/ (shake = NoShake /\ Handshake)
    BY <1>3 DEF Get
  <2> QED  BY <1>1, <2>1, <2>2, HandshakeKeeps
<1>4. CASE GetElsewhere
  BY <1>4, HandshakeKeeps DEF GetElsewhere
<1>5. CASE ShakeReady
  BY <1>5, ShakeReadyKeeps
<1>6. CASE ShakeFailed
  BY <1>6, ShakeFailedKeeps
<1>7. CASE InfoExpires
  BY <1>1, <1>7 DEF InfoExpires
<1>8. CASE \E h \in Host : PortGone(h)
  BY <1>8, PortGoneKeeps
<1>9. CASE \E h \in Host : HostExits(h)
  BY <1>9 DEF HostExits, HostInv
<1> QED  BY <1>2, <1>3, <1>4, <1>5, <1>6, <1>7, <1>8, <1>9 DEF Next

LEMMA HostInvImplies == ASSUME HostInv PROVE OneHost
<1>1. PICK p : alive \subseteq {p}
  <2>1. CASE shake = NoShake
    BY <2>1, Shakes DEF HostInv, None
  <2>2. CASE bPort = None
    BY <2>2 DEF HostInv, None
  <2>3. CASE bPort # None /\ shake = Again(bPort)
    <3>1. shake.host = bPort
      BY <2>3, Shakes DEF HostInv, None
    <3> QED  BY <3>1 DEF HostInv
  <2> QED  BY <2>1, <2>2, <2>3 DEF HostInv
<1>2. alive = {} \/ alive = {p}
  BY <1>1
<1>3. Cardinality(alive) <= 1
  <2>1. Cardinality({}) = 0 /\ Cardinality({p}) = 1
    BY FS_EmptySet, FS_Singleton
  <2> QED  BY <1>2, <2>1
<1> QED  BY <1>3 DEF HostInv, OneHost

LEMMA InitHost == ASSUME Init PROVE HostInv
  BY Shakes DEF Init, HostInv, None

\* realesrgan-http-info.ts:14-18. At most one host process runs, and a cached endpoint is the one
\* of the port the broker keeps, whatever handshakes, timeouts, crashes and late disconnects meet.
THEOREM OneHostCorrect == Spec => []OneHost
<1>1. Init => HostInv
  BY InitHost
<1>2. HostInv /\ [Next]_vars => HostInv'
  BY HostStepKeeps
<1>3. HostInv => OneHost
  BY HostInvImplies
<1> QED  BY <1>1, <1>2, <1>3, PTL DEF Spec

-----------------------------------------------------------------------------
(* The upload buffers                                                      *)

\* A call that may post has its turn queued and an endpoint; one that waits for the
\* endpoint waits in line, and there is none.
In(c, s) == \E i \in 1..Len(s) : s[i] = c
Queued ==
  \A c \in Call : /\ pc[c] = "ready" => endpoint # None /\ In(c, micro)
                  /\ pc[c] = "await" => endpoint = None /\ In(c, awaiters)

\* The buffers from a to u, as the rotation goes.
Ring(a, u) == {t \in Slot : IF a <= u THEN a <= t /\ t <= u ELSE t >= a \/ t <= u}

\* Every buffer claimed since a call that has yet to post claimed its own belongs to a
\* call that is as far, and that still holds its slot of the limit.
Behind(p) == IF p = "await" THEN {"await"} ELSE {"ready", "posted"}
Covered(t, P) == \E d \in Call \ Planar : pc[d] \in P /\ slot[d] = t /\ buffer[t] = {d}
Pending(c) == c \in Call \ Planar /\ pc[c] \in {"await", "ready"}
BufferInv ==
  \A c \in Call : Pending(c) =>
    /\ buffer[slot[c]] = {c}
    /\ \A t \in Ring(slot[c], uploadSlot) : Covered(t, Behind(pc[c]))

UploadOK ==
  /\ micro \in Seq(Call) /\ awaiters \in Seq(Call)
  /\ uploadSlot \in Slot /\ slot \in [Call -> Slot]
  /\ buffer \in [Slot -> SUBSET Call] /\ body \in [Call -> SUBSET Call]

UploadInv == SlotInv /\ UploadOK /\ Queued /\ BufferInv /\ BodyIsOwn

LEMMA InAppend ==
  ASSUME NEW s \in Seq(Call), NEW c \in Call, NEW d \in Call
  PROVE  /\ Append(s, c) \in Seq(Call)
         /\ In(c, Append(s, c))
         /\ In(d, s) => In(d, Append(s, c))
<1>1. /\ Len(s) \in Nat /\ Len(Append(s, c)) = Len(s) + 1
      /\ Append(s, c)[Len(s) + 1] = c
      /\ \A i \in 1..Len(s) : Append(s, c)[i] = s[i]
  BY AppendProperties, LenProperties
<1> QED  BY <1>1, AppendProperties DEF In

LEMMA InTail ==
  ASSUME NEW s \in Seq(Call), s # <<>>, NEW d \in Call, In(d, s), d # Head(s)
  PROVE  In(d, Tail(s))
<1>1. PICK i \in 1..Len(s) : s[i] = d
  BY DEF In
<1>2. i # 1
  BY <1>1
<1>3. Len(s) \in Nat /\ Len(Tail(s)) = Len(s) - 1
  BY HeadTailProperties, LenProperties
<1>4. i - 1 \in 1..Len(Tail(s))
  BY <1>1, <1>2, <1>3
<1>5. Tail(s)[i - 1] = s[i]
  BY <1>4, HeadTailProperties
<1> QED  BY <1>1, <1>4, <1>5 DEF In

\* The rotation: the buffer after the last one is the first.
NextSlot == IF uploadSlot = UploadBuffers - 1 THEN 0 ELSE uploadSlot + 1

LEMMA Rotation ==
  ASSUME uploadSlot \in Slot
  PROVE  (uploadSlot + 1) % UploadBuffers = NextSlot /\ NextSlot \in Slot
<1>1. UploadBuffers \in Nat /\ UploadBuffers > 0
  BY TransportAssumption
<1>2. CASE uploadSlot = UploadBuffers - 1
  <2>1. UploadBuffers % UploadBuffers = 0
    BY <1>1
  <2> QED  BY <1>1, <1>2, <2>1 DEF NextSlot, Slot
<1>3. CASE uploadSlot # UploadBuffers - 1
  <2>1. uploadSlot + 1 \in 0..(UploadBuffers - 1)
    BY <1>1, <1>3 DEF Slot
  <2> DEFINE n == uploadSlot + 1
  <2>2. n % UploadBuffers = n
    <3>1. n \in 0..(UploadBuffers - 1)
      BY <2>1
    <3> HIDE DEF n
    <3> QED  BY <1>1, <3>1
  <2> QED  BY <1>3, <2>1, <2>2 DEF NextSlot, Slot
<1> QED  BY <1>2, <1>3

LEMMA RingNext ==
  ASSUME uploadSlot \in Slot, NEW a \in Slot
  PROVE  /\ Ring(NextSlot, uploadSlot) = Slot
         /\ Ring(NextSlot, NextSlot) = {NextSlot}
         /\ \A t \in Ring(a, NextSlot) : t = NextSlot \/ t \in Ring(a, uploadSlot)
<1>1. UploadBuffers \in Nat /\ UploadBuffers > 0 /\ NextSlot \in Slot
  BY TransportAssumption, Rotation
<1> QED  BY <1>1 DEF Ring, NextSlot, Slot

\* While a slot of the limit is free, the next buffer is not one that is still needed.
LEMMA NotOverwritten ==
  ASSUME UploadInv, inFlight < MaxInFlight, NEW c \in Call, Pending(c)
  PROVE  slot[c] # NextSlot
<1> SUFFICES ASSUME slot[c] = NextSlot  PROVE FALSE
  OBVIOUS
<1>1. UploadOK /\ SlotsExact /\ pc \in [Call -> Progress]
  BY DEF UploadInv, SlotInv
<1>2. Ring(slot[c], uploadSlot) = Slot
  BY <1>1, RingNext, Rotation DEF UploadOK
<1>3. \A t \in Slot : \E d \in Holders : slot[d] = t
  <2> TAKE t \in Slot
  <2>1. Covered(t, Behind(pc[c]))
    BY <1>2 DEF UploadInv, BufferInv
  <2> QED  BY <2>1 DEF Covered, Behind, Holders, Running
<1> DEFINE f == [d \in Holders |-> slot[d]]
<1>4. f \in Surjection(Holders, Slot)
  <2>1. f \in [Holders -> Slot]
    BY <1>1 DEF UploadOK, Holders
  <2>2. \A t \in Slot : \E d \in Holders : f[d] = t
    BY <1>3
  <2> QED  BY <2>1, <2>2 DEF Surjection
<1>5. IsFiniteSet(Slot) /\ Cardinality(Slot) = UploadBuffers
  BY TransportAssumption, FS_Interval DEF Slot
<1>6. Cardinality(Slot) <= Cardinality(Holders)
  BY <1>4, HoldersFinite, FS_Surjection
<1> QED  BY <1>1, <1>5, <1>6, TransportAssumption, InFlightInt DEF SlotsExact, UploadInv

\* Steps that claim no buffer and move no call that has yet to post.
LEMMA BuffersUntouched ==
  ASSUME UploadInv, UNCHANGED <<uploadSlot, buffer, slot>>,
         \A d \in Call : /\ Pending(d) => pc'[d] = pc[d]
                         /\ Pending(d)' => Pending(d)
                         /\ pc[d] = "posted" => pc'[d] = "posted" \/ \A c \in Call : pc[c] # "ready"
  PROVE  BufferInv'
<1> SUFFICES ASSUME NEW c \in Call, Pending(c)'
             PROVE  /\ buffer[slot[c]] = {c}
                    /\ \A t \in Ring(slot[c], uploadSlot)' : Covered(t, Behind(pc[c]))'
  BY DEF BufferInv
<1>1. Pending(c) /\ pc'[c] = pc[c]
  OBVIOUS
<1>2. Ring(slot[c], uploadSlot)' = Ring(slot[c], uploadSlot)
  BY DEF Ring
<1>3. ASSUME NEW t \in Ring(slot[c], uploadSlot)
      PROVE  Covered(t, Behind(pc[c]))'
  <2>1. Covered(t, Behind(pc[c]))
    BY <1>1, <1>3 DEF UploadInv, BufferInv
  <2>2. PICK d \in Call \ Planar : pc[d] \in Behind(pc[c]) /\ slot[d] = t /\ buffer[t] = {d}
    BY <2>1 DEF Covered
  <2>3. pc'[d] \in Behind(pc[c])
    <3>1. CASE pc[d] \in {"await", "ready"}
      BY <2>2, <3>1 DEF Pending
    <3>2. CASE pc[d] = "posted"
      <4>1. pc[c] = "ready"
        BY <1>1, <2>2, <3>2 DEF Behind, Pending
      <4> QED  BY <2>2, <3>2, <4>1
    <3> QED  BY <2>2, <3>1, <3>2 DEF Behind
  <2> QED  BY <1>1, <2>2, <2>3 DEF Covered
<1> QED  BY <1>1, <1>2, <1>3 DEF UploadInv, BufferInv

\* A call that claims a buffer.
LEMMA ClaimKeeps ==
  ASSUME UploadInv, inFlight < MaxInFlight, NEW c \in Call \ Planar, pc[c] \in {"new", "woken"},
         Claim(c),
         \/ pc' = [pc EXCEPT ![c] = "ready"] /\ endpoint # None
         \/ pc' = [pc EXCEPT ![c] = "await"] /\ endpoint = None
  PROVE  BufferInv'
<1>1. UploadOK /\ pc \in [Call -> Progress] /\ Queued /\ BufferInv
  BY DEF UploadInv, SlotInv
<1>2. NextSlot \in Slot /\ (uploadSlot + 1) % UploadBuffers = NextSlot
  BY <1>1, Rotation DEF UploadOK
<1>3. /\ uploadSlot' = NextSlot /\ slot' = [slot EXCEPT ![c] = NextSlot]
      /\ buffer' = [buffer EXCEPT ![NextSlot] = {c}]
  BY <1>2 DEF Claim
<1> SUFFICES ASSUME NEW e \in Call, Pending(e)'
             PROVE  /\ buffer'[slot'[e]] = {e}
                    /\ \A t \in Ring(slot[e], uploadSlot)' : Covered(t, Behind(pc[e]))'
  BY DEF BufferInv
<1> HIDE DEF NextSlot
<1>4. PICK s \in Slot : s = NextSlot
  BY <1>2
<1>5. s \in Slot /\ uploadSlot' = s /\ slot'[c] = s /\ buffer'[s] = {c} /\ pc'[c] \in {"await", "ready"}
      /\ \A d \in Call \ {c} : slot'[d] = slot[d] /\ pc'[d] = pc[d]
      /\ \A t \in Slot \ {s} : buffer'[t] = buffer[t]
  BY <1>1, <1>2, <1>3, <1>4 DEF UploadOK
<1>6. e # c => Pending(e) /\ pc'[e] = pc'[c]
  <2>1. e # c => Pending(e) /\ pc'[e] = pc[e]
    BY <1>5 DEF Pending
  <2> QED  BY <1>1, <1>5, <2>1 DEF Queued, Pending
<1>7. Covered(s, Behind(pc[e]))'
  <2>1. pc'[c] \in Behind(pc'[e])
    BY <1>5, <1>6 DEF Behind
  <2> QED  BY <1>5, <2>1 DEF Covered
<1>8. e # c => slot[e] # s
  BY <1>4, <1>6, NotOverwritten
<1>9. buffer'[slot'[e]] = {e}
  <2>1. CASE e # c
    <3>1. slot[e] \in Slot /\ buffer[slot[e]] = {e}
      BY <1>1, <1>6, <2>1 DEF UploadOK, BufferInv
    <3> QED  BY <1>5, <1>8, <2>1, <3>1
  <2> QED  BY <1>5, <2>1
<1>10. ASSUME NEW t \in Ring(slot[e], uploadSlot)', t # s
       PROVE  Covered(t, Behind(pc[e]))'
  <2>1. t \in Slot
    BY <1>10 DEF Ring
  <2>2. CASE e = c
    <3>1. Ring(s, s) = {s}
      BY <1>1, <1>4, RingNext DEF UploadOK
    <3>2. Ring(slot[e], uploadSlot)' = Ring(s, s)
      BY <1>5, <2>2 DEF Ring
    <3> QED  BY <1>10, <3>1, <3>2
  <2>3. CASE e # c
    <3>1. slot[e] \in Slot
      BY <1>1 DEF UploadOK
    <3>2. Ring(slot[e], uploadSlot)' = Ring(slot[e], s)
      BY <1>5, <2>3 DEF Ring
    <3>3. t \in Ring(slot[e], uploadSlot)
      BY <1>1, <1>4, <1>10, <3>1, <3>2, RingNext DEF UploadOK
    <3>4. Covered(t, Behind(pc[e]))
      BY <1>1, <1>6, <2>3, <3>3 DEF BufferInv
    <3>5. PICK d \in Call \ Planar : pc[d] \in Behind(pc[e]) /\ slot[d] = t /\ buffer[t] = {d}
      BY <3>4 DEF Covered
    <3>6. d # c
      BY <3>5 DEF Behind
    <3> QED  BY <1>5, <1>10, <2>1, <2>3, <3>5, <3>6 DEF Covered
  <2> QED  BY <2>2, <2>3
<1> QED  BY <1>5, <1>7, <1>9, <1>10

LEMMA OthersKeep ==
  ASSUME UploadInv, NEW c \in Call, pc[c] \in {"new", "woken"}, pc[c] = "woken" => Turn(c)
  PROVE  /\ Others(c) \in Seq(Call)
         /\ \A d \in Call : pc[d] = "ready" => In(d, Others(c))
<1>1. micro \in Seq(Call) /\ Queued
  BY DEF UploadInv, UploadOK
<1>2. CASE pc[c] = "woken"
  <2>1. micro # <<>> /\ Head(micro) = c /\ Others(c) = Tail(micro)
    BY <1>2 DEF Turn, Others
  <2>2. Tail(micro) \in Seq(Call)
    BY <1>1, <2>1
  <2>3. ASSUME NEW d \in Call, pc[d] = "ready"
        PROVE  In(d, Tail(micro))
    <3>1. In(d, micro) /\ d # Head(micro)
      BY <1>1, <1>2, <2>1, <2>3 DEF Queued
    <3> QED  BY <1>1, <2>1, <3>1, InTail
  <2> QED  BY <2>1, <2>2, <2>3
<1>3. CASE pc[c] # "woken"
  BY <1>1, <1>3 DEF Others, Queued
<1> QED  BY <1>2, <1>3

\* A pass of the loop for a slot.
LEMMA TakeSlotUploads ==
  ASSUME UploadInv, NEW c \in Call, pc[c] \in {"new", "woken"}, pc[c] = "woken" => Turn(c),
         TakeSlot(c), UNCHANGED endpoint
  PROVE  UploadOK' /\ Queued' /\ BufferInv' /\ body' = body
<1>1. UploadOK /\ pc \in [Call -> Progress] /\ Queued /\ BufferInv
  BY DEF UploadInv, SlotInv
<1>2. Others(c) \in Seq(Call) /\ \A d \in Call : pc[d] = "ready" => In(d, Others(c))
  BY OthersKeep
<1> DEFINE others == Others(c)
<1>3. others \in Seq(Call) /\ \A d \in Call : pc[d] = "ready" => In(d, others)
  BY <1>2
<1>4. others = Others(c)
  OBVIOUS
<1> HIDE DEF others
<1>5. CASE /\ micro' = others /\ UNCHANGED <<uploadVars, awaiters>>
           /\ pc' = [pc EXCEPT ![c] = "failed"] \/ pc' = [pc EXCEPT ![c] = "parked"]
  <2>1. pc'[c] \in {"failed", "parked"} /\ \A d \in Call \ {c} : pc'[d] = pc[d]
    BY <1>1, <1>5
  <2>2. UploadOK' /\ body' = body
    BY <1>1, <1>3, <1>5 DEF UploadOK, uploadVars
  <2>3. Queued'
    BY <1>1, <1>3, <1>5, <2>1 DEF Queued
  <2>4. BufferInv'
    BY <1>5, <2>1, BuffersUntouched DEF Pending, uploadVars
  <2> QED  BY <2>2, <2>3, <2>4
<1>6. CASE Enter(c) /\ inFlight < MaxInFlight
  <2>1. body' = body /\ Claim(c)
    BY <1>6 DEF Enter
  <2>2. UNCHANGED <<uploadSlot, buffer, slot>> \/ c \notin Planar
    BY <2>1 DEF Claim
  <2>3. /\ uploadSlot' \in Slot /\ slot' \in [Call -> Slot] /\ buffer' \in [Slot -> SUBSET Call]
        /\ body' \in [Call -> SUBSET Call]
    BY <1>1, <2>1, Rotation DEF Claim, UploadOK
  <2>4. ASSUME NEW d \in Call \ {c}, pc' = [pc EXCEPT ![c] = pc'[c]]
        PROVE  pc'[d] = pc[d]
    BY <1>1, <2>4
  <2>5. CASE /\ pc' = [pc EXCEPT ![c] = "ready"] /\ endpoint # None
             /\ micro' = Append(others, c) /\ awaiters' = awaiters
    <3>1. pc'[c] = "ready" /\ \A d \in Call \ {c} : pc'[d] = pc[d]
      BY <1>1, <2>5
    <3>2. UploadOK'
      BY <1>1, <1>3, <2>3, <2>5, InAppend DEF UploadOK
    <3>3. Queued'
      BY <1>1, <1>3, <2>5, <3>1, InAppend DEF Queued
    <3>4. c \notin Planar => BufferInv'
      BY <1>4, <1>6, <2>1, <2>5, ClaimKeeps
    <3>5. c \in Planar => BufferInv'
      BY <2>1, <3>1, BuffersUntouched DEF Pending, Claim
    <3> QED  BY <2>1, <3>2, <3>3, <3>4, <3>5
  <2>6. CASE /\ pc' = [pc EXCEPT ![c] = "await"] /\ endpoint = None
             /\ micro' = others /\ awaiters' = Append(awaiters, c)
    <3>1. pc'[c] = "await" /\ \A d \in Call \ {c} : pc'[d] = pc[d]
      BY <1>1, <2>6
    <3>2. UploadOK'
      BY <1>1, <1>3, <2>3, <2>6, InAppend DEF UploadOK
    <3>3. Queued'
      BY <1>1, <1>3, <2>6, <3>1, InAppend DEF Queued, UploadOK
    <3>4. c \notin Planar => BufferInv'
      BY <1>4, <1>6, <2>1, <2>6, ClaimKeeps
    <3>5. c \in Planar => BufferInv'
      BY <2>1, <3>1, BuffersUntouched DEF Pending, Claim
    <3> QED  BY <2>1, <3>2, <3>3, <3>4, <3>5
  <2>7. CASE c \in Large /\ Oversize(c)
    <3>1. pc' = [pc EXCEPT ![c] = "failing"] /\ micro' = Append(others, c) /\ awaiters' = awaiters
      BY <1>4, <2>7 DEF Oversize
    <3>2. pc'[c] = "failing" /\ \A d \in Call \ {c} : pc'[d] = pc[d]
      BY <1>1, <3>1
    <3>3. UploadOK'
      BY <1>1, <1>3, <2>3, <3>1, InAppend DEF UploadOK
    <3>4. Queued'
      BY <1>1, <1>3, <3>1, <3>2, InAppend DEF Queued
    <3>5. c \in Planar
      BY <2>7, TransportAssumption
    <3>6. UNCHANGED <<uploadSlot, buffer, slot>>
      BY <2>1, <3>5 DEF Claim
    <3>7. BufferInv'
      BY <3>2, <3>6, BuffersUntouched DEF Pending
    <3> QED  BY <2>1, <3>3, <3>4, <3>7
  <2> QED  BY <1>4, <1>6, <2>5, <2>6, <2>7 DEF Enter, EnsureEndpoint
<1> QED  BY <1>4, <1>5, <1>6 DEF TakeSlot

\* A call gives its slot back: the next turn is not the one of a call that has yet to post,
\* or nobody has.
LEMMA ReleaseUploads ==
  ASSUME UploadInv, NEW c \in Call, NEW outcome \in Settled, Release(c, outcome),
         \/ pc[c] = "failing" /\ Turn(c) /\ endpoint' = endpoint
         \/ pc[c] = "posted" /\ Checkpoint /\ (endpoint' = endpoint \/ endpoint' = None),
         UNCHANGED <<uploadVars, awaiters>>
  PROVE  UploadOK' /\ Queued' /\ BufferInv'
<1>1. UploadOK /\ pc \in [Call -> Progress] /\ Queued /\ BufferInv /\ waiters \in Seq(Call) /\ Lined
  BY DEF UploadInv, SlotInv
<1>2. /\ pc'[c] = outcome
      /\ \A d \in Call \ {c} : pc'[d] = pc[d] \/ (pc[d] = "parked" /\ pc'[d] = "woken")
  <2>1. waiters # <<>> => /\ Head(waiters) \in Call /\ Head(waiters) # c
                          /\ pc[Head(waiters)] = "parked"
    BY <1>1 DEF Lined
  <2> QED  BY <1>1, <2>1 DEF Release
<1> DEFINE rest == IF pc[c] = "failing" THEN Tail(micro) ELSE micro
<1>3. rest \in Seq(Call) /\ \A d \in Call : pc[d] = "ready" => In(d, rest)
  <2>1. CASE pc[c] = "failing" /\ Turn(c)
    <3>1. micro \in Seq(Call) /\ micro # <<>> /\ Head(micro) = c
      BY <1>1, <2>1 DEF Turn, UploadOK
    <3> QED  BY <1>1, <2>1, <3>1, InTail DEF Queued
  <2>2. CASE pc[c] = "posted" /\ Checkpoint
    BY <1>1, <2>2 DEF UploadOK, Queued
  <2> QED  BY <2>1, <2>2
<1>4. micro' = rest \/ (waiters # <<>> /\ micro' = Append(rest, Head(waiters)))
  BY DEF Release
<1>5. waiters # <<>> => Head(waiters) \in Call
  BY <1>1
<1> HIDE DEF rest
<1>6. micro' \in Seq(Call) /\ \A d \in Call : pc[d] = "ready" => In(d, micro')
  BY <1>3, <1>4, <1>5, InAppend
<1>7. UploadOK'
  BY <1>1, <1>6 DEF UploadOK, uploadVars
<1>8. Checkpoint => \A d \in Call : pc[d] # "ready"
  BY <1>1 DEF Queued, Checkpoint, In
<1>9. Queued'
  <2>1. \A d \in Call : /\ pc'[d] = "ready" => pc[d] = "ready"
                        /\ pc'[d] = "await" => pc[d] = "await"
    BY <1>2 DEF Settled
  <2>2. (\E d \in Call : pc[d] = "ready") => endpoint' = endpoint
    BY <1>8
  <2> QED  BY <1>1, <1>6, <2>1, <2>2 DEF Queued
<1>10. BufferInv'
  <2>1. \A d \in Call : /\ Pending(d) => pc'[d] = pc[d]
                        /\ Pending(d)' => Pending(d)
                        /\ pc[d] = "posted" => pc'[d] = "posted" \/ \A e \in Call : pc[e] # "ready"
    BY <1>2, <1>8 DEF Pending, Settled
  <2> QED  BY <2>1, BuffersUntouched DEF uploadVars
<1> QED  BY <1>7, <1>9, <1>10

LEMMA NobodyReady == ASSUME Queued, Checkpoint PROVE \A c \in Call : pc[c] # "ready"
  BY DEF Queued, Checkpoint, In

\* Steps of a client that has no buffer to lose.
LEMMA ClientUploads ==
  ASSUME UploadInv, NEW c \in Call, Run(c) \/ Recheck(c) \/ Refuse(c)
  PROVE  UploadOK' /\ Queued' /\ BufferInv' /\ body' = body
<1>1. UploadOK /\ pc \in [Call -> Progress] /\ Queued
  BY DEF UploadInv, SlotInv
<1>2. CASE pc[c] = "new" /\ TakeSlot(c) /\ endpoint' = endpoint
  BY <1>2, TakeSlotUploads
<1>3. CASE pc[c] = "woken" /\ Turn(c) /\ TakeSlot(c) /\ endpoint' = endpoint
  BY <1>3, TakeSlotUploads
<1>4. CASE /\ pc[c] = "new" /\ pc' = [pc EXCEPT ![c] = "failed"]
           /\ UNCHANGED <<slotVars, awaiters, uploadVars, endpoint>>
  <2>1. pc'[c] = "failed" /\ \A d \in Call \ {c} : pc'[d] = pc[d]
    BY <1>1, <1>4
  <2>2. UploadOK' /\ body' = body
    BY <1>1, <1>4 DEF UploadOK, slotVars, uploadVars
  <2>3. Queued'
    BY <1>1, <1>4, <2>1 DEF Queued, slotVars
  <2>4. BufferInv'
    BY <1>4, <2>1, BuffersUntouched DEF Pending, uploadVars
  <2> QED  BY <2>2, <2>3, <2>4
<1>5. CASE Refuse(c)
  <2>1. UploadOK' /\ Queued' /\ BufferInv'
    BY <1>5, ReleaseUploads DEF Refuse, Settled
  <2> QED  BY <1>5, <2>1 DEF Refuse, uploadVars
<1> QED  BY <1>2, <1>3, <1>4, <1>5 DEF Run, Recheck

\* A POST carries what its buffer holds.
LEMMA PostUploads ==
  ASSUME UploadInv, NEW c \in Call, Post(c)
  PROVE  UploadOK' /\ Queued' /\ BufferInv' /\ BodyIsOwn'
<1>1. UploadOK /\ pc \in [Call -> Progress] /\ Queued /\ BufferInv /\ BodyIsOwn
  BY DEF UploadInv, SlotInv
<1>2. /\ pc[c] = "ready" /\ Turn(c) /\ micro' = Tail(micro)
      /\ pc' = [pc EXCEPT ![c] = "posted"]
      /\ body' = [body EXCEPT ![c] = IF c \in Planar THEN {c} ELSE buffer[slot[c]]]
      /\ UNCHANGED <<awaiters, uploadSlot, buffer, slot, endpoint>>
  BY DEF Post
<1>3. pc'[c] = "posted" /\ \A d \in Call \ {c} : pc'[d] = pc[d]
  BY <1>1, <1>2
<1>4. micro \in Seq(Call) /\ micro # <<>> /\ Head(micro) = c /\ Tail(micro) \in Seq(Call)
  BY <1>1, <1>2 DEF UploadOK, Turn
<1>5. c \notin Planar => buffer[slot[c]] = {c}
  BY <1>1, <1>2 DEF BufferInv, Pending
<1>6. body'[c] = {c} /\ body' \in [Call -> SUBSET Call] /\ \A d \in Call \ {c} : body'[d] = body[d]
  BY <1>1, <1>2, <1>5 DEF UploadOK
<1>7. UploadOK' /\ BodyIsOwn'
  BY <1>1, <1>2, <1>4, <1>6 DEF UploadOK, BodyIsOwn
<1>8. Queued'
  <2>1. \A d \in Call : pc'[d] = "ready" => In(d, Tail(micro))
    BY <1>1, <1>3, <1>4, InTail DEF Queued
  <2> QED  BY <1>1, <1>2, <1>3, <2>1 DEF Queued
<1>9. BufferInv'
  <2> SUFFICES ASSUME NEW d \in Call, Pending(d)'
               PROVE  /\ buffer[slot[d]] = {d}
                      /\ \A t \in Ring(slot[d], uploadSlot)' : Covered(t, Behind(pc[d]))'
    BY <1>2 DEF BufferInv
  <2>1. d # c /\ pc'[d] = pc[d] /\ Pending(d)
    BY <1>3 DEF Pending
  <2>2. Ring(slot[d], uploadSlot)' = Ring(slot[d], uploadSlot)
    BY <1>2 DEF Ring
  <2>3. ASSUME NEW t \in Ring(slot[d], uploadSlot)
        PROVE  Covered(t, Behind(pc[d]))'
    <3>1. PICK e \in Call \ Planar : pc[e] \in Behind(pc[d]) /\ slot[e] = t /\ buffer[t] = {e}
      BY <1>1, <2>1, <2>3 DEF BufferInv, Covered
    <3>2. pc'[e] \in Behind(pc'[d])
      BY <1>2, <1>3, <2>1, <3>1 DEF Behind
    <3> QED  BY <1>2, <3>1, <3>2 DEF Covered
  <2> QED  BY <1>1, <2>1, <2>2, <2>3 DEF BufferInv
<1> QED  BY <1>7, <1>8, <1>9

\* The endpoint's query settles, and the client is disposed.
LEMMA ResolveUploads ==
  ASSUME UploadInv, Checkpoint, NEW info, Resolve(info)
  PROVE  UploadOK' /\ Queued' /\ BufferInv' /\ body' = body
<1>1. UploadOK /\ pc \in [Call -> Progress] /\ Queued /\ BufferInv
  BY DEF UploadInv, SlotInv
<1>2. /\ endpoint' = IF info # None THEN info ELSE endpoint
      /\ pc' = [d \in Call |-> IF pc[d] # "await" THEN pc[d]
                               ELSE IF info # None THEN "ready" ELSE "failing"]
      /\ micro' = awaiters /\ awaiters' = <<>>
      /\ UNCHANGED <<uploadSlot, buffer, slot, body>>
  BY DEF Resolve, uploadVars
<1>3. \A d \in Call : pc[d] # "ready"
  BY <1>1, NobodyReady
<1>4. UploadOK'
  BY <1>1, <1>2 DEF UploadOK
<1>5. \A d \in Call : /\ pc'[d] # "await"
                      /\ pc'[d] = "ready" => pc[d] = "await" /\ info # None
  BY <1>2, <1>3
<1>6. Queued'
  BY <1>1, <1>2, <1>5 DEF Queued
<1>7. BufferInv'
  <2> SUFFICES ASSUME NEW d \in Call, Pending(d)'
               PROVE  /\ buffer[slot[d]] = {d}
                      /\ \A t \in Ring(slot[d], uploadSlot)' : Covered(t, Behind(pc[d]))'
    BY <1>2 DEF BufferInv
  <2>1. pc[d] = "await" /\ pc'[d] = "ready" /\ info # None /\ Pending(d)
    BY <1>5 DEF Pending
  <2>2. Ring(slot[d], uploadSlot)' = Ring(slot[d], uploadSlot)
    BY <1>2 DEF Ring
  <2>3. ASSUME NEW t \in Ring(slot[d], uploadSlot)
        PROVE  Covered(t, Behind(pc[d]))'
    <3>1. PICK e \in Call \ Planar : pc[e] \in Behind(pc[d]) /\ slot[e] = t /\ buffer[t] = {e}
      BY <1>1, <2>1, <2>3 DEF BufferInv, Covered
    <3>2. pc'[e] \in Behind(pc'[d])
      BY <1>2, <2>1, <3>1 DEF Behind
    <3> QED  BY <1>2, <3>1, <3>2 DEF Covered
  <2> QED  BY <1>1, <2>1, <2>2, <2>3 DEF BufferInv
<1> QED  BY <1>2, <1>4, <1>6, <1>7

LEMMA DisposeUploads ==
  ASSUME UploadInv, Dispose
  PROVE  UploadOK' /\ Queued' /\ BufferInv' /\ body' = body
<1>1. UploadOK /\ pc \in [Call -> Progress] /\ Queued /\ BufferInv /\ waiters \in Seq(Call)
  BY DEF UploadInv, SlotInv
<1>2. /\ endpoint' = None /\ micro' = waiters /\ awaiters' = awaiters
      /\ pc' = [d \in Call |-> IF pc[d] = "parked" THEN "woken" ELSE pc[d]]
      /\ UNCHANGED <<uploadSlot, buffer, slot, body>> /\ Checkpoint
  BY DEF Dispose, uploadVars
<1>3. \A d \in Call : pc[d] # "ready"
  BY <1>1, <1>2, NobodyReady
<1>4. UploadOK'
  BY <1>1, <1>2 DEF UploadOK
<1>5. \A d \in Call : pc'[d] = pc[d] \/ (pc[d] = "parked" /\ pc'[d] = "woken")
  BY <1>2
<1>6. Queued'
  BY <1>1, <1>2, <1>3, <1>5 DEF Queued
<1>7. BufferInv'
  BY <1>2, <1>5, BuffersUntouched DEF Pending
<1> QED  BY <1>2, <1>4, <1>6, <1>7

LEMMA UploadStep == ASSUME UploadInv, [Next]_vars PROVE UploadInv'
<1>1. SlotInv' /\ UploadOK /\ Queued /\ BufferInv /\ BodyIsOwn
  BY SlotStep DEF UploadInv
<1>2. ASSUME UploadOK', Queued', BufferInv', body' = body
      PROVE  UploadInv'
  BY <1>1, <1>2 DEF UploadInv, BodyIsOwn
<1>3. ASSUME NEW c \in Call, ClientStep(c) \/ HostStep(c)
      PROVE  UploadInv'
  <2>1. CASE Run(c) \/ Recheck(c) \/ Refuse(c)
    BY <1>2, <2>1, ClientUploads
  <2>2. CASE Post(c)
    BY <1>1, <2>2, PostUploads DEF UploadInv
  <2>3. CASE Serve(c) \/ Fail(c) \/ Reject(c)
    <3>1. PICK outcome \in Settled : Release(c, outcome)
      BY <2>3 DEF Serve, Fail, Reject, Settled
    <3>2. /\ pc[c] = "posted" /\ Checkpoint /\ (endpoint' = endpoint \/ endpoint' = None)
          /\ UNCHANGED <<uploadVars, awaiters>>
      BY <2>3 DEF Serve, Fail, Reject
    <3>3. UploadOK' /\ Queued' /\ BufferInv'
      BY <3>1, <3>2, ReleaseUploads
    <3> QED  BY <1>2, <3>2, <3>3 DEF uploadVars
  <2> QED  BY <1>3, <2>1, <2>2, <2>3 DEF ClientStep, HostStep
<1>4. CASE QueryReplied \/ QueryLost
  BY <1>2, <1>4, ResolveUploads DEF QueryReplied, QueryLost
<1>5. CASE Dispose
  BY <1>2, <1>5, DisposeUploads
<1>6. CASE UNCHANGED <<slotVars, awaiters, pc, uploadVars, endpoint>>
  <2>1. UploadOK' /\ Queued' /\ body' = body
    BY <1>1, <1>6 DEF UploadOK, Queued, slotVars, uploadVars
  <2>2. BufferInv'
    BY <1>6, BuffersUntouched DEF Pending, uploadVars
  <2> QED  BY <1>2, <2>1, <2>2
<1>7. CASE \/ Create \/ Get \/ GetElsewhere \/ ShakeReady \/ ShakeFailed \/ InfoExpires
           \/ (\E h \in Host : PortGone(h) \/ HostExits(h)) \/ UNCHANGED vars
  BY <1>6, <1>7 DEF Create, Get, GetElsewhere, ShakeReady, ShakeFailed, InfoExpires, PortGone,
     HostExits, clientVars, vars
<1> QED  BY <1>3, <1>4, <1>5, <1>7 DEF Next

\* realesrgan-native-vulkan-client.ts:353-361. However many frames are in flight, and in
\* whatever order their requests end, no POST carries the bytes of another frame: a buffer
\* is claimed inside a slot of the limit, there are as many buffers as slots, and a call that
\* has yet to post has kept every buffer the rotation went over since.
THEOREM BodiesCorrect == Spec => []BodyIsOwn
<1>1. Init => UploadInv
  <2> SUFFICES ASSUME Init PROVE UploadInv
    OBVIOUS
  <2>1. SlotInv
    BY InitSlots
  <2>2. 0 \in Slot
    BY TransportAssumption DEF Slot
  <2>3. UploadOK
    BY <2>2 DEF Init, UploadOK, None, Empty
  <2>4. Queued /\ BufferInv
    BY DEF Init, Queued, BufferInv, Pending
  <2>5. BodyIsOwn
    BY DEF Init, BodyIsOwn, Empty
  <2> QED  BY <2>1, <2>3, <2>4, <2>5 DEF UploadInv
<1>2. UploadInv /\ [Next]_vars => UploadInv'
  BY UploadStep
<1>3. UploadInv => BodyIsOwn
  BY DEF UploadInv
<1> QED  BY <1>1, <1>2, <1>3, PTL DEF Spec

-----------------------------------------------------------------------------
(***************************************************************************)
(* The Linux host at the other end of the transport, in a model of its     *)
(* own: it uses its GPU from one thread at a time, and takes it down only  *)
(* when nobody can come to it any more, for any budgets, any number of     *)
(* pieces a message arrives in, and any page.                              *)
(***************************************************************************)

USE LinuxHostAssumption

Mains == [step : MainSteps, left : 0..IdleBudget, got : 0..MaxPieces]
Https == [step : HttpSteps, left : 0..RequestBudget, held : 0..LineCap, rest : 0..MaxBody,
          keep : BOOLEAN, frame : BOOLEAN]
Gpus == [owner : {"none", "main", "http"}, engine : Engines \cup {"none"}, clone : BOOLEAN]
Weights == [latched : BOOLEAN, written : BOOLEAN]

\* What the steps of one part make of it.
LEMMA AtType ==
  ASSUME NEW step \in MainSteps
  PROVE  At(step) \in Mains /\ At(step).step = step /\ At(step).got = 0
  BY DEF At, Mains

\* A connection with other contents.
LEMMA HttpWith ==
  ASSUME NEW r \in Https
  PROVE  /\ \A s \in HttpSteps : [r EXCEPT !.step = s] \in Https /\ [r EXCEPT !.step = s].step = s
         /\ \A n \in 0..LineCap : [r EXCEPT !.held = n] \in Https
                                 /\ [r EXCEPT !.held = n].step = r.step
         /\ \A n \in 0..MaxBody : [r EXCEPT !.rest = n] \in Https
                                 /\ [r EXCEPT !.rest = n].step = r.step
         /\ \A n \in 0..RequestBudget : [r EXCEPT !.left = n] \in Https
                                       /\ [r EXCEPT !.left = n].step = r.step
         /\ \A k \in BOOLEAN : [r EXCEPT !.keep = k] \in Https /\ [r EXCEPT !.keep = k].step = r.step
         /\ \A k \in BOOLEAN : [r EXCEPT !.frame = k] \in Https
                              /\ [r EXCEPT !.frame = k].step = r.step
  BY DEF Https

LEMMA ServedType ==
  ASSUME NEW step \in HttpSteps
  PROVE  /\ Served(step) \in Https /\ Served(step).step = step
         /\ \A k \in BOOLEAN : /\ [Served(step) EXCEPT !.keep = k] \in Https
                               /\ [Served(step) EXCEPT !.keep = k].step = step
<1>1. Served(step) \in Https /\ Served(step).step = step
  BY DEF Served, Https
<1> DEFINE r == Served(step)
<1> HIDE DEF r
<1>2. ASSUME NEW k \in BOOLEAN
      PROVE  [r EXCEPT !.keep = k] \in Https /\ [r EXCEPT !.keep = k].step = step
  BY <1>1, HttpWith DEF r
<1> QED  BY <1>1, <1>2 DEF r

LEMMA NextRequestType ==
  NextRequest \in Https /\ NextRequest.step = "line"
<1>1. "line" \in HttpSteps
  BY DEF HttpSteps, Reading
<1>2. RequestBudget \in 0..RequestBudget
  OBVIOUS
<1> QED  BY <1>1, <1>2, ServedType, HttpWith DEF NextRequest

LEMMA WeightsType ==
  ASSUME NEW w \in Weights, NEW f, f.clone \in BOOLEAN, NEW end \in Ends, NEW engine \in Engines
  PROVE  Latched(w, engine) \in Weights /\ After(w, f, end) \in Weights
         /\ Records(w, engine) \in BOOLEAN
<1>1. Latched(w, engine) \in Weights
  BY DEF Latched, Weights
<1>2. After(w, f, end) \in Weights
  BY DEF After, Weights, NoWeights, Ends
<1>3. Records(w, engine) \in BOOLEAN
  BY DEF Records, Weights
<1> QED  BY <1>1, <1>2, <1>3

-----------------------------------------------------------------------------
(* Types                                                                   *)

\* The types, by part.
MainOK == main \in Mains
HttpOK == http \in Https
GpuOK == gpu \in Gpus /\ weights \in Weights
NumbersOK ==
  /\ peer \in {"none", "reading", "deaf", "gone"}
  /\ listener \in {"none", "open", "closed"}
  /\ idle \in 0..IdleBudget
FlagsOK ==
  /\ shut \in BOOLEAN /\ connFd \in BOOLEAN /\ stopping \in BOOLEAN /\ gpuUp \in BOOLEAN
RestOK == NumbersOK /\ FlagsOK

HostTypeInv == HostTypeOK

LEMMA HostTypes == HostTypeOK <=> MainOK /\ HttpOK /\ GpuOK /\ RestOK
  BY DEF HostTypeOK, MainOK, HttpOK, GpuOK, RestOK, NumbersOK, FlagsOK, Mains, Https, Gpus, Weights

\* Every step of the main thread leaves it where the types allow.
LEMMA MainTypes ==
  ASSUME MainOK, HttpOK, GpuOK, RestOK, HostNext
  PROVE  MainOK'
<1> USE DEF MainSteps
<1>1. CASE InitDevice \/ LoadModels
  BY <1>1, AtType DEF InitDevice, LoadModels, MainOK
<1>2. CASE WarmFrame
  <2>1. [main EXCEPT !.got = 1] \in Mains
    BY DEF MainOK, Mains
  <2> QED  BY <1>2, <2>1, AtType DEF WarmFrame, MainOK
<1>3. CASE WarmupSkipped \/ StartHttp \/ PollTimedOut \/ BrowserGone \/ ReadTimedOut
           \/ ReadOversize \/ ReadMessage \/ MainSubmits \/ StopListening \/ Hangup
           \/ Join \/ ShutDown \/ MainRecords
  BY <1>3, AtType
  DEF WarmupSkipped, StartHttp, PollTimedOut, BrowserGone, ReadTimedOut, ReadOversize,
      ReadMessage, MainSubmits, StopListening, Hangup, Join, ShutDown, MainRecords,
      MainOK
<1>4. CASE LoopCheck
  <2>1. idle < IdleBudget => [At("poll") EXCEPT !.left = IdleBudget - idle] \in Mains
    BY DEF At, Mains, RestOK, NumbersOK
  <2>2. idle < IdleBudget \/ idle >= IdleBudget
    BY DEF RestOK, NumbersOK
  <2> QED  BY <1>4, <2>1, <2>2, AtType DEF LoopCheck, MainOK
<1>5. CASE PollReady \/ ReadPiece
  BY <1>5 DEF PollReady, ReadPiece, MainOK, Mains
<1>6. CASE HttpStep \/ PeerChanges \/ Accept \/ LinePiece \/ RequestLine \/ HeaderLine
           \/ HeadersEnd \/ BodyPiece
  <2>1. UNCHANGED main
    BY <1>6 DEF HttpStep, AcceptEnds, Store, RequestLineFails, HeadersEnd, BodyFails,
       BodyDone, HttpRecords, HttpSubmits, ReplyEnds, ConnEnds, PeerChanges, Accept,
       LinePiece, RequestLine, HeaderLine, BodyPiece
  <2> QED  BY <2>1 DEF MainOK
<1>7. CASE Tick
  BY <1>7 DEF Tick, Less, MainOK, Mains
<1> QED
  BY <1>1, <1>2, <1>3, <1>4, <1>5, <1>6, <1>7 DEF HostNext, MainStep, HttpStep, Outside

\* What the accept thread has read goes into its record.
LEMMA HttpReads ==
  ASSUME HttpOK
  PROVE  /\ [http EXCEPT !.step = "headers", !.held = 0] \in Https
         /\ \A keep \in BOOLEAN, rest \in 0..MaxBody :
              [http EXCEPT !.step = "body", !.held = 0, !.rest = rest, !.keep = keep] \in Https
<1>1. "headers" \in HttpSteps /\ "body" \in HttpSteps
  BY DEF HttpSteps, Reading
<1>2. 0 \in 0..LineCap
  OBVIOUS
<1>3. [http EXCEPT !.step = "headers", !.held = 0] \in Https
  <2> DEFINE r == [http EXCEPT !.step = "headers"]
  <2>1. r \in Https
    BY <1>1, HttpWith DEF HttpOK
  <2>2. [r EXCEPT !.held = 0] \in Https
    BY <1>2, <2>1, HttpWith
  <2> QED  BY <2>2
<1>4. ASSUME NEW keep \in BOOLEAN, NEW rest \in 0..MaxBody
      PROVE  [http EXCEPT !.step = "body", !.held = 0, !.rest = rest, !.keep = keep] \in Https
  <2> DEFINE a == [http EXCEPT !.step = "body"]
             b == [a EXCEPT !.held = 0]
             c == [b EXCEPT !.rest = rest]
  <2>1. a \in Https
    BY <1>1, HttpWith DEF HttpOK
  <2>2. b \in Https
    BY <1>2, <2>1, HttpWith
  <2>3. c \in Https
    BY <2>2, HttpWith
  <2>4. [c EXCEPT !.keep = keep] \in Https
    BY <2>3, HttpWith
  <2> QED  BY <2>4
<1> QED  BY <1>3, <1>4

\* And every step of the accept thread.
LEMMA HttpTypes ==
  ASSUME MainOK, HttpOK, GpuOK, RestOK, HostNext
  PROVE  HttpOK'
<1> USE DEF HttpSteps, Reading
<1>1. CASE StartHttp \/ Accept \/ AcceptEnds \/ RequestLineFails \/ BodyFails
  BY <1>1, ServedType DEF StartHttp, Accept, AcceptEnds, RequestLineFails, BodyFails,
     HttpOK
<1>2. CASE Store \/ ReplyEnds \/ ConnEnds
  BY <1>2, ServedType, NextRequestType DEF Store, ReplyEnds, ConnEnds, HttpOK
<1>3. CASE LinePiece \/ HeaderLine \/ BodyPiece \/ HttpRecords
  BY <1>3 DEF LinePiece, HeaderLine, BodyPiece, HttpRecords, CanFill, HttpOK, Https
<1>4. CASE RequestLine
  BY <1>4, HttpReads, ServedType DEF RequestLine, HttpOK
<1>5. CASE HeadersEnd
  <2>1. Served("reply") \in Https /\ \A k \in BOOLEAN : [Served("reply") EXCEPT !.keep = k] \in Https
    BY ServedType
  <2>2. \/ \E keep \in BOOLEAN : http' = [Served("reply") EXCEPT !.keep = keep]
        \/ http' = Served("reply")
        \/ \E keep \in BOOLEAN, rest \in 0..MaxBody :
             http' = [http EXCEPT !.step = "body", !.held = 0, !.rest = rest, !.keep = keep]
    BY <1>5 DEF HeadersEnd
  <2>3. ASSUME NEW keep \in BOOLEAN, NEW rest \in 0..MaxBody
        PROVE  [http EXCEPT !.step = "body", !.held = 0, !.rest = rest, !.keep = keep] \in Https
    BY HttpReads
  <2> QED  BY <2>1, <2>2, <2>3, Zenon DEF HttpOK
<1>6. CASE BodyDone
  <2>1. http.keep \in BOOLEAN
    BY DEF HttpOK, Https
  <2> QED  BY <1>6, <2>1, ServedType DEF BodyDone, HttpOK
<1>7. CASE HttpSubmits
  <2>1. [http EXCEPT !.step = "reply", !.frame = TRUE] \in Https
    BY DEF HttpOK, Https
  <2> QED  BY <1>7, <2>1, ServedType DEF HttpSubmits, HttpOK
<1>8. CASE Tick
  BY <1>8 DEF Tick, Less, HttpOK, Https
<1>9. CASE PeerChanges \/ (MainStep /\ ~StartHttp) \/ WarmupSkipped \/ PollReady \/ BrowserGone
           \/ ReadPiece \/ ReadOversize \/ ReadMessage
  <2>1. UNCHANGED http
    BY <1>9 DEF PeerChanges, MainStep, InitDevice, LoadModels, WarmFrame, LoopCheck,
       PollTimedOut, ReadTimedOut, MainRecords, MainSubmits, StopListening, Hangup,
       Join, ShutDown, WarmupSkipped, PollReady, BrowserGone, ReadPiece,
       ReadOversize, ReadMessage, connVars
  <2> QED  BY <2>1 DEF HttpOK
<1> QED
  BY <1>1, <1>2, <1>3, <1>4, <1>5, <1>6, <1>7, <1>8, <1>9 DEF HostNext, HttpStep, Outside

\* The GPU and its weights change with a frame and at the end only.
LEMMA GpuTypes ==
  ASSUME GpuOK, HostNext
  PROVE  GpuOK'
<1>1. ASSUME NEW thread \in {"main", "http"}, Record(thread)
      PROVE  GpuOK'
  <2>1. PICK engine \in Engines :
          /\ gpu' = [owner |-> thread, engine |-> engine, clone |-> Records(weights, engine)]
          /\ weights' = Latched(weights, engine)
    BY <1>1 DEF Record
  <2>2. Records(weights, engine) \in BOOLEAN /\ Latched(weights, engine) \in Weights
    BY DEF GpuOK, Records, Latched, Weights
  <2> DEFINE c == Records(weights, engine)
  <2> HIDE DEF c
  <2>3. gpu' = [owner |-> thread, engine |-> engine, clone |-> c]
    BY <2>1 DEF c
  <2>4. c \in BOOLEAN
    BY <2>2 DEF c
  <2>5. gpu' \in Gpus
    BY <2>3, <2>4 DEF Gpus
  <2> QED  BY <2>1, <2>2, <2>5 DEF GpuOK
<1>2. Free \in Gpus /\ NoWeights \in Weights
  BY DEF Free, Gpus, NoWeights, Weights
<1>3. ASSUME NEW thread \in {"main", "http"}, NEW end \in Ends, Submit(thread, end)
      PROVE  GpuOK'
  <2>1. After(weights, gpu, end) \in Weights
    BY WeightsType DEF GpuOK, Gpus, Engines
  <2> QED  BY <1>2, <1>3, <2>1 DEF Submit, GpuOK
<1>4. CASE MainRecords \/ HttpRecords
  BY <1>1, <1>4 DEF MainRecords, HttpRecords
<1>5. CASE MainSubmits \/ HttpSubmits
  BY <1>3, <1>5 DEF MainSubmits, HttpSubmits
<1>6. CASE WarmFrame
  <2>1. PICK engine \in Engines, end \in Ends :
          weights' = After(Latched(weights, engine),
                           [engine |-> engine, clone |-> Records(weights, engine)], end)
    BY <1>6 DEF WarmFrame
  <2> DEFINE c == Records(weights, engine)
             f == [engine |-> engine, clone |-> c]
             w == Latched(weights, engine)
  <2>2. c \in BOOLEAN /\ w \in Weights
    BY DEF GpuOK, Records, Latched, Weights
  <2> HIDE DEF c, w
  <2>3. f.clone \in BOOLEAN
    BY <2>2
  <2> HIDE DEF f
  <2>4. weights' = After(w, f, end)
    BY <2>1, Zenon DEF w, f, c
  <2>5. weights' \in Weights
    BY <2>2, <2>3, <2>4, WeightsType
  <2> QED  BY <1>6, <2>5 DEF WarmFrame, GpuOK
<1>7. CASE ShutDown
  BY <1>2, <1>7 DEF ShutDown, GpuOK
<1>8. CASE UNCHANGED gpuVars
  BY <1>8 DEF GpuOK, gpuVars
<1> QED
  BY <1>4, <1>5, <1>6, <1>7, <1>8
  DEF HostNext, MainStep, HttpStep, Outside, InitDevice, LoadModels, StartHttp,
      LoopCheck, PollTimedOut, ReadTimedOut, StopListening, Hangup, Join,
      AcceptEnds, Store, RequestLineFails, HeadersEnd, BodyFails, BodyDone,
      ReplyEnds, ConnEnds, WarmupSkipped, PollReady, BrowserGone, ReadPiece,
      ReadOversize, ReadMessage, Accept, LinePiece, RequestLine, HeaderLine,
      BodyPiece, PeerChanges, Tick

LEMMA RestTypes ==
  ASSUME RestOK, HostNext
  PROVE  RestOK'
<1>1. NumbersOK'
  <2> USE DEF RestOK, NumbersOK, mainVars, connVars
  <2>1. CASE MainStep
    BY <2>1 DEF MainStep, InitDevice, LoadModels, WarmFrame, StartHttp, LoopCheck,
       PollTimedOut, ReadTimedOut, MainRecords, MainSubmits, StopListening, Hangup,
       Join, ShutDown
  <2>2. CASE HttpStep
    <3>1. CASE HttpSubmits
      BY <3>1 DEF HttpSubmits
    <3>2. CASE ~HttpSubmits
      <4>1. UNCHANGED <<listener, idle>> /\ peer' \in {peer, "none"}
        BY <2>2, <3>2 DEF HttpStep, AcceptEnds, Store, RequestLineFails, HeadersEnd,
           BodyFails, BodyDone, HttpRecords, ReplyEnds, ConnEnds
      <4> QED  BY <4>1
    <3> QED  BY <3>1, <3>2
  <2>3. CASE Outside
    <3>1. UNCHANGED listener
      BY <2>3 DEF Outside, WarmupSkipped, PollReady, BrowserGone, ReadPiece,
         ReadOversize, ReadMessage, Accept, LinePiece, RequestLine, HeaderLine,
         HeadersEnd, BodyPiece, PeerChanges
    <3>2. idle' = 0 \/ UNCHANGED idle
      BY <2>3 DEF Outside, WarmupSkipped, PollReady, BrowserGone, ReadPiece,
         ReadOversize, ReadMessage, Accept, LinePiece, RequestLine, HeaderLine,
         HeadersEnd, BodyPiece, PeerChanges
    <3>3. peer' = peer \/ peer' \in {"reading", "deaf", "gone"}
      BY <2>3 DEF Outside, WarmupSkipped, PollReady, BrowserGone, ReadPiece,
         ReadOversize, ReadMessage, Accept, LinePiece, RequestLine, HeaderLine,
         HeadersEnd, BodyPiece, PeerChanges
    <3> QED  BY <3>1, <3>2, <3>3
  <2>4. CASE Tick
    BY <2>4 DEF Tick
  <2> QED  BY <2>1, <2>2, <2>3, <2>4 DEF HostNext
<1>2. FlagsOK'
  <2>1. CASE LoadModels
    BY <2>1, Zenon DEF LoadModels, RestOK, FlagsOK, connVars
  <2>2. CASE StartHttp \/ WarmFrame \/ InitDevice \/ LoopCheck \/ PollTimedOut \/ ReadTimedOut
             \/ MainRecords \/ MainSubmits \/ Join
    BY <2>2 DEF StartHttp, WarmFrame, InitDevice, LoopCheck, PollTimedOut,
       ReadTimedOut, MainRecords, MainSubmits, Join, RestOK, FlagsOK, mainVars,
       connVars
  <2>3. CASE StopListening
    BY <2>3 DEF StopListening, RestOK, FlagsOK, connVars
  <2>4. CASE Hangup
    BY <2>4 DEF Hangup, RestOK, FlagsOK, mainVars
  <2>5. CASE ShutDown
    BY <2>5 DEF ShutDown, RestOK, FlagsOK, connVars
  <2>6. CASE HttpStep
    BY <2>6 DEF HttpStep, AcceptEnds, Store, RequestLineFails, HeadersEnd, BodyFails,
       BodyDone, HttpRecords, HttpSubmits, ReplyEnds, ConnEnds, RestOK, FlagsOK,
       mainVars
  <2>7. CASE Outside \/ Tick
    BY <2>7 DEF Outside, WarmupSkipped, PollReady, BrowserGone, ReadPiece,
       ReadOversize, ReadMessage, Accept, LinePiece, RequestLine, HeaderLine,
       HeadersEnd, BodyPiece, PeerChanges, Tick, RestOK, FlagsOK, mainVars, connVars
  <2> QED  BY <2>1, <2>2, <2>3, <2>4, <2>5, <2>6, <2>7 DEF HostNext, MainStep
<1> QED  BY <1>1, <1>2 DEF RestOK

LEMMA HostTypeInit == HostInit => HostTypeInv
<1> SUFFICES ASSUME HostInit PROVE MainOK /\ HttpOK /\ GpuOK /\ RestOK
  BY HostTypes DEF HostTypeInv
<1>1. MainOK /\ HttpOK
  BY AtType, ServedType DEF HostInit, MainOK, HttpOK, MainSteps, HttpSteps
<1>2. GpuOK
  BY DEF HostInit, GpuOK, Gpus, Weights, Free, NoWeights
<1>3. NumbersOK
  BY DEF HostInit, NumbersOK
<1>4. FlagsOK
  BY DEF HostInit, FlagsOK
<1> QED  BY <1>1, <1>2, <1>3, <1>4 DEF RestOK

LEMMA HostTypeStep == HostTypeInv /\ [HostNext]_hostVars => HostTypeInv'
<1> SUFFICES ASSUME HostTypeInv, [HostNext]_hostVars PROVE HostTypeInv'
  OBVIOUS
<1>1. CASE HostNext
  <2>1. MainOK' /\ HttpOK' /\ GpuOK' /\ RestOK'
    BY <1>1, HostTypes, MainTypes, HttpTypes, GpuTypes, RestTypes DEF HostTypeInv
  <2> QED
    BY <2>1 DEF HostTypeInv, HostTypeOK, MainOK, HttpOK, GpuOK, RestOK, NumbersOK, FlagsOK, Mains,
       Https, Gpus, Weights
<1>2. CASE UNCHANGED hostVars
  BY <1>2 DEF hostVars, HostTypeInv, HostTypeOK
<1> QED  BY <1>1, <1>2

\* The type invariant: every step, deadline, counter and flag of both threads keeps its type.
THEOREM HostTypesCorrect == HostSpec => []HostTypeInv
  BY HostTypeInit, HostTypeStep, PTL DEF HostSpec

-----------------------------------------------------------------------------
(* The GPU is owned                                                        *)

\* The mutex tells who records a frame.
Owning ==
  /\ gpu.owner = "main" <=> main.step = "gpu"
  /\ gpu.owner = "http" <=> http.step = "gpu"
  /\ gpu.owner = "none" => gpu = Free

\* The models live from the end of loading to the end of the shutdown, the accept thread from
\* the start of the transport at the latest to the join.
Living ==
  /\ gpuUp <=> main.step \notin {"init", "load", "exited"}
  /\ main.step \in {"init", "load", "warm", "start"} => http.step = "off"
  /\ main.step \in {"down", "exited"} => http.step \in {"off", "ended"}

GpuInv == Owning /\ Living

LEMMA Owned == HostTypeInv /\ GpuInv => GpuOwned
  BY DEF HostTypeInv, HostTypeOK, GpuInv, Owning, Living, GpuOwned

LEMMA OwningStep ==
  ASSUME HostTypeInv, GpuInv, [HostNext]_hostVars
  PROVE  Owning'
<1>t. MainOK /\ HttpOK /\ GpuOK /\ RestOK
  BY HostTypes DEF HostTypeInv
<1> USE DEF GpuInv, Owning
<1>1. CASE MainRecords
  <2>1. main'.step = "gpu" /\ gpu.owner = "none" /\ UNCHANGED http /\ gpu'.owner = "main"
    BY <1>1, AtType DEF MainRecords, Record, MainSteps, connVars
  <2> QED  BY <2>1
<1>2. CASE HttpRecords
  <2>1. http'.step = "gpu" /\ gpu.owner = "none" /\ UNCHANGED main /\ gpu'.owner = "http"
    BY <1>t, <1>2 DEF HttpRecords, Record, HttpOK, Https
  <2> QED  BY <2>1
<1>3. CASE MainSubmits
  <2>1. main'.step # "gpu" /\ gpu.owner = "main" /\ UNCHANGED http /\ gpu' = Free
    BY <1>3, AtType DEF MainSubmits, Submit, MainSteps, connVars
  <2> QED  BY <2>1 DEF Free
<1>4. CASE HttpSubmits
  <2>1. gpu.owner = "http" /\ UNCHANGED main /\ gpu' = Free
    BY <1>4 DEF HttpSubmits, Submit
  <2>2. http'.step = "reply"
    <3>1. "reply" \in HttpSteps
      BY DEF HttpSteps
    <3>2. [http EXCEPT !.step = "reply", !.frame = TRUE].step = "reply"
      BY <1>t DEF HttpOK, Https
    <3> QED  BY <1>4, <3>1, <3>2, ServedType DEF HttpSubmits
  <2> QED  BY <2>1, <2>2 DEF Free
<1>5. CASE UNCHANGED gpu /\ (main'.step = "gpu" <=> main.step = "gpu")
                         /\ (http'.step = "gpu" <=> http.step = "gpu")
  BY <1>5
<1>6. CASE MainStep /\ ~MainRecords /\ ~MainSubmits
  <2>1. UNCHANGED gpu
    BY <1>6 DEF MainStep, InitDevice, LoadModels, WarmFrame, StartHttp, LoopCheck,
       PollTimedOut, ReadTimedOut, StopListening, Hangup, Join, ShutDown, gpuVars
  <2>2. main.step # "gpu" /\ main'.step # "gpu"
    <3>1. CASE LoopCheck
      BY <3>1, AtType DEF LoopCheck, At, MainSteps
    <3>2. CASE WarmFrame
      BY <1>t, <3>2, AtType DEF WarmFrame, MainOK, Mains, MainSteps
    <3>3. CASE InitDevice \/ LoadModels \/ StartHttp \/ PollTimedOut \/ ReadTimedOut
               \/ StopListening \/ Hangup \/ Join \/ ShutDown
      BY <3>3, AtType DEF InitDevice, LoadModels, StartHttp, PollTimedOut, ReadTimedOut,
        StopListening, Hangup, Join, ShutDown, MainSteps
    <3> QED  BY <1>6, <3>1, <3>2, <3>3 DEF MainStep
  <2>3. http'.step = "gpu" <=> http.step = "gpu"
    <3>1. CASE StartHttp
      BY <3>1, ServedType DEF StartHttp, Living, HttpSteps
    <3>2. CASE ~StartHttp
      BY <1>6, <3>2 DEF MainStep, InitDevice, LoadModels, WarmFrame, LoopCheck,
         PollTimedOut, ReadTimedOut, StopListening, Hangup, Join, ShutDown, connVars
    <3> QED  BY <3>1, <3>2
  <2> QED  BY <1>5, <2>1, <2>2, <2>3
<1>7. CASE HttpStep /\ ~HttpRecords /\ ~HttpSubmits
  <2>1. UNCHANGED <<gpu, main>>
    BY <1>7 DEF HttpStep, AcceptEnds, Store, RequestLineFails, HeadersEnd, BodyFails,
       BodyDone, ReplyEnds, ConnEnds, gpuVars
  <2>2. http.step # "gpu" /\ http'.step # "gpu"
    <3>1. CASE HeadersEnd
      BY <1>t, <3>1, ServedType DEF HeadersEnd, HttpOK, Https, HttpSteps, Reading
    <3>2. CASE AcceptEnds \/ Store \/ RequestLineFails \/ BodyFails \/ BodyDone \/ ReplyEnds
               \/ ConnEnds
      BY <1>t, <3>2, ServedType, NextRequestType DEF AcceptEnds, Store, RequestLineFails,
         BodyFails, BodyDone, ReplyEnds, ConnEnds, HttpOK, Https, HttpSteps, Reading
    <3> QED  BY <1>7, <3>1, <3>2 DEF HttpStep
  <2> QED  BY <1>5, <2>1, <2>2
<1>8. CASE Outside
  <2>1. UNCHANGED gpu
    BY <1>8 DEF Outside, WarmupSkipped, PollReady, BrowserGone, ReadPiece,
       ReadOversize, ReadMessage, Accept, LinePiece, RequestLine, HeaderLine,
       HeadersEnd, BodyPiece, PeerChanges, gpuVars
  <2>2. CASE WarmupSkipped \/ BrowserGone \/ ReadOversize \/ ReadMessage
    <3>1. UNCHANGED http /\ main.step # "gpu" /\ main'.step # "gpu"
      BY <2>2, AtType DEF WarmupSkipped, BrowserGone, ReadOversize, ReadMessage,
         connVars, MainSteps
    <3> QED  BY <1>5, <2>1, <3>1
  <2>3. CASE PollReady \/ ReadPiece
    <3>1. UNCHANGED http /\ main.step # "gpu" /\ main'.step # "gpu"
      BY <1>t, <2>3 DEF PollReady, ReadPiece, connVars, MainOK, Mains
    <3> QED  BY <1>5, <2>1, <3>1
  <2>4. CASE Accept \/ LinePiece \/ RequestLine \/ HeaderLine \/ HeadersEnd \/ BodyPiece
    <3>1. UNCHANGED main
      BY <2>4 DEF Accept, LinePiece, RequestLine, HeaderLine, HeadersEnd, BodyPiece
    <3>2. http.step # "gpu" /\ http'.step # "gpu"
      <4>1. CASE HeadersEnd
        BY <1>t, <4>1, ServedType DEF HeadersEnd, HttpOK, Https, HttpSteps, Reading
      <4>2. CASE Accept \/ LinePiece \/ RequestLine \/ HeaderLine \/ BodyPiece
        BY <1>t, <4>2, ServedType DEF Accept, LinePiece, RequestLine, HeaderLine,
           BodyPiece, HttpOK, Https, HttpSteps, Reading
      <4> QED  BY <2>4, <4>1, <4>2
    <3> QED  BY <1>5, <2>1, <3>1, <3>2
  <2>5. CASE PeerChanges
    BY <1>5, <2>1, <2>5 DEF PeerChanges
  <2> QED  BY <1>8, <2>2, <2>3, <2>4, <2>5 DEF Outside
<1>9. CASE Tick
  <2>1. main'.step = main.step /\ http'.step = http.step /\ UNCHANGED gpu
    BY <1>t, <1>9 DEF Tick, MainOK, HttpOK, Mains, Https, gpuVars
  <2> QED  BY <1>5, <2>1
<1>10. CASE UNCHANGED hostVars
  BY <1>5, <1>10 DEF hostVars
<1> QED
  BY <1>1, <1>2, <1>3, <1>4, <1>6, <1>7, <1>8, <1>9, <1>10 DEF HostNext, HttpStep

LEMMA LivingStep ==
  ASSUME HostTypeInv, GpuInv, [HostNext]_hostVars
  PROVE  Living'
<1>t. MainOK /\ HttpOK /\ GpuOK /\ RestOK
  BY HostTypes DEF HostTypeInv
<1> DEFINE Young == {"init", "load", "warm", "start"}
<1> USE DEF GpuInv, Living
\* A step of the main thread that leaves the accept thread and the models alone.
<1>1. CASE /\ UNCHANGED <<http, gpuUp>>
           /\ main.step \notin {"init", "load", "exited"} /\ main'.step \notin {"init", "load", "exited"}
           /\ main.step \in {"warm", "start"} \/ main'.step \notin Young
           /\ main'.step = "down" => http.step \in {"off", "ended"}
  BY <1>1
<1>2. CASE InitDevice
  BY <1>2, AtType DEF InitDevice, connVars, mainVars, MainSteps
<1>3. CASE LoadModels
  BY <1>3, AtType DEF LoadModels, connVars, MainSteps
<1>4. CASE WarmFrame
  BY <1>t, <1>1, <1>4, AtType DEF WarmFrame, connVars, mainVars, MainSteps, MainOK, Mains
<1>5. CASE StartHttp
  BY <1>5, AtType DEF StartHttp, MainSteps
<1>6. CASE LoopCheck
  <2>1. main'.step \in {"stop", "poll"}
    BY <1>6, AtType DEF LoopCheck, At, MainSteps
  <2> QED  BY <1>1, <1>6, <2>1 DEF LoopCheck, connVars, mainVars
<1>7. CASE PollTimedOut \/ ReadTimedOut \/ MainRecords \/ MainSubmits \/ Hangup \/ Join
           \/ WarmupSkipped \/ BrowserGone \/ ReadOversize \/ ReadMessage \/ StopListening
  <2>1. UNCHANGED gpuUp /\ main.step \notin {"init", "load", "exited", "start"}
        /\ main'.step \in {"loop", "stop", "gpu", "join", "down", "start", "lock", "hangup"}
        /\ (main'.step = "start" => main.step = "warm") /\ UNCHANGED http
        /\ (main'.step = "down" => http.step \in {"off", "ended"})
    BY <1>7, AtType DEF PollTimedOut, ReadTimedOut, MainRecords, MainSubmits, Hangup,
       Join, WarmupSkipped, BrowserGone, ReadOversize, ReadMessage, StopListening,
       mainVars, connVars, MainSteps
  <2> QED  BY <1>1, <2>1
<1>8. CASE PollReady \/ ReadPiece
  <2>1. main'.step = "read" /\ main.step \in {"poll", "read"} /\ UNCHANGED <<http, gpuUp>>
    BY <1>t, <1>8 DEF PollReady, ReadPiece, mainVars, connVars, MainOK, Mains
  <2> QED  BY <1>1, <2>1
<1>9. CASE ShutDown
  BY <1>9, AtType DEF ShutDown, connVars, MainSteps
<1>10. CASE HttpStep
  <2>1. UNCHANGED <<main, gpuUp>> /\ http.step \notin {"off", "ended"}
    BY <1>10 DEF HttpStep, AcceptEnds, Store, RequestLineFails, HeadersEnd, BodyFails,
       BodyDone, HttpRecords, HttpSubmits, ReplyEnds, ConnEnds, mainVars
  <2> QED  BY <2>1
<1>11. CASE Accept \/ LinePiece \/ RequestLine \/ HeaderLine \/ HeadersEnd \/ BodyPiece
  <2>1. UNCHANGED <<main, gpuUp>> /\ http.step \notin {"off", "ended"}
    BY <1>11 DEF Accept, LinePiece, RequestLine, HeaderLine, HeadersEnd, BodyPiece,
       mainVars
  <2> QED  BY <2>1
<1>12. CASE PeerChanges
  BY <1>12 DEF PeerChanges, mainVars
<1>13. CASE Tick
  <2>1. main'.step = main.step /\ http'.step = http.step /\ UNCHANGED gpuUp
    BY <1>t, <1>13 DEF Tick, MainOK, HttpOK, Mains, Https, mainVars
  <2> QED  BY <2>1
<1>14. CASE UNCHANGED hostVars
  BY <1>14 DEF hostVars
<1> QED
  BY <1>2, <1>3, <1>4, <1>5, <1>6, <1>7, <1>8, <1>9, <1>10, <1>11, <1>12, <1>13, <1>14
  DEF HostNext, MainStep, Outside

\* Only one thread at a time works on the GPU, only while its models are loaded, and nobody does
\* or can begin to once the host takes it down.
THEOREM GpuCorrect == HostSpec => []GpuOwned
<1>1. HostInit => GpuInv
  BY AtType, ServedType DEF HostInit, GpuInv, Owning, Living, Free, MainSteps, HttpSteps
<1>2. HostTypeInv /\ GpuInv /\ [HostNext]_hostVars => GpuInv'
  BY OwningStep, LivingStep DEF GpuInv
<1> QED
  BY <1>1, <1>2, HostTypesCorrect, Owned, PTL DEF HostSpec
==============================================================================

