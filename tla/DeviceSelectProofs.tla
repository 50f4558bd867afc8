------------------------- MODULE DeviceSelectProofs -------------------------
(***************************************************************************)
(* Proofs about DeviceSelect for every number of devices and every set of  *)
(* records: what the first loop has found after n devices, what the second *)
(* has, and that the device the two leave is the best one.                 *)
(***************************************************************************)
EXTENDS DeviceSelect, TLAPS

\* Every device has a positive performance, so the first eligible one is noted.
LEMMA PerfPositive ==
    ASSUME NEW prop \in DeviceProps
    PROVE  compute_perf(prop) \in Nat \ {0}
  <1>1. /\ prop.multiProcessorCount \in Nat \ {0} /\ prop.clockRate \in Nat \ {0}
        /\ prop.major \in Nat /\ prop.minor \in Nat
    BY DeviceSelectAssumption
  <1>2. ASSUME NEW a \in Nat \ {0}, NEW b \in Nat \ {0}
        PROVE  a * b \in Nat \ {0}
    BY <1>2
  <1>3. sm_per_multiproc(prop) \in Nat \ {0}
    BY <1>1 DEF sm_per_multiproc, ConvertSMVer2Cores
  <1>4. prop.multiProcessorCount * sm_per_multiproc(prop) \in Nat \ {0}
    BY <1>1, <1>2, <1>3
  <1> QED BY <1>1, <1>2, <1>4 DEF compute_perf

-----------------------------------------------------------------------------
\* The first loop after n devices: no allowed one has a better architecture
\* than best_SM_arch, which is the architecture of one of them, and if not all
\* were counted as prohibited, one of them is allowed.
ArchSoFar(n) ==
    /\ \A d \in Allowed : d < n /\ RealArch(properties[d].major)
                              => properties[d].major <= best_SM_arch
    /\ best_SM_arch = 0 \/ \E d \in Allowed : /\ d < n
                                              /\ properties[d].major = best_SM_arch
                                              /\ RealArch(best_SM_arch)
    /\ devices_prohibited # n => \E d \in Allowed : d < n

\* What SpeedLoop compares, once best_SM_arch is known.
Compared == {d \in Allowed : best_SM_arch > 2 => properties[d].major = best_SM_arch}

\* The second loop after n devices: nothing compared so far is faster than
\* max_compute_perf, and what is noted is the first that is as fast.
SpeedSoFar(n) ==
    /\ \A d \in Compared : d < n => compute_perf(properties[d]) <= max_compute_perf
    /\ max_compute_perf # 0 =>
          /\ max_perf_device \in Compared
          /\ max_compute_perf = compute_perf(properties[max_perf_device])
          /\ \A d \in Compared : d < max_perf_device =>
                compute_perf(properties[d]) < max_compute_perf

Bounded ==
    /\ pc = "count" => /\ current_device = 0 /\ best_SM_arch = 0
                       /\ devices_prohibited = 0
    /\ pc = "arch" => devices_prohibited <= current_device /\ device_count > 0
    /\ pc \in {"count", "arch"} => max_compute_perf = 0
    /\ pc # "done" => result = "none"

Answered ==
    unanswered = {} =>
        /\ pc = "arch" => ArchSoFar(current_device)
        /\ pc = "speed" => /\ ArchSoFar(device_count) /\ Allowed # {}
                           /\ SpeedSoFar(current_device)
        /\ ChosenIsBest

\* The inductive invariant.
IInv == TypeOK /\ Bounded /\ Answered

\* The devices the second loop compares are those the choice is between.
LEMMA ComparedIsEligible ==
    ASSUME TypeOK, ArchSoFar(device_count), Allowed # {}
    PROVE  Compared = Eligible /\ Compared # {}
  <1> USE DeviceSelectAssumption
  <1>0. /\ \A d \in Allowed : d \in Devices /\ d < device_count
        /\ \A d \in Devices : properties[d].major \in Nat
        /\ best_SM_arch \in Nat
    <2>1. \A d \in Devices : properties[d] \in DeviceProps BY DEF TypeOK
    <2>2. \A d \in Devices : properties[d].major \in Nat BY <2>1
    <2>3. \A d \in Allowed : d \in Devices BY DEF Allowed
    <2>4. \A d \in Devices : d < device_count BY DEF TypeOK, Devices
    <2> QED BY <2>2, <2>3, <2>4 DEF TypeOK
  <1>1. CASE best_SM_arch > 2
    <2>1. PICK b \in Allowed : /\ properties[b].major = best_SM_arch
                               /\ RealArch(best_SM_arch)
      BY <1>0, <1>1 DEF ArchSoFar
    <2>2. Modern BY <2>1, <1>1 DEF Modern
    <2>3. \A d \in Allowed : properties[d].major = best_SM_arch <=> HasBestArch(d)
      <3>1. ASSUME NEW d \in Allowed, properties[d].major = best_SM_arch
            PROVE  HasBestArch(d)
        BY <3>1, <2>1, <1>0 DEF HasBestArch, ArchSoFar
      <3>2. ASSUME NEW d \in Allowed, HasBestArch(d)
            PROVE  properties[d].major = best_SM_arch
        <4>1. best_SM_arch <= properties[d].major /\ RealArch(properties[d].major)
          BY <3>2, <2>1, <1>0 DEF HasBestArch
        <4>2. properties[d].major <= best_SM_arch BY <4>1, <1>0 DEF ArchSoFar
        <4> QED BY <4>1, <4>2, <1>0
      <3> QED BY <3>1, <3>2
    <2> QED BY <1>1, <2>1, <2>2, <2>3 DEF Compared, Eligible
  <1>2. CASE ~(best_SM_arch > 2)
    <2>1. ~Modern BY <1>0, <1>2 DEF Modern, ArchSoFar
    <2> QED BY <1>2, <2>1 DEF Compared, Eligible
  <1> QED BY <1>1, <1>2

-----------------------------------------------------------------------------
LEMMA InitEstablishes == Init => IInv
  BY DeviceSelectAssumption
  DEF Init, IInv, TypeOK, Bounded, Answered, ChosenIsBest, Devices

\* A query answers with the record of the device, or is counted.
LEMMA QueryAnswers ==
    ASSUME TypeOK, current_device < device_count, GetDeviceProperties
    PROVE  /\ current_device \in Devices
           /\ deviceProp' \in DeviceProps
           /\ unanswered' \subseteq Devices
           /\ unanswered' = {} => /\ unanswered = {}
                                  /\ deviceProp' = properties[current_device]
  <1>1. current_device \in Devices BY DEF TypeOK, Devices
  <1> QED BY <1>1 DEF TypeOK, GetDeviceProperties

LEMMA ArchLoopKeeps ==
    ASSUME IInv, ArchLoop
    PROVE  IInv'
  <1> USE DeviceSelectAssumption
  <1>0. TypeOK /\ GetDeviceProperties /\ current_device < device_count /\ pc = "arch"
    BY DEF IInv, ArchLoop
  <1>q. /\ current_device \in Devices /\ deviceProp' \in DeviceProps
        /\ unanswered' \subseteq Devices
        /\ unanswered' = {} => unanswered = {} /\ deviceProp' = properties[current_device]
    BY <1>0, QueryAnswers
  <1>1. /\ best_SM_arch \in Nat /\ best_SM_arch' \in Nat /\ device_count \in Nat
        /\ current_device \in Nat /\ devices_prohibited \in Nat
        /\ devices_prohibited <= current_device
        /\ deviceProp'.major \in Nat
    BY <1>0, <1>q DEF IInv, TypeOK, Bounded, ArchLoop, BetterArch
  <1>2. TypeOK'
    <2>1. /\ UNCHANGED <<device_count, properties, pc, max_compute_perf, max_perf_device,
                        result>>
          /\ current_device' = current_device + 1
          /\ devices_prohibited' \in {devices_prohibited, devices_prohibited + 1}
      BY DEF ArchLoop, machine
    <2>2. current_device' \in 0 .. device_count /\ devices_prohibited' \in 0 .. device_count
      BY <1>0, <1>1, <2>1
    <2> QED BY <1>0, <1>q, <1>1, <2>1, <2>2 DEF TypeOK, Devices
  <1>3. Bounded'
    BY <1>0, <1>1 DEF IInv, Bounded, ArchLoop, machine
  <1>4. Answered'
    <2> SUFFICES ASSUME unanswered' = {} PROVE ArchSoFar(current_device)'
      BY <1>0 DEF IInv, Answered, Bounded, ArchLoop, ChosenIsBest
    <2> DEFINE c == current_device
    <2>1. deviceProp' = properties[c] /\ ArchSoFar(c)
      BY <1>q, <1>0 DEF IInv, Answered
    <2>2. properties' = properties /\ Allowed' = Allowed /\ c' = c + 1
      BY DEF ArchLoop, machine, Allowed, Devices
    <2>3. \A d \in Allowed : d \in Nat /\ (d < c + 1 <=> d < c \/ d = c)
      BY <1>1 DEF Allowed, Devices
    <2>4. CASE properties[c].prohibited
      <3>1. /\ c \notin Allowed /\ best_SM_arch' = best_SM_arch
            /\ devices_prohibited' = devices_prohibited + 1
        BY <2>1, <2>4 DEF ArchLoop, Allowed
      <3> QED BY <1>1, <2>1, <2>2, <2>3, <3>1 DEF ArchSoFar
    <2>5. CASE ~properties[c].prohibited
      <3>1. /\ c \in Allowed
            /\ best_SM_arch' = BetterArch(best_SM_arch, properties[c])
        BY <2>1, <2>5, <1>q DEF ArchLoop, Allowed
      <3>2. properties[c].major \in Nat BY <1>1, <2>1
      <3>3. \/ best_SM_arch' = best_SM_arch
            \/ best_SM_arch' = properties[c].major /\ RealArch(properties[c].major)
        BY <3>1, <3>2 DEF BetterArch
      <3>4. \A d \in Allowed : d < c + 1 /\ RealArch(properties[d].major)
                                  => properties[d].major <= best_SM_arch'
        <4>1. /\ best_SM_arch <= best_SM_arch'
              /\ RealArch(properties[c].major) => properties[c].major <= best_SM_arch'
          BY <1>1, <3>1, <3>2 DEF BetterArch
        <4>2. \A d \in Allowed : properties[d].major \in Nat
          <5>1. \A d \in Allowed : properties[d] \in DeviceProps
            BY <1>0 DEF TypeOK, Allowed
          <5> QED BY <5>1
        <4> QED BY <1>1, <2>1, <2>3, <4>1, <4>2 DEF ArchSoFar
      <3>5. best_SM_arch' = 0 \/ \E d \in Allowed : /\ d < c + 1
                                                   /\ properties[d].major = best_SM_arch'
                                                   /\ RealArch(best_SM_arch')
        BY <2>1, <2>3, <3>1, <3>3 DEF ArchSoFar
      <3> QED BY <2>2, <2>3, <3>1, <3>4, <3>5 DEF ArchSoFar
    <2> QED BY <2>4, <2>5
  <1> QED BY <1>2, <1>3, <1>4 DEF IInv

LEMMA SpeedLoopKeeps ==
    ASSUME IInv, SpeedLoop
    PROVE  IInv'
  <1> USE DeviceSelectAssumption
  <1>0. TypeOK /\ GetDeviceProperties /\ current_device < device_count /\ pc = "speed"
    BY DEF IInv, SpeedLoop
  <1>q. /\ current_device \in Devices /\ deviceProp' \in DeviceProps
        /\ unanswered' \subseteq Devices
        /\ unanswered' = {} => unanswered = {} /\ deviceProp' = properties[current_device]
    BY <1>0, QueryAnswers
  <1>1. /\ compute_perf(deviceProp') \in Nat \ {0} /\ max_compute_perf \in Nat
        /\ device_count \in Nat /\ current_device \in Nat
    BY <1>0, <1>q, PerfPositive DEF TypeOK
  <1>2. TypeOK'
    <2>1. /\ UNCHANGED <<device_count, properties, pc, best_SM_arch, devices_prohibited,
                        result>>
          /\ current_device' = current_device + 1
          /\ max_compute_perf' \in {max_compute_perf, compute_perf(deviceProp')}
          /\ max_perf_device' \in {max_perf_device, current_device}
      BY DEF SpeedLoop, machine
    <2>2. current_device' \in 0 .. device_count
      BY <1>0, <1>1, <2>1
    <2> QED BY <1>0, <1>q, <1>1, <2>1, <2>2 DEF TypeOK, Devices
  <1>3. Bounded'
    BY <1>0 DEF IInv, Bounded, SpeedLoop, machine
  <1>4. Answered'
    <2> DEFINE c == current_device
    <2> SUFFICES ASSUME unanswered' = {}
                 PROVE  ArchSoFar(device_count)' /\ Allowed' # {} /\ SpeedSoFar(c)'
      BY <1>0 DEF IInv, Answered, Bounded, SpeedLoop, ChosenIsBest
    <2>1. /\ deviceProp' = properties[c] /\ ArchSoFar(device_count) /\ Allowed # {}
          /\ SpeedSoFar(c)
      BY <1>q, <1>0 DEF IInv, Answered
    <2>2. /\ properties' = properties /\ Allowed' = Allowed /\ Compared' = Compared
          /\ c' = c + 1 /\ device_count' = device_count /\ best_SM_arch' = best_SM_arch
          /\ devices_prohibited' = devices_prohibited
      BY DEF SpeedLoop, machine, Allowed, Devices, Compared
    <2>3. ArchSoFar(device_count)' /\ Allowed' # {}
      BY <2>1, <2>2 DEF ArchSoFar
    <2>4. \A d \in Compared : /\ d \in Nat /\ (d < c + 1 <=> d < c \/ d = c)
                              /\ compute_perf(properties[d]) \in Nat \ {0}
      <3>1. \A d \in Compared : d \in Devices /\ properties[d] \in DeviceProps
        BY <1>0 DEF Compared, Allowed, TypeOK
      <3> QED BY <1>1, <3>1, PerfPositive DEF Devices
    <2>5. CASE Faster(deviceProp')
      <3>1. /\ c \in Compared
            /\ max_compute_perf' = compute_perf(properties[c]) /\ max_perf_device' = c
            /\ max_compute_perf < compute_perf(properties[c])
        BY <2>1, <2>5, <1>q, <1>1 DEF Faster, SpeedLoop, Compared, Allowed
      <3>2. \A d \in Compared : d < c => compute_perf(properties[d]) < max_compute_perf'
        BY <2>1, <2>4, <3>1, <1>1 DEF SpeedSoFar
      <3>3. \A d \in Compared : d < c + 1 => compute_perf(properties[d]) <= max_compute_perf'
        BY <2>4, <3>1, <3>2
      <3> QED BY <2>2, <2>3, <3>1, <3>2, <3>3 DEF SpeedSoFar
    <2>6. CASE ~Faster(deviceProp')
      <3>1. max_compute_perf' = max_compute_perf /\ max_perf_device' = max_perf_device
        BY <2>6 DEF SpeedLoop
      <3>2. c \in Compared => compute_perf(properties[c]) <= max_compute_perf
        BY <2>1, <2>6, <1>1 DEF Faster, Compared, Allowed
      <3> QED BY <2>1, <2>2, <2>3, <2>4, <3>1, <3>2 DEF SpeedSoFar
    <2> QED BY <2>5, <2>6
  <1> QED BY <1>2, <1>3, <1>4 DEF IInv

LEMMA SpeedDoneKeeps ==
    ASSUME IInv, SpeedDone
    PROVE  IInv'
  <1> USE DeviceSelectAssumption
  <1>1. TypeOK' /\ Bounded'
    BY DEF IInv, TypeOK, Bounded, SpeedDone, Return, machine, Devices
  <1>2. Answered'
    <2> SUFFICES ASSUME unanswered = {} PROVE ChosenIsBest'
      BY DEF Answered, SpeedDone, Return
    <2>0. /\ TypeOK /\ ArchSoFar(device_count) /\ Allowed # {}
          /\ SpeedSoFar(device_count)
      BY DEF IInv, Answered, SpeedDone
    <2>1. Compared = Eligible /\ Compared # {}
      BY <2>0, ComparedIsEligible
    <2>2. \A d \in Compared : /\ d \in Nat /\ d < device_count
                              /\ compute_perf(properties[d]) \in Nat \ {0}
      <3>1. \A d \in Compared : d \in Devices /\ properties[d] \in DeviceProps
        BY <2>0 DEF Compared, Allowed, TypeOK
      <3>2. \A d \in Devices : d \in Nat /\ d < device_count
        BY <2>0 DEF Devices, TypeOK
      <3> QED BY <3>1, <3>2, PerfPositive
    <2>3. max_compute_perf # 0
      BY <2>0, <2>1, <2>2 DEF SpeedSoFar, TypeOK
    <2>4. /\ max_perf_device \in Eligible
          /\ \A d \in Eligible :
                /\ compute_perf(properties[d]) <= compute_perf(properties[max_perf_device])
                /\ d < max_perf_device =>
                      compute_perf(properties[d]) < compute_perf(properties[max_perf_device])
      BY <2>0, <2>1, <2>2, <2>3 DEF SpeedSoFar
    <2>5. /\ properties' = properties /\ max_perf_device' = max_perf_device
          /\ Eligible' = Eligible
      BY DEF SpeedDone, machine, Eligible, Allowed, Modern, HasBestArch, Devices
    <2> QED BY <2>4, <2>5 DEF ChosenIsBest
  <1> QED BY <1>1, <1>2 DEF IInv

LEMMA OtherStepsKeep ==
    ASSUME IInv, GetDeviceCount \/ ArchDone \/ UNCHANGED vars
    PROVE  IInv'
  <1> USE DeviceSelectAssumption
  <1>1. CASE GetDeviceCount
    <2>1. TypeOK' /\ Bounded'
      BY <1>1 DEF IInv, TypeOK, Bounded, GetDeviceCount, Return, machine, Devices
    <2>2. Answered'
      BY <1>1 DEF IInv, TypeOK, Bounded, Answered, GetDeviceCount, Return, machine,
                  ChosenIsBest, ArchSoFar, Allowed, Devices
    <2> QED BY <2>1, <2>2 DEF IInv
  <1>2. CASE ArchDone
    <2>1. TypeOK'
      <3>1. /\ UNCHANGED <<device_count, properties, best_SM_arch, devices_prohibited,
                          max_compute_perf, max_perf_device, deviceProp, unanswered>>
            /\ current_device' \in {0, current_device}
            /\ pc' \in {"done", "speed"} /\ result' \in {"CUDA_ERROR", result}
        BY <1>2 DEF ArchDone, Return, machine
      <3>2. TypeOK /\ 0 \in 0 .. device_count BY DEF IInv, TypeOK
      <3> QED BY <3>1, <3>2 DEF TypeOK, Devices
    <2>3. Bounded'
      BY <1>2 DEF IInv, Bounded, ArchDone, Return, machine
    <2>2. Answered'
      <3> SUFFICES ASSUME unanswered = {}, pc' = "speed"
                   PROVE  (ArchSoFar(device_count) /\ Allowed # {} /\ SpeedSoFar(0))'
        BY <1>2 DEF IInv, Bounded, Answered, ArchDone, Return, ChosenIsBest
      <3>1. /\ ArchSoFar(device_count) /\ devices_prohibited # device_count
            /\ max_compute_perf = 0
        BY <1>2 DEF IInv, Answered, Bounded, ArchDone, Return
      <3>2. Allowed' = Allowed /\ Compared' = Compared /\ properties' = properties
        BY <1>2 DEF ArchDone, machine, Allowed, Compared, Devices
      <3>3. \A d \in Compared : ~(d < 0)
        BY DEF Compared, Allowed, Devices, IInv, TypeOK
      <3>4. ArchSoFar(device_count)' /\ Allowed' # {}
        BY <1>2, <3>1, <3>2 DEF ArchDone, machine, ArchSoFar
      <3> QED BY <1>2, <3>1, <3>2, <3>3, <3>4 DEF ArchDone, SpeedSoFar
    <2> QED BY <2>1, <2>2, <2>3 DEF IInv
  <1>3. CASE UNCHANGED vars
    BY <1>3 DEF vars, machine, IInv, TypeOK, Bounded, Answered, ChosenIsBest, Eligible,
                Allowed, Modern, HasBestArch, Devices, ArchSoFar, SpeedSoFar, Compared
  <1> QED BY <1>1, <1>2, <1>3

-----------------------------------------------------------------------------
\* The types of the search's variables: its counters stay within the devices.
THEOREM TypeCorrect == Spec => []TypeOK
  <1>1. IInv /\ [Next]_vars => IInv'
    BY ArchLoopKeeps, SpeedLoopKeeps, SpeedDoneKeeps, OtherStepsKeep DEF Next
  <1>2. IInv => TypeOK BY DEF IInv
  <1> QED BY InitEstablishes, <1>1, <1>2, PTL DEF Spec

\* The device nvGetMaxGflopsDeviceId returns is the best one of any machine
\* whose driver answered every query.
THEOREM ChosenDeviceIsBest == Spec => []ChosenIsBest
  <1>1. IInv /\ [Next]_vars => IInv'
    BY ArchLoopKeeps, SpeedLoopKeeps, SpeedDoneKeeps, OtherStepsKeep DEF Next
  <1>2. IInv => ChosenIsBest BY DEF IInv, Answered, ChosenIsBest
  <1> QED BY InitEstablishes, <1>1, <1>2, PTL DEF Spec
=============================================================================
