---------------------------- MODULE DeviceSelect ----------------------------
(***************************************************************************)
(* nvGetMaxGflopsDeviceId: which CUDA device deviceinfo sets before it      *)
(* probes the NVIDIA mapping mode.  Two loops over the devices: the first   *)
(* finds the best SM architecture, the second the fastest device.           *)
(*                                                                          *)
(* One iteration is one step.  Both loops query every device into the same  *)
(* local record, deviceProp, and ignore the result of the query: when it    *)
(* fails, the record keeps what it held, which before the first answer is   *)
(* anything at all.                                                         *)
(***************************************************************************)
EXTENDS Naturals

CONSTANTS
    MaxDevices,   \* BOUND: devices cudaGetDeviceCount reports
    DeviceProps   \* the cudaDeviceProp records the devices may have

\* Products of these are computed in 64 bits, far below 2^64 for real devices.
ASSUME DeviceSelectAssumption ==
    /\ MaxDevices \in Nat
    /\ DeviceProps \subseteq [prohibited : BOOLEAN, major : Nat, minor : Nat,
                              multiProcessorCount : Nat \ {0}, clockRate : Nat \ {0}]
    /\ DeviceProps # {}

VARIABLES
    device_count,
    properties,        \* the driver: the record of each device
    pc,
    current_device, best_SM_arch, devices_prohibited,
    max_compute_perf, max_perf_device,
    deviceProp,
    result,            \* what the call returned
    unanswered         \* history: the devices a query of which failed

machine == <<device_count, properties>>
vars == <<machine, pc, current_device, best_SM_arch, devices_prohibited,
          max_compute_perf, max_perf_device, deviceProp, result, unanswered>>

Devices == 0 .. device_count - 1

\* _ConvertSMVer2Cores: its table by the number of cores.  A version that is
\* not in the table gets the 64 of the last entry.
ConvertSMVer2Cores(major, minor) ==
    LET sm == 16 * major + minor
    IN  IF sm \in {48, 50, 53, 55} THEN 192
        ELSE IF sm \in {80, 82, 83, 97, 98} THEN 128 ELSE 64

sm_per_multiproc(prop) ==
    IF prop.major = 9999 /\ prop.minor = 9999
    THEN 1
    ELSE ConvertSMVer2Cores(prop.major, prop.minor)

compute_perf(prop) ==
    prop.multiProcessorCount * sm_per_multiproc(prop) * prop.clockRate

Return(r) == pc' = "done" /\ result' = r

\* The count of devices decides the two early returns.
GetDeviceCount ==
    /\ pc = "count"
    /\ \/ Return("CUDA_ERROR")
       \/ device_count = 0 /\ Return("CUDA_NODEVICE")
       \/ device_count > 0 /\ pc' = "arch" /\ UNCHANGED result
    /\ UNCHANGED <<machine, current_device, best_SM_arch, devices_prohibited,
                   max_compute_perf, max_perf_device, deviceProp, unanswered>>

\* The query of current_device, into the record of the last one.
GetDeviceProperties ==
    \/ /\ deviceProp' = properties[current_device]
       /\ UNCHANGED unanswered
    \/ /\ UNCHANGED deviceProp
       /\ unanswered' = unanswered \cup {current_device}

\* 9999 is the emulator's major version.
RealArch(major) == major > 0 /\ major < 9999

BetterArch(arch, prop) ==
    IF RealArch(prop.major) /\ prop.major > arch THEN prop.major ELSE arch

\* Mutant of ArchLoop: the devices in prohibited mode count for the architecture.
ArchLoopTakesProhibited ==
    /\ pc = "arch" /\ current_device < device_count
    /\ GetDeviceProperties
    /\ best_SM_arch' = BetterArch(best_SM_arch, deviceProp')
    /\ devices_prohibited' = devices_prohibited + (IF deviceProp'.prohibited THEN 1 ELSE 0)
    /\ current_device' = current_device + 1
    /\ UNCHANGED <<machine, pc, max_compute_perf, max_perf_device, result>>

ArchLoop ==
    /\ pc = "arch" /\ current_device < device_count
    /\ GetDeviceProperties
    /\ IF deviceProp'.prohibited
       THEN /\ devices_prohibited' = devices_prohibited + 1
            /\ UNCHANGED best_SM_arch
       ELSE /\ best_SM_arch' = BetterArch(best_SM_arch, deviceProp')
            /\ UNCHANGED devices_prohibited
    /\ current_device' = current_device + 1
    /\ UNCHANGED <<machine, pc, max_compute_perf, max_perf_device, result>>

ArchDone ==
    /\ pc = "arch" /\ current_device = device_count
    /\ IF devices_prohibited = device_count
       THEN Return("CUDA_ERROR") /\ UNCHANGED current_device
       ELSE pc' = "speed" /\ current_device' = 0 /\ UNCHANGED result
    /\ UNCHANGED <<machine, best_SM_arch, devices_prohibited, max_compute_perf,
                   max_perf_device, deviceProp, unanswered>>

\* Fermi and older (2 and less) compete with each other; of anything newer only
\* the best architecture does.
Faster(prop) ==
    /\ ~prop.prohibited
    /\ compute_perf(prop) > max_compute_perf
    /\ best_SM_arch > 2 => prop.major = best_SM_arch

\* Mutant of SpeedLoop: notes the device after the counter has moved on.
SpeedLoopNotesNext ==
    /\ pc = "speed" /\ current_device < device_count
    /\ GetDeviceProperties
    /\ IF Faster(deviceProp')
       THEN /\ max_compute_perf' = compute_perf(deviceProp')
            /\ max_perf_device' = current_device + 1
       ELSE UNCHANGED <<max_compute_perf, max_perf_device>>
    /\ current_device' = current_device + 1
    /\ UNCHANGED <<machine, pc, best_SM_arch, devices_prohibited, result>>

SpeedLoop ==
    /\ pc = "speed" /\ current_device < device_count
    /\ GetDeviceProperties
    /\ IF Faster(deviceProp')
       THEN /\ max_compute_perf' = compute_perf(deviceProp')
            /\ max_perf_device' = current_device
       ELSE UNCHANGED <<max_compute_perf, max_perf_device>>
    /\ current_device' = current_device + 1
    /\ UNCHANGED <<machine, pc, best_SM_arch, devices_prohibited, result>>

SpeedDone ==
    /\ pc = "speed" /\ current_device = device_count
    /\ Return("NO_ERROR")
    /\ UNCHANGED <<machine, current_device, best_SM_arch, devices_prohibited,
                   max_compute_perf, max_perf_device, deviceProp, unanswered>>

Init ==
    /\ device_count \in 0 .. MaxDevices
    /\ properties \in [Devices -> DeviceProps]
    /\ pc = "count"
    /\ current_device = 0 /\ best_SM_arch = 0 /\ devices_prohibited = 0
    /\ max_compute_perf = 0 /\ max_perf_device = 0
    /\ deviceProp \in DeviceProps
    /\ result = "none" /\ unanswered = {}

Next == GetDeviceCount \/ ArchLoop \/ ArchDone \/ SpeedLoop \/ SpeedDone

Spec == Init /\ [][Next]_vars

-----------------------------------------------------------------------------
TypeOK ==
    /\ device_count \in 0 .. MaxDevices
    /\ properties \in [Devices -> DeviceProps]
    /\ pc \in {"count", "arch", "speed", "done"}
    /\ current_device \in 0 .. device_count
    /\ best_SM_arch \in Nat /\ devices_prohibited \in 0 .. device_count
    /\ max_compute_perf \in Nat
    /\ max_perf_device \in Devices \cup {0}
    /\ deviceProp \in DeviceProps
    /\ result \in {"none", "NO_ERROR", "CUDA_ERROR", "CUDA_NODEVICE"}
    /\ unanswered \subseteq Devices

Allowed == {d \in Devices : ~properties[d].prohibited}

\* d has the best architecture of the machine: no allowed device has a newer one.
HasBestArch(d) ==
    /\ RealArch(properties[d].major)
    /\ \A e \in Allowed : RealArch(properties[e].major) =>
                              properties[e].major <= properties[d].major

Modern == \E e \in Allowed : properties[e].major > 2 /\ RealArch(properties[e].major)

\* The devices the choice is between.
Eligible == {d \in Allowed : Modern => HasBestArch(d)}

\* What the call is for, when every query was answered: the device it returns
\* is allowed ("If this GPU is not running on Compute Mode prohibited, then we
\* can add it to the list", MWVideoRender.cpp:262), has the best architecture
\* there is (unless all are Fermi or older), no other such device is faster, and
\* none before it is as fast.
ChosenIsBest ==
    result = "NO_ERROR" /\ unanswered = {} =>
        /\ max_perf_device \in Eligible
        /\ \A d \in Eligible :
              LET best == compute_perf(properties[max_perf_device])
              IN  /\ compute_perf(properties[d]) <= best
                  /\ d < max_perf_device => compute_perf(properties[d]) < best
=============================================================================
