-------------------------------- MODULE ArmLifecycle --------------------------------
(***************************************************************************)
(* An arm's life on the host: ArmImpl is built by Arm::create, shared by   *)
(* the Arm, the gripper and the ActiveControls made from them, and says    *)
(* goodbye to the device when the last of them lets go.                    *)
(*                                                                         *)
(* A request is the bytes it sends: the code drops the device's answer,    *)
(* and goes on when the answer or the timeout comes, except that enable,   *)
(* drag and disable throw at the timeout.  What is sent reaches the device *)
(* in order (Serial models the port that may fail); the device is external.*)
(***************************************************************************)
EXTENDS Protocol, Sequences

CONSTANTS Arms,        \* each at its own port
          Positions,   \* what a status may measure
          FirstModes,  \* the modes a device may be found in
          MaxWire,     \* packets the port and the device buffer before send blocks
          MaxQueue     \* bound on the statuses waiting to be read

ASSUME LifecycleAssumption == /\ Positions \subseteq Nat \ {0} /\ FirstModes \subseteq ArmMode
                              /\ MaxWire \in Nat \ {0} /\ MaxQueue \in Nat \ {0}

VARIABLES life, owners,     \* of the ArmImpl of each arm
          disconnect_mode_change_enabled,
          info, pool,       \* m_device_info; the response in the packet pool
          s_gripper,        \* the arm of the one static Gripper, as a set
          rx,               \* the statuses to be read
          wire, reply,      \* packets on their way to the device; ids of answers on theirs back
          device,           \* the device's mode and its client
          requested, strayed   \* the mode the program requested last; whether ever another than Pc
hostVars == <<life, owners, disconnect_mode_change_enabled, info, pool, s_gripper>>
linkVars == <<wire, reply, device>>
modeVars == <<requested, strayed>>
armVars  == <<hostVars, linkVars, rx, modeVars>>

Message(packet) == [packet |-> packet, mode |-> "none", value |-> 0]
Sends(a, m) == /\ Len(wire[a]) < MaxWire
               /\ wire' = [wire EXCEPT ![a] = Append(@, m)]

Open == {"opened", "asked", "greeted", "up", "damped", "left"}    \* the port is open

Init == /\ life = [a \in Arms |-> "none"]
        /\ owners = [a \in Arms |-> {}]
        /\ disconnect_mode_change_enabled = [a \in Arms |-> TRUE]
        /\ info = [a \in Arms |-> "none"]
        /\ pool = [a \in Arms |-> [req_id |-> 0, from |-> "default"]]
        /\ s_gripper = {}
        /\ rx = [a \in Arms |-> <<>>]
        /\ wire = [a \in Arms |-> <<>>]
        /\ reply = [a \in Arms |-> {}]
        /\ \E mode \in FirstModes : device = [a \in Arms |-> [mode |-> mode, client |-> "never"]]
        /\ requested = [a \in Arms |-> device[a].mode]
        /\ strayed = [a \in Arms |-> FALSE]

-----------------------------------------------------------------------------
(* Arm::create and the constructors it runs *)

Lives(a, from, to) == life[a] = from /\ life' = [life EXCEPT ![a] = to]

OpenPort(a) ==
  /\ Lives(a, "none", "opened") \/ Lives(a, "none", "failed")
  /\ UNCHANGED <<owners, disconnect_mode_change_enabled, info, pool, s_gripper, linkVars, rx, modeVars>>

FirstIdZero == 0         \* faulty: the id of an empty slot of the pool
FirstId == 1

AskInfo(a) ==
  /\ Lives(a, "opened", "asked")
  /\ Sends(a, [Message("GetDeviceInfo") EXCEPT !.value = FirstId])
  /\ UNCHANGED <<owners, disconnect_mode_change_enabled, info, pool, s_gripper, reply, device, rx, modeVars>>

SeeInfo(a) ==
  /\ Lives(a, "asked", "greeted")
  /\ pool[a].req_id = FirstId
  /\ info' = [info EXCEPT ![a] = pool[a].from]
  /\ UNCHANGED <<owners, disconnect_mode_change_enabled, pool, s_gripper, linkVars, rx, modeVars>>

(* The constructor throws, which closes the port without a word.           *)
InfoTimesOut(a) ==
  /\ Lives(a, "asked", "failed")
  /\ UNCHANGED <<owners, disconnect_mode_change_enabled, info, pool, s_gripper, linkVars, rx, modeVars>>

Connect(a) ==
  /\ Lives(a, "greeted", "up")
  /\ owners' = [owners EXCEPT ![a] = {"arm"}]
  /\ Sends(a, Message("SdkClientConnected"))
  /\ UNCHANGED <<disconnect_mode_change_enabled, info, pool, s_gripper, reply, device, rx, modeVars>>

Construct(a) == AskInfo(a) \/ SeeInfo(a) \/ InfoTimesOut(a) \/ Connect(a)
Constructing(a) == life[a] \in {"opened", "asked", "greeted"}

-----------------------------------------------------------------------------
(* ~ArmImpl, in the thread that let go last *)

LostArm(a) == "arm" \notin owners[a]     \* faulty: does not wait for the others who share it
Lost(a) == owners[a] = {}

DampAlways(a) == TRUE    \* faulty: ignores the opting out
DampWanted(a) == disconnect_mode_change_enabled[a]

ByeFirst(a) ==           \* faulty: Disconnected before Damp
  /\ Lost(a) /\ Lives(a, "up", "left")
  /\ Len(wire[a]) + 1 < MaxWire
  /\ wire' = [wire EXCEPT ![a] = @ \o <<Message("SdkClientDisconnected"),
                                        [Message("SetArmMode") EXCEPT !.mode = "Damp"]>>]
  /\ UNCHANGED <<owners, disconnect_mode_change_enabled, info, pool, s_gripper, reply, device, rx, modeVars>>

Damp(a) ==
  /\ Lost(a) /\ Lives(a, "up", "damped")
  /\ \/ ~DampWanted(a) /\ UNCHANGED wire
     \/ DampWanted(a) /\ Sends(a, [Message("SetArmMode") EXCEPT !.mode = "Damp"])
  /\ UNCHANGED <<owners, disconnect_mode_change_enabled, info, pool, s_gripper, reply, device, rx, modeVars>>

Bye(a) ==
  /\ Lives(a, "damped", "left")
  /\ Sends(a, Message("SdkClientDisconnected"))
  /\ UNCHANGED <<owners, disconnect_mode_change_enabled, info, pool, s_gripper, reply, device, rx, modeVars>>

ClosePort(a) ==
  /\ Lives(a, "left", "gone")
  /\ UNCHANGED <<owners, disconnect_mode_change_enabled, info, pool, s_gripper, linkVars, rx, modeVars>>

Destruct(a) == Damp(a) \/ Bye(a) \/ ClosePort(a)
Destructing(a) == Lost(a) /\ life[a] \in {"up", "damped", "left"}

-----------------------------------------------------------------------------
(* What a program does with an arm that is up, and with what it made of it *)

Owns(a, handle) == owners' = [owners EXCEPT ![a] = @ \cup {handle}]

RequestsMode(a, mode) ==
  /\ Sends(a, [Message("SetArmMode") EXCEPT !.mode = mode])
  /\ requested' = [requested EXCEPT ![a] = mode]
  /\ strayed' = [strayed EXCEPT ![a] = @ \/ mode # "Pc"]

(* enable, drag, disable, and the request that starts a control loop       *)
RequestMode(a, mode) ==
  /\ "arm" \in owners[a]
  /\ RequestsMode(a, mode)
  /\ UNCHANGED <<hostVars, reply, device, rx>>

SetDisconnectModeChange(a, enabled) ==
  /\ "arm" \in owners[a]
  /\ disconnect_mode_change_enabled' = [disconnect_mode_change_enabled EXCEPT ![a] = enabled]
  /\ UNCHANGED <<life, owners, info, pool, s_gripper, linkVars, rx, modeVars>>

(* The static Gripper keeps the ArmImpl of the arm that asked first.       *)
GetGripper(a) ==
  /\ "arm" \in owners[a]
  /\ \/ /\ s_gripper # {}
        /\ UNCHANGED <<s_gripper, owners>>
     \/ /\ s_gripper = {}
        /\ s_gripper' = {a}
        /\ Owns(a, "gripper")
  /\ UNCHANGED <<life, disconnect_mode_change_enabled, info, pool, linkVars, rx, modeVars>>

PreparedNot(a) == UNCHANGED <<wire, modeVars>>      \* faulty: leaves the mode as it is
Prepared(a) == RequestsMode(a, "Pc")

StartJointMITControl(a) ==
  /\ "arm" \in owners[a]
  /\ Prepared(a)
  /\ Owns(a, "joint")
  /\ UNCHANGED <<life, disconnect_mode_change_enabled, info, pool, s_gripper, reply, device, rx>>

(* The gripper's asks for no mode.                                         *)
StartGripperControl(a) ==
  /\ a \in s_gripper
  /\ Owns(a, "gripping")
  /\ UNCHANGED <<life, disconnect_mode_change_enabled, info, pool, s_gripper, linkVars, rx, modeVars>>

(* writeOnce, or a control loop's command: packed and sent.  Of a packet   *)
(* only the target of the joint, or gripper, that moves is kept.           *)
s_pack(target)        == [Message("JointMITCommand") EXCEPT !.value = target]
s_packGripper(target) == [Message("GripperCommand") EXCEPT !.value = target]

s_sendCommand(a, target) ==
  /\ Sends(a, s_pack(target))
  /\ UNCHANGED <<hostVars, reply, device, rx, modeVars>>

s_notify(a, target) ==
  /\ Sends(a, s_packGripper(target))
  /\ UNCHANGED <<hostVars, reply, device, rx, modeVars>>

LetGo(a, handle) ==
  /\ handle \in owners[a]
  /\ owners' = [owners EXCEPT ![a] = @ \ {handle}]
  /\ s_gripper' = IF handle = "gripper" THEN {} ELSE s_gripper
  /\ UNCHANGED <<life, disconnect_mode_change_enabled, info, pool, linkVars, rx, modeVars>>

(* readOnce: an empty queue reads as a status with number 0.               *)
ReadStatus(a) ==
  /\ rx[a] # <<>>
  /\ rx' = [rx EXCEPT ![a] = Tail(@)]
  /\ UNCHANGED <<hostVars, linkVars, modeVars>>

-----------------------------------------------------------------------------
(* The device, and the I/O thread that takes what it sends *)

Accepts(d, m) ==
  [mode   |-> IF m.packet = "SetArmMode" THEN m.mode ELSE d.mode,
   client |-> CASE m.packet = "SdkClientConnected"    -> "yes"
                [] m.packet = "SdkClientDisconnected" -> "left"
                [] OTHER                              -> d.client]

Handle(a) ==
  LET m == Head(wire[a]) IN
    /\ wire[a] # <<>>
    /\ wire' = [wire EXCEPT ![a] = Tail(@)]
    /\ device' = [device EXCEPT ![a] = Accepts(@, m)]
    /\ reply' = [reply EXCEPT ![a] = IF m.packet = "GetDeviceInfo" THEN {m.value} ELSE @]
    /\ UNCHANGED <<hostVars, rx, modeVars>>

FeedInfo(a) ==
  /\ life[a] \in Open
  /\ \E id \in reply[a] : pool' = [pool EXCEPT ![a] = [req_id |-> id, from |-> "device"]]
  /\ reply' = [reply EXCEPT ![a] = {}]
  /\ UNCHANGED <<life, owners, disconnect_mode_change_enabled, info, s_gripper, wire, device, rx, modeVars>>

FeedStatus(a) ==
  /\ life[a] \in Open
  /\ Len(rx[a]) < MaxQueue
  /\ \E q \in Positions : rx' = [rx EXCEPT ![a] = Append(@, q)]
  /\ UNCHANGED <<hostVars, linkVars, modeVars>>
=============================================================================
