-------------------------------- MODULE Protocol --------------------------------
(***************************************************************************)
(* The packets of the arm's control session and of its firmware upgrade    *)
(* session: size in bytes (the structures are packed), command number and  *)
(* category, which decides how a packet travels: a request carries an id   *)
(* and is answered by an ack, a notification is sent and forgotten.        *)
(***************************************************************************)
EXTENDS Integers, FiniteSets

Header == 5        \* start byte, two of length, two of command; no tail

kDualJointCount == 12
kGripperCount   == 2
Float  == 4
Semver == 3

(* Both arms' joints, or grippers: position, velocity and torque.          *)
JointStatus   == 3 * kDualJointCount * Float
GripperStatus == 3 * kGripperCount * Float
(* mode, seq, time stamp, joints, gravity, grippers, poses, wrenches,      *)
(* errors, echoed time stamp                                               *)
ArmStatus == 1 + 4 + 8 + JointStatus + 2 * 3 * Float + GripperStatus
               + 2 * 16 * Float + 2 * 6 * Float + 4 + 8
TriggerPacket == 8 + 2
AckPacket     == 1 + 2 + 1
(* Five floats for each joint or gripper; seq, mode and time stamp.        *)
CommandPacket(joints) == 5 * joints * Float + 2 + 1 + 8

DeviceInfo           == 2 * Semver + 2 * 32 + 1
SetDeviceInfoCommand == 32 + 1
ModeCommand  == 1
DummyCommand == 1
RequestPacket(payload) == 1 + payload        \* the request id comes first

ArmMode == {"Pc", "Drag", "Damp"}

Command == [ArmStatus |-> \h6001, GripperStatus |-> \h6003, Trigger |-> \h6004, Ack |-> \h6FF0,
            ClearFaults |-> \h6205, SdkClientConnected |-> \h6209, SdkClientDisconnected |-> \h620B,
            GetDeviceInfo |-> \h6215, SetDeviceInfo |-> \h6217, ArmControlMode |-> \h6219,
            GripperControlMode |-> \h621B, SetArmMode |-> \h6225, GetDeviceInfoResponse |-> \h6216,
            JointMITCommand |-> \h6301, GripperCommand |-> \h6305]

Packets(commands, category, sizes) ==
  [n \in DOMAIN sizes |-> [cmd |-> commands[n], size |-> sizes[n], category |-> category]]

Notifications ==      \* from the firmware
  Packets(Command, "notification",
    [ArmStatus |-> ArmStatus, GripperStatus |-> GripperStatus, Trigger |-> TriggerPacket])
Acks ==
  Packets(Command, "ack", [Ack |-> AckPacket])
Requests ==           \* from the host
  Packets(Command, "request",
    [ArmControlMode        |-> RequestPacket(ModeCommand),
     GripperControlMode    |-> RequestPacket(ModeCommand),
     SetArmMode            |-> RequestPacket(ModeCommand),
     ClearFaults           |-> RequestPacket(DummyCommand),
     SdkClientConnected    |-> RequestPacket(DummyCommand),
     SdkClientDisconnected |-> RequestPacket(DummyCommand)])
DeviceInfoRequests ==
  Packets(Command, "request",
    [GetDeviceInfo |-> RequestPacket(DummyCommand), SetDeviceInfo |-> RequestPacket(SetDeviceInfoCommand)])
DeviceInfoResponses ==
  Packets(Command, "notification", [GetDeviceInfoResponse |-> RequestPacket(DeviceInfo)])
Commands ==
  Packets(Command, "notification",
    [JointMITCommand |-> CommandPacket(kDualJointCount), GripperCommand |-> CommandPacket(kGripperCount)])
USBAck == [USBAck |-> [cmd |-> 0, size |-> 1 + 1, category |-> "ack"]]

Version == 4
UpgradeCommand == [GetBootStatus |-> \h10, BootStatus |-> \h11, StartUpgrade |-> \h12,
                   StartUpgradeResponse |-> \h13, Reboot |-> \h1C, Rebooting |-> \h1D]
(* Of a boot status: eight states and slots, two limits, two slots'        *)
(* address and size, progress.  Of a started upgrade: four ids and flags,  *)
(* session, offset, two limits.                                            *)
UpgradeSize ==
  [GetBootStatus |-> 1, BootStatus |-> 8 + 2 * 2 + 5 * 4,
   StartUpgrade |-> 4 + Version, StartUpgradeResponse |-> 4 + 2 * 4 + 2 * 2,
   Reboot |-> 4, Rebooting |-> 4]
UpgradePackets ==
  [n \in DOMAIN UpgradeSize |->
     [cmd |-> UpgradeCommand[n], size |-> UpgradeSize[n],
      category |-> IF n \in {"GetBootStatus", "StartUpgrade", "Reboot"} THEN "request" ELSE "notification"]]

-----------------------------------------------------------------------------
(* A session dispatches on the command number alone, so that its packets   *)
(* must differ in it, the transport's own ack included.                    *)
PacketsOf(tables) == UNION {{t[n] : n \in DOMAIN t} : t \in tables}
CommandsDiffer(tables) ==
  \A s, t \in tables : \A m \in DOMAIN s, n \in DOMAIN t :
    s[m].cmd = t[n].cmd => s = t /\ m = n

StreamSession(tables) == {USBAck} \cup tables
ArmControlSession     == StreamSession({Notifications, Acks, Requests, DeviceInfoRequests,
                                        DeviceInfoResponses, Commands})
UpgradeControlSession == StreamSession({UpgradePackets})

ASSUME ArmCommandsDiffer     == CommandsDiffer(ArmControlSession)
ASSUME UpgradeCommandsDiffer == CommandsDiffer(UpgradeControlSession)
ASSUME UpgradePacketsShort   ==
  \A p \in PacketsOf({UpgradePackets}) : p.size <= \hFF

(* The parser's buffer holds four of the longest frames, rounded up to a   *)
(* power of two.  With the residue of an unfinished frame in it, it takes  *)
(* any chunk of GuaranteedRoom bytes: StreamParser's RoomForChunk.         *)
MaxFrame   == CHOOSE m \in {Header + p.size : p \in PacketsOf(ArmControlSession)} :
                \A p \in PacketsOf(ArmControlSession) : Header + p.size <= m
BufferSize == CHOOSE b \in {2 ^ k : k \in 0 .. 15} : 4 * MaxFrame <= b /\ b < 8 * MaxFrame
GuaranteedRoom == (BufferSize + 1 - MaxFrame) \div 2
ASSUME TwoFramesFit == 2 * MaxFrame <= GuaranteedRoom
=============================================================================
