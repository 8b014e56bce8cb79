-------------------------------- MODULE Programs --------------------------------
(***************************************************************************)
(* The programs of the repository over ArmLifecycle: the three examples    *)
(* (echo the state, move the grippers, move a joint along a sine) and a    *)
(* Python client, which may do anything the bindings offer with two arms.  *)
(* Each runs in one thread; SIGINT may come at any time.                   *)
(***************************************************************************)
EXTENDS ArmLifecycle

CONSTANTS Running,     \* the programs considered
          First,       \* the arm an example is given on its command line
          MaxPolls,    \* tries to read the grippers' first position; 50 in the code
          MaxOps       \* bound on the Python client's calls

ASSUME ProgramsAssumption ==
  /\ Running \subseteq {"echo", "gripper", "sine", "python"}
  /\ First \in Arms
  /\ MaxPolls \in Nat /\ MaxOps \in Nat

VARIABLES program, pc,
          g_running,
          initial,      \* the position a motion starts from; 0 before one was read
          command,      \* what the callback returned: target and whether it finishes
          count,        \* polls, or calls, so far
          silent        \* arms that send no more statuses
programVars == <<program, pc, initial, command, count>>
vars == <<armVars, programVars, g_running, silent>>

InitPrograms == /\ Init
                /\ program \in Running
                /\ pc = "create"
                /\ g_running = TRUE
                /\ initial = 0
                /\ command = [target |-> 0, finished |-> FALSE]
                /\ count = 0
                /\ silent = {}

Goto(l) == pc' = l

(* In the middle of a constructor or a destructor the program does nothing *)
(* else.                                                                   *)
Busy == \E a \in Arms : Constructing(a) \/ Destructing(a)

-----------------------------------------------------------------------------
(* The examples *)

Create == /\ program # "python" /\ pc = "create"
          /\ OpenPort(First)
          /\ Goto("creating")
          /\ UNCHANGED <<program, initial, command, count>>

(* An exception of Arm::create ends the program: nobody catches it.        *)
FirstStep == [echo |-> "read", gripper |-> "grip", sine |-> "control"]
Created == /\ pc = "creating" /\ ~Constructing(First)
           /\ Goto(IF life[First] = "up" THEN FirstStep[program] ELSE "dead")
           /\ UNCHANGED <<armVars, program, initial, command, count>>

(* 00_echo_arm_state: Arm::read calls back with every status but number 0. *)
Echo == /\ pc = "read"
        /\ ReadStatus(First)
        /\ Goto(IF g_running THEN "read" ELSE "exit")
        /\ UNCHANGED <<program, initial, command, count>>

(* 01_gripper_move *)
Grip == \/ /\ pc = "grip"
           /\ GetGripper(First)
           /\ Goto("start")
           /\ UNCHANGED <<program, initial, command, count>>
        \/ /\ pc = "start"
           /\ StartGripperControl(First)
           /\ Goto("poll")
           /\ UNCHANGED <<program, initial, command, count>>

Poll == /\ pc = "poll"
        /\ \/ /\ ReadStatus(First)
              /\ initial' = Head(rx[First])
              /\ Goto("loop")
              /\ UNCHANGED count
           \/ /\ rx[First] = <<>>
              /\ count' = count + 1
              /\ Goto(IF count' >= MaxPolls THEN "loop" ELSE "poll")
              /\ UNCHANGED <<armVars, initial>>
        /\ UNCHANGED <<program, command>>

Loop == /\ pc = "loop"
        /\ \/ /\ ~g_running
              /\ Goto("exit")
              /\ UNCHANGED armVars
           \/ /\ g_running
              /\ ReadStatus(First)
              /\ Goto("write")
        /\ UNCHANGED <<program, initial, command, count>>

(* Open is half a radian below the initial position, here 1.               *)
Write == /\ pc = "write"
         /\ \E opening \in {0, 1} : s_notify(First, initial - opening)
         /\ Goto("loop")
         /\ UNCHANGED <<program, initial, command, count>>

(* 01_joint_sine_motion, in Arm::control: the turns of s_controlLoop, which *)
(* ArmPipeline has step by step, with this callback.                       *)
Control == /\ pc = "control"
           /\ RequestMode(First, "Pc")
           /\ Goto("turn")
           /\ UNCHANGED <<program, initial, command, count>>

FinishedNever == FALSE      \* faulty: the callback forgets to finish
Finished == ~g_running

Turn == /\ pc = "turn"
        /\ ReadStatus(First)
        /\ initial' = IF initial = 0 THEN Head(rx[First]) ELSE initial
        /\ \E offset \in IF initial = 0 THEN {0} ELSE {0, 1} :
             command' = [target |-> initial' + offset, finished |-> Finished]
        /\ Goto("send")
        /\ UNCHANGED <<program, count>>

Send == /\ pc = "send"
        /\ s_sendCommand(First, command.target)
        /\ Goto(IF command.finished THEN "exit" ELSE "turn")
        /\ UNCHANGED <<program, initial, command, count>>

(* main returns: its variables go in the reverse order of their making,    *)
(* then the static Gripper.                                                *)
ExitOrder == <<"gripping", "arm", "gripper">>

NothingLeft == \A a \in Arms : owners[a] = {}
Exit == /\ pc = "exit" /\ ~Busy
        /\ \/ /\ NothingLeft
              /\ Goto("done")
              /\ UNCHANGED armVars
           \/ /\ \E h \in 1 .. 3 : /\ LetGo(First, ExitOrder[h])
                                   /\ \A g \in 1 .. h - 1 : ExitOrder[g] \notin owners[First]
              /\ Goto("exit")
        /\ UNCHANGED <<program, initial, command, count>>

Example == Create \/ Created \/ Echo \/ Grip \/ Poll \/ Loop \/ Write \/ Control \/ Turn \/ Send \/ Exit

-----------------------------------------------------------------------------
(* The Python client *)

(* Objects are collected in any order, the static Gripper at the very end. *)
Collect(a) ==
  \E handle \in owners[a] :
    /\ handle = "gripper" => pc = "exit" /\ \A b \in Arms : owners[b] \subseteq {"gripper"}
    /\ LetGo(a, handle)

CallArm(a) ==
  \/ OpenPort(a)
  \/ \E mode \in ArmMode : RequestMode(a, mode)
  \/ \E enabled \in BOOLEAN : SetDisconnectModeChange(a, enabled)
  \/ GetGripper(a)
  \/ StartJointMITControl(a)

CallHandle(a) ==
  \/ StartGripperControl(a)
  \/ ReadStatus(a)
  \/ \E q \in Positions : \/ "joint" \in owners[a] /\ s_sendCommand(a, q)
                          \/ "gripping" \in owners[a] /\ s_notify(a, q)

Python ==
  /\ program = "python" /\ ~Busy
  /\ \/ /\ pc = "create" /\ count < MaxOps
        /\ \E a \in Arms : CallArm(a) \/ CallHandle(a) \/ Collect(a)
        /\ count' = count + 1
        /\ UNCHANGED pc
     \/ /\ pc = "create"
        /\ Goto("exit")
        /\ UNCHANGED <<armVars, count>>
  /\ UNCHANGED <<program, initial, command>>

PythonExits ==
  /\ program = "python" /\ ~Busy /\ pc = "exit"
  /\ \E a \in Arms : Collect(a)
  /\ UNCHANGED programVars

-----------------------------------------------------------------------------
Interrupt == /\ g_running /\ program # "python"
             /\ g_running' = FALSE
             /\ UNCHANGED <<armVars, programVars, silent>>

(* Of an example's arm: a Python client here waits for no status.          *)
FallSilent(a) == /\ program # "python" /\ a = First /\ a \notin silent
                 /\ silent' = silent \cup {a}
                 /\ UNCHANGED <<armVars, programVars, g_running>>

Streams(a) == a \notin silent /\ FeedStatus(a)

Link(a)     == (Handle(a) \/ FeedInfo(a) \/ Streams(a)) /\ UNCHANGED <<programVars, g_running, silent>>
Library(a)  == (Construct(a) \/ Destruct(a)) /\ UNCHANGED <<programVars, g_running, silent>>
RunProgram  == (Example \/ PythonExits) /\ UNCHANGED <<g_running, silent>>
CallLibrary == Python /\ UNCHANGED <<g_running, silent>>

Next == \/ RunProgram \/ CallLibrary \/ Interrupt
        \/ \E a \in Arms : Library(a) \/ Link(a) \/ FallSilent(a)

(* Programs and the library run; a device takes what is sent to it, and    *)
(* sends statuses until it falls silent.                                   *)
Spec == /\ InitPrograms /\ [][Next]_vars
        /\ WF_vars(RunProgram)
        /\ \A a \in Arms : /\ WF_vars(Library(a))
                           /\ WF_vars(Handle(a) /\ UNCHANGED <<programVars, g_running, silent>>)
                           /\ WF_vars(Streams(a) /\ UNCHANGED <<programVars, g_running, silent>>)

-----------------------------------------------------------------------------
Handles == {"arm", "gripper", "joint", "gripping"}
Messages == [packet : UNION {DOMAIN t : t \in {Requests, DeviceInfoRequests, Commands}},
             mode : ArmMode \cup {"none"}, value : Int]

TypeOK == /\ life \in [Arms -> Open \cup {"none", "gone", "failed"}]
          /\ owners \in [Arms -> SUBSET Handles]
          /\ disconnect_mode_change_enabled \in [Arms -> BOOLEAN]
          /\ info \in [Arms -> {"none", "default", "device"}]
          /\ pool \in [Arms -> [req_id : Nat, from : {"default", "device"}]]
          /\ s_gripper \subseteq Arms
          /\ rx \in [Arms -> Seq(Positions)]
          /\ wire \in [Arms -> Seq(Messages)]
          /\ reply \in [Arms -> SUBSET Nat]
          /\ device \in [Arms -> [mode : ArmMode, client : {"never", "yes", "left"}]]
          /\ requested \in [Arms -> ArmMode] /\ strayed \in [Arms -> BOOLEAN]
          /\ initial \in Nat /\ count \in Nat /\ g_running \in BOOLEAN /\ silent \subseteq Arms

(* Whoever holds a handle holds a living ArmImpl, whatever was destroyed   *)
(* before; the device information of a living one came from its device,    *)
(* not from the empty pool; and when a program is done every ArmImpl it    *)
(* made has gone through its destructor.                                   *)
LifecycleInv ==
  /\ TypeOK
  /\ \A a \in Arms : /\ owners[a] # {} => life[a] = "up"
                     /\ life[a] \in {"greeted", "up", "damped", "left", "gone"} <=> info[a] = "device"
                     /\ info[a] # "default"
                     /\ a \in s_gripper <=> "gripper" \in owners[a]
                     /\ pc = "done" => life[a] \in {"none", "failed", "gone"}

(* To the device a session is: the question, Connected, then requests and  *)
(* commands, and Disconnected with nothing after it.                       *)
GoodbyeIsLast ==
  \A a \in Arms :
    /\ device[a].client = "left" => wire[a] = <<>>
    /\ \A i \in DOMAIN wire[a] :
         /\ wire[a][i].packet = "SdkClientDisconnected" => i = Len(wire[a])
         /\ device[a].client = "never" /\ wire[a][i].packet \notin {"GetDeviceInfo", "SdkClientConnected"} =>
              \E j \in 1 .. i - 1 : wire[a][j].packet = "SdkClientConnected"

(* "When false, destroying this Arm leaves the firmware mode unchanged"    *)
(* (pyflorid.cpp); otherwise the device ends in Damp, whoever let go last. *)
ModeAtTheEnd ==
  \A a \in Arms : device[a].client = "left" =>
    device[a].mode = IF disconnect_mode_change_enabled[a] THEN "Damp" ELSE requested[a]

(* A device moves joints in the mode for it: as long as the program asked  *)
(* for no other mode, joint commands find it in Pc.                        *)
JointCommandsInPc ==
  \A a \in Arms : wire[a] # <<>> /\ Head(wire[a]).packet = "JointMITCommand" /\ ~strayed[a] =>
    device[a].mode = "Pc"

(* SIGINT, or the end of the Python program, ends it, with the goodbyes    *)
(* said.  Only a program that waits for statuses may wait for ever: Echo   *)
(* and the sine look at g_running when a status has come.                  *)
Waits == program \in {"echo", "sine"} /\ First \in silent
SignalEndsProgram ==
  (~g_running \/ (program = "python" /\ pc = "exit")) ~> (pc \in {"done", "dead"} \/ Waits)
=============================================================================
