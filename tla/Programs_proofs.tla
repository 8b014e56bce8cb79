----------------------------- MODULE Programs_proofs -----------------------------
(***************************************************************************)
(* The programs and the arms they hold: nobody holds an arm that is not    *)
(* up, the goodbye to a device is last, the device is left in the mode     *)
(* asked for, and a joint command finds it in Pc; for any number of arms,  *)
(* whatever lengths the wire and the queues have, and every program.       *)
(***************************************************************************)
EXTENDS Programs, SequenceTheorems, TLAPS

(* The packets a program sends are among those of the protocol.            *)
LEMMA PacketNames ==
  {"GetDeviceInfo", "SdkClientConnected", "SdkClientDisconnected", "SetArmMode", "JointMITCommand",
   "GripperCommand"} \subseteq UNION {DOMAIN t : t \in {Requests, DeviceInfoRequests, Commands}}
<1>1. {"SdkClientConnected", "SdkClientDisconnected", "SetArmMode"} \subseteq DOMAIN Requests
  BY DEF Requests, Packets
<1>2. "GetDeviceInfo" \in DOMAIN DeviceInfoRequests
  BY DEF DeviceInfoRequests, Packets
<1>3. {"JointMITCommand", "GripperCommand"} \subseteq DOMAIN Commands
  BY DEF Commands, Packets
<1>4. QED
  BY <1>1, <1>2, <1>3

Sendable == {m \in Messages : /\ m.packet = "GetDeviceInfo" => m.value \in Nat
                              /\ m.packet = "SetArmMode" => m.mode \in ArmMode}

LEMMA MessageTypes ==
  /\ \A p \in {"SdkClientConnected", "SdkClientDisconnected"} :
       Message(p) \in Sendable /\ Message(p).packet = p
  /\ LET m == [Message("GetDeviceInfo") EXCEPT !.value = FirstId] IN
       m \in Sendable /\ m.packet = "GetDeviceInfo"
  /\ \A mode \in ArmMode : LET m == [Message("SetArmMode") EXCEPT !.mode = mode] IN
       m \in Sendable /\ m.packet = "SetArmMode" /\ m.mode = mode
  /\ \A q \in Int : s_pack(q) \in Sendable /\ s_pack(q).packet = "JointMITCommand"
  /\ \A q \in Int : s_packGripper(q) \in Sendable /\ s_packGripper(q).packet = "GripperCommand"
<1> DEFINE Names == UNION {DOMAIN t : t \in {Requests, DeviceInfoRequests, Commands}}
<1>1. \A p \in {"GetDeviceInfo", "SdkClientConnected", "SdkClientDisconnected", "SetArmMode",
                "JointMITCommand", "GripperCommand"} : p \in Names
  BY PacketNames
<1>2. Messages = [packet : Names, mode : ArmMode \cup {"none"}, value : Int]
  BY DEF Messages
<1> HIDE DEF Names
<1>3. QED
  BY <1>1, <1>2 DEF Message, s_pack, s_packGripper, FirstId, Sendable

-----------------------------------------------------------------------------
(* A wire that one message is put on, and that the device takes one from.  *)
LEMMA Sent ==
  ASSUME NEW w \in Seq(Sendable), NEW x \in Sendable
  PROVE  /\ Append(w, x) \in Seq(Sendable) /\ Append(w, x) # <<>>
         /\ Len(Append(w, x)) = Len(w) + 1 /\ Len(w) \in Nat
         /\ \A i \in 1 .. Len(w) : Append(w, x)[i] = w[i]
         /\ Append(w, x)[Len(w) + 1] = x
<1>1. QED
  BY AppendProperties, LenProperties, EmptySeq

LEMMA Taken ==
  ASSUME NEW w \in Seq(Sendable), w # <<>>
  PROVE  /\ Tail(w) \in Seq(Sendable) /\ Len(Tail(w)) = Len(w) - 1 /\ Len(w) \in Nat \ {0}
         /\ \A i \in 1 .. Len(w) - 1 : Tail(w)[i] = w[i + 1]
         /\ Head(w) = w[1] /\ Head(w) \in Sendable
BY HeadTailProperties, LenProperties, EmptySeq

(* The mode the device will be in when it takes what is at place n of the  *)
(* wire.                                                                   *)
NoModeIn(w, i, n) == \A k \in 1 .. Len(w) : i < k /\ k < n => w[k].packet # "SetArmMode"
InEffect(w, mode, n, m) ==
  \/ mode = m /\ NoModeIn(w, 0, n)
  \/ \E j \in 1 .. Len(w) : /\ j < n /\ NoModeIn(w, j, n)
                            /\ w[j].packet = "SetArmMode" /\ w[j].mode = m

LEMMA EffectStays ==
  ASSUME NEW w \in Seq(Sendable), NEW x \in Sendable, NEW mode, NEW m, NEW n \in 1 .. Len(w) + 1,
         InEffect(w, mode, n, m)
  PROVE  InEffect(Append(w, x), mode, n, m)
<1> DEFINE v == Append(w, x)
<1>1. /\ Len(v) = Len(w) + 1 /\ Len(w) \in Nat
      /\ \A i \in 1 .. Len(w) : v[i] = w[i]
  BY Sent
<1> HIDE DEF v
<1>2. \A k \in 1 .. Len(v) : k < n => k \in 1 .. Len(w)
  BY <1>1
<1>3. \A i \in Nat : NoModeIn(w, i, n) => NoModeIn(v, i, n)
  BY <1>1, <1>2 DEF NoModeIn
<1>4. \A j \in 1 .. Len(w) : j \in 1 .. Len(v) /\ j \in Nat
  BY <1>1
<1>5. InEffect(v, mode, n, m)
  BY <1>1, <1>3, <1>4 DEF InEffect
<1>6. QED
  BY <1>5 DEF v

LEMMA EffectAtEnd ==
  ASSUME NEW w \in Seq(Sendable), NEW x \in Sendable, NEW mode, NEW m,
         \/ x.packet # "SetArmMode" /\ InEffect(w, mode, Len(w) + 1, m)
         \/ x.packet = "SetArmMode" /\ x.mode = m
  PROVE  InEffect(Append(w, x), mode, Len(Append(w, x)) + 1, m)
<1> DEFINE v == Append(w, x)
<1>1. /\ Len(v) = Len(w) + 1 /\ Len(w) \in Nat
      /\ \A i \in 1 .. Len(w) : v[i] = w[i]
      /\ v[Len(w) + 1] = x
  BY Sent
<1> HIDE DEF v
<1>2. \A k \in 1 .. Len(v) : (k \in 1 .. Len(w) /\ k < Len(w) + 1) \/ k = Len(w) + 1
  BY <1>1
<1>3. ASSUME x.packet # "SetArmMode" /\ InEffect(w, mode, Len(w) + 1, m)
      PROVE  InEffect(v, mode, Len(v) + 1, m)
  <2>1. \A i \in Nat : NoModeIn(w, i, Len(w) + 1) => NoModeIn(v, i, Len(v) + 1)
    BY <1>1, <1>2, <1>3 DEF NoModeIn
  <2>2. \A j \in 1 .. Len(w) : j \in 1 .. Len(v) /\ j \in Nat /\ j < Len(v) + 1
    BY <1>1
  <2>3. QED
    BY <1>1, <1>3, <2>1, <2>2 DEF InEffect
<1>4. ASSUME x.packet = "SetArmMode" /\ x.mode = m
      PROVE  InEffect(v, mode, Len(v) + 1, m)
  <2>1. Len(v) \in 1 .. Len(v) /\ Len(v) < Len(v) + 1 /\ v[Len(v)] = x
    BY <1>1
  <2>2. NoModeIn(v, Len(v), Len(v) + 1)
    BY <1>1 DEF NoModeIn
  <2>3. QED
    BY <1>4, <2>1, <2>2 DEF InEffect
<1>5. InEffect(v, mode, Len(v) + 1, m)
  BY <1>3, <1>4
<1>6. QED
  BY <1>5 DEF v

LEMMA EffectHandled ==
  ASSUME NEW w \in Seq(Sendable), w # <<>>, NEW d, NEW m, NEW n \in 2 .. Len(w) + 1,
         InEffect(w, d.mode, n, m)
  PROVE  InEffect(Tail(w), Accepts(d, Head(w)).mode, n - 1, m)
<1> DEFINE v == Tail(w)
           x == Head(w)
           mode == Accepts(d, x).mode
<1>1. /\ Len(v) = Len(w) - 1 /\ Len(w) \in Nat \ {0}
      /\ \A i \in 1 .. Len(w) - 1 : v[i] = w[i + 1]
      /\ x = w[1]
  BY Taken
<1>2. mode = IF x.packet = "SetArmMode" THEN x.mode ELSE d.mode
  BY DEF Accepts
<1> HIDE DEF v, x, mode
<1>3. \A k \in 1 .. Len(v) : v[k] = w[k + 1] /\ k + 1 \in 1 .. Len(w) /\ (k < n - 1 => k + 1 < n)
  BY <1>1
<1>4. \A j \in 1 .. Len(w) : NoModeIn(w, j, n) => NoModeIn(v, j - 1, n - 1)
  BY <1>3 DEF NoModeIn
<1>5. 1 \in 1 .. Len(w) /\ 0 < 1 /\ 1 < n
  BY <1>1
<1>6. ASSUME d.mode = m, NoModeIn(w, 0, n)
      PROVE  InEffect(v, mode, n - 1, m)
  <2>1. x.packet # "SetArmMode"
    BY <1>1, <1>5, <1>6 DEF NoModeIn
  <2>2. NoModeIn(v, 0, n - 1)
    BY <1>3, <1>6 DEF NoModeIn
  <2>3. QED
    BY <1>2, <1>6, <2>1, <2>2 DEF InEffect
<1>7. ASSUME NEW j \in 1 .. Len(w), j < n, NoModeIn(w, j, n), w[j].packet = "SetArmMode", w[j].mode = m
      PROVE  InEffect(v, mode, n - 1, m)
  <2>1. NoModeIn(v, j - 1, n - 1)
    BY <1>4, <1>7
  <2>2. CASE j = 1
    BY <1>1, <1>2, <1>7, <2>1, <2>2 DEF InEffect
  <2>3. CASE j # 1
    <3>1. j - 1 \in 1 .. Len(v) /\ v[j - 1] = w[j] /\ j - 1 < n - 1
      BY <1>1, <1>7, <2>3
    <3>2. QED
      BY <1>7, <2>1, <3>1 DEF InEffect
  <2>4. QED
    BY <2>2, <2>3
<1>8. InEffect(v, mode, n - 1, m)
  BY <1>6, <1>7 DEF InEffect
<1>9. QED
  BY <1>8 DEF v, mode, x

-----------------------------------------------------------------------------
(* What the device hears over one arm's life, by what is on the wire and   *)
(* what it has heard.                                                      *)
Before == {"none", "failed", "opened", "asked", "greeted"}
Up     == {"up", "damped"}
After  == {"left", "gone"}

NoBye(w, n)  == \A i \in 1 .. Len(w) : i < n => w[i].packet # "SdkClientDisconnected"
Questions(w) == \A i \in 1 .. Len(w) : w[i].packet = "GetDeviceInfo"
Greeting(w)  == \E j \in 1 .. Len(w) : /\ w[j].packet = "SdkClientConnected"
                                       /\ \A i \in 1 .. Len(w) : i < j => w[i].packet = "GetDeviceInfo"
Talk(l, w, client) ==
  /\ l \in Before => client = "never" /\ Questions(w)
  /\ l \in Up => client # "left" /\ NoBye(w, Len(w) + 1)
  /\ l \in After => \/ client = "left" /\ w = <<>>
                    \/ /\ client # "left" /\ w # <<>> /\ NoBye(w, Len(w))
                       /\ w[Len(w)].packet = "SdkClientDisconnected"
  /\ l \in Up \cup After /\ client = "never" => Greeting(w)

LEMMA Spoken ==
  ASSUME NEW w \in Seq(Sendable), NEW x \in Sendable, NEW client, NEW l, Talk(l, w, client)
  PROVE  /\ l = "opened" /\ x.packet = "GetDeviceInfo" => Talk("asked", Append(w, x), client)
         /\ l = "greeted" /\ x.packet = "SdkClientConnected" => Talk("up", Append(w, x), client)
         /\ l = "up" /\ x.packet # "SdkClientDisconnected" =>
              Talk("up", Append(w, x), client) /\ Talk("damped", Append(w, x), client)
         /\ l = "damped" /\ x.packet = "SdkClientDisconnected" => Talk("left", Append(w, x), client)
<1> DEFINE v == Append(w, x)
<1>1. /\ Len(v) = Len(w) + 1 /\ Len(w) \in Nat /\ v # <<>>
      /\ \A i \in 1 .. Len(w) : v[i] = w[i]
      /\ v[Len(w) + 1] = x
  BY Sent
<1> HIDE DEF v
<1>2. /\ \A k \in 1 .. Len(v) : (k \in 1 .. Len(w) /\ k < Len(w) + 1) \/ k = Len(w) + 1
      /\ \A k \in 1 .. Len(w) : k \in 1 .. Len(v) /\ k < Len(v)
      /\ Len(w) + 1 \in 1 .. Len(v)
  BY <1>1
<1>3. ASSUME l = "opened", x.packet = "GetDeviceInfo" PROVE Talk("asked", v, client)
  BY <1>1, <1>2, <1>3 DEF Talk, Before, Up, After, Questions
<1>4. ASSUME l = "greeted", x.packet = "SdkClientConnected" PROVE Talk("up", v, client)
  <2>1. client = "never" /\ Questions(w)
    BY <1>4 DEF Talk, Before
  <2>2. NoBye(v, Len(v) + 1)
    BY <1>1, <1>2, <1>4, <2>1 DEF NoBye, Questions
  <2>3. Greeting(v)
    <3>1. \A i \in 1 .. Len(v) : i < Len(w) + 1 => v[i].packet = "GetDeviceInfo"
      BY <1>1, <1>2, <2>1 DEF Questions
    <3>2. QED
      BY <1>1, <1>2, <1>4, <3>1 DEF Greeting
  <2>4. QED
    BY <2>1, <2>2, <2>3 DEF Talk, Before, Up, After
<1>5. ASSUME l \in Up, Greeting(w) PROVE Greeting(v)
  <2>1. PICK j \in 1 .. Len(w) : /\ w[j].packet = "SdkClientConnected"
                                 /\ \A i \in 1 .. Len(w) : i < j => w[i].packet = "GetDeviceInfo"
    BY <1>5 DEF Greeting
  <2>2. \A i \in 1 .. Len(v) : i < j => i \in 1 .. Len(w)
    BY <1>1
  <2>3. QED
    BY <1>1, <1>2, <2>1, <2>2 DEF Greeting
<1>6. ASSUME l = "up", x.packet # "SdkClientDisconnected"
      PROVE  Talk("up", v, client) /\ Talk("damped", v, client)
  <2>1. client # "left" /\ NoBye(w, Len(w) + 1) /\ (client = "never" => Greeting(v))
    BY <1>5, <1>6 DEF Talk, Up
  <2>2. NoBye(v, Len(v) + 1)
    BY <1>1, <1>2, <1>6, <2>1 DEF NoBye
  <2>3. QED
    BY <2>1, <2>2 DEF Talk, Before, Up, After
<1>7. ASSUME l = "damped", x.packet = "SdkClientDisconnected" PROVE Talk("left", v, client)
  <2>1. client # "left" /\ NoBye(w, Len(w) + 1) /\ (client = "never" => Greeting(v))
    BY <1>5, <1>7 DEF Talk, Up
  <2>2. NoBye(v, Len(v))
    <3>1. \A k \in 1 .. Len(v) : k < Len(v) => k \in 1 .. Len(w) /\ k < Len(w) + 1
      BY <1>1
    <3>2. QED
      BY <1>1, <2>1, <3>1 DEF NoBye
  <2>3. v[Len(v)].packet = "SdkClientDisconnected"
    BY <1>1, <1>7
  <2>4. QED
    BY <1>1, <2>1, <2>2, <2>3 DEF Talk, Before, Up, After
<1>8. QED
  BY <1>3, <1>4, <1>6, <1>7 DEF v

(* Steps of a life that say nothing.                                       *)
LEMMA Unspoken ==
  ASSUME NEW w, NEW client, NEW l, NEW k, Talk(l, w, client),
         \/ l \in Before /\ k \in Before
         \/ l \in Up /\ k \in Up
         \/ l \in After /\ k \in After
  PROVE  Talk(k, w, client)
<1>1. /\ k \in Before <=> l \in Before
      /\ k \in Up <=> l \in Up
      /\ k \in After <=> l \in After
  BY DEF Before, Up, After
<1>2. QED
  BY <1>1 DEF Talk

LEMMA Heard ==
  ASSUME NEW w \in Seq(Sendable), w # <<>>, NEW d, NEW l \in Before \cup Up \cup After,
         Talk(l, w, d.client)
  PROVE  Talk(l, Tail(w), Accepts(d, Head(w)).client)
<1> DEFINE v == Tail(w)
           x == Head(w)
           client == Accepts(d, x).client
<1>1. /\ Len(v) = Len(w) - 1 /\ Len(w) \in Nat \ {0} /\ v \in Seq(Sendable)
      /\ \A i \in 1 .. Len(w) - 1 : v[i] = w[i + 1]
      /\ x = w[1]
  BY Taken
<1>2. /\ x.packet = "SdkClientConnected" => client = "yes"
      /\ x.packet = "SdkClientDisconnected" => client = "left"
      /\ x.packet \notin {"SdkClientConnected", "SdkClientDisconnected"} => client = d.client
  BY DEF Accepts
<1>0. v = <<>> <=> Len(v) = 0
  BY <1>1, EmptySeq
<1> HIDE DEF v, x, client
<1>3. \A k \in 1 .. Len(v) : v[k] = w[k + 1] /\ k + 1 \in 1 .. Len(w)
  BY <1>1
<1>4. 1 \in 1 .. Len(w)
  BY <1>1
<1>5. l \in Before => client = "never" /\ Questions(v)
  BY <1>1, <1>2, <1>3, <1>4 DEF Talk, Questions
<1>6. ASSUME l \in Up PROVE client # "left" /\ NoBye(v, Len(v) + 1)
  <2>1. d.client # "left" /\ x.packet # "SdkClientDisconnected"
    BY <1>1, <1>4, <1>6 DEF Talk, NoBye
  <2>2. NoBye(v, Len(v) + 1)
    BY <1>1, <1>3, <1>6 DEF Talk, NoBye
  <2>3. QED
    BY <1>2, <2>1, <2>2
<1>7. ASSUME l \in After
      PROVE  \/ client = "left" /\ v = <<>>
             \/ /\ client # "left" /\ v # <<>> /\ NoBye(v, Len(v))
                /\ v[Len(v)].packet = "SdkClientDisconnected"
  <2>1. d.client # "left" /\ NoBye(w, Len(w)) /\ w[Len(w)].packet = "SdkClientDisconnected"
    BY <1>7 DEF Talk
  <2>2. CASE Len(w) = 1
    BY <1>0, <1>1, <1>2, <2>1, <2>2
  <2>3. CASE Len(w) # 1
    <3>1. x.packet # "SdkClientDisconnected"
      BY <1>1, <1>4, <2>1, <2>3 DEF NoBye
    <3>2. client # "left"
      BY <1>2, <2>1, <3>1
    <3>3. Len(v) \in 1 .. Len(v) /\ Len(v) + 1 = Len(w) /\ v # <<>>
      BY <1>0, <1>1, <2>3
    <3>4. v[Len(v)].packet = "SdkClientDisconnected"
      BY <1>3, <2>1, <3>3
    <3>5. NoBye(v, Len(v))
      <4>1. ASSUME NEW k \in 1 .. Len(v), k < Len(v)
            PROVE  v[k] = w[k + 1] /\ k + 1 \in 1 .. Len(w) /\ k + 1 < Len(w)
        BY <1>1, <1>3, <4>1
      <4>2. QED
        BY <2>1, <4>1 DEF NoBye
    <3>6. QED
      BY <3>2, <3>3, <3>4, <3>5
  <2>4. QED
    BY <2>2, <2>3
<1>8. ASSUME l \in Up \cup After, client = "never" PROVE Greeting(v)
  <2>1. x.packet \notin {"SdkClientConnected", "SdkClientDisconnected"} /\ d.client = "never"
    BY <1>2, <1>8
  <2>2. PICK j \in 1 .. Len(w) : /\ w[j].packet = "SdkClientConnected"
                                 /\ \A i \in 1 .. Len(w) : i < j => w[i].packet = "GetDeviceInfo"
    BY <1>8, <2>1 DEF Talk, Greeting
  <2>3. j # 1
    BY <1>1, <2>1, <2>2
  <2>4. j - 1 \in 1 .. Len(v) /\ v[j - 1] = w[j]
    BY <1>1, <2>3
  <2>5. \A i \in 1 .. Len(v) : i < j - 1 => v[i].packet = "GetDeviceInfo"
    BY <1>1, <1>3, <2>2
  <2>6. QED
    BY <2>2, <2>4, <2>5 DEF Greeting
<1>9. Talk(l, v, client)
  BY <1>5, <1>6, <1>7, <1>8 DEF Talk
<1>10. QED
  BY <1>9 DEF v, x, client

-----------------------------------------------------------------------------
(* The steps of an arm, whoever takes them.                                *)
Working == {"read", "grip", "start", "poll", "loop", "write", "control", "turn", "send"}

(* Who may send a joint command.                                           *)
Moves(a) == "joint" \in owners[a] \/ (a = First /\ pc \in {"turn", "send"})

Speak(a) ==
  \/ \E mode \in ArmMode : RequestMode(a, mode)
  \/ StartJointMITControl(a)
  \/ owners[a] # {} /\ Moves(a) /\ \E q \in Int : s_sendCommand(a, q)
  \/ owners[a] # {} /\ \E q \in Int : s_notify(a, q)
Hold(a) ==
  \/ \E enabled \in BOOLEAN : SetDisconnectModeChange(a, enabled)
  \/ GetGripper(a) \/ StartGripperControl(a) \/ ReadStatus(a)
  \/ \E handle \in owners[a] : LetGo(a, handle)
ArmStep(a) == \/ OpenPort(a) \/ Construct(a) \/ Destruct(a) \/ Speak(a) \/ Hold(a)
              \/ Handle(a) \/ FeedInfo(a) \/ FeedStatus(a)

ArmTypeOK ==
  /\ life \in [Arms -> Open \cup {"none", "gone", "failed"}]
  /\ owners \in [Arms -> SUBSET Handles]
  /\ disconnect_mode_change_enabled \in [Arms -> BOOLEAN]
  /\ info \in [Arms -> {"none", "default", "device"}]
  /\ pool \in [Arms -> [req_id : Nat, from : {"default", "device"}]]
  /\ s_gripper \subseteq Arms
  /\ rx \in [Arms -> Seq(Positions)]
  /\ wire \in [Arms -> Seq(Sendable)]
  /\ reply \in [Arms -> SUBSET Nat]
  /\ device \in [Arms -> [mode : ArmMode, client : {"never", "yes", "left"}]]
  /\ requested \in [Arms -> ArmMode] /\ strayed \in [Arms -> BOOLEAN]

ProgramTypeOK == initial \in Nat /\ count \in Nat /\ g_running \in BOOLEAN /\ silent \subseteq Arms

(* A handle keeps its arm up; there is one gripper; the pool's default is  *)
(* told from an answer by its id.                                          *)
LifeInv ==
  /\ \A a \in Arms : /\ owners[a] # {} => life[a] = "up"
                     /\ life[a] \in {"greeted", "up", "damped", "left", "gone"} <=> info[a] = "device"
                     /\ info[a] # "default"
                     /\ a \in s_gripper <=> "gripper" \in owners[a]
                     /\ pool[a].from = "device" \/ pool[a].req_id = 0
  /\ \A a, b \in s_gripper : a = b

(* Where a program is, and what it then holds.                             *)
ProgramInv ==
  /\ program \in {"echo", "gripper", "sine", "python"}
  /\ command \in [target : Int, finished : BOOLEAN]
  /\ pc \in {"create", "creating", "exit", "done", "dead"} \cup Working
  /\ program = "python" => pc \in {"create", "exit", "done"}
  /\ pc = "creating" => \/ Constructing(First) \/ life[First] = "failed"
                        \/ life[First] = "up" /\ owners[First] = {"arm"}
  /\ pc \in Working => "arm" \in owners[First]
  /\ pc = "done" => \A a \in Arms : life[a] \in {"none", "failed", "gone"}

Core == ArmTypeOK /\ ProgramTypeOK /\ LifeInv /\ ProgramInv

LEMMA TypeParts == ArmTypeOK /\ ProgramTypeOK => TypeOK
<1> SUFFICES ASSUME ArmTypeOK, ProgramTypeOK PROVE TypeOK
  OBVIOUS
<1>1. Seq(Sendable) \subseteq Seq(Messages)
  BY SeqMonotonic DEF Sendable
<1>2. wire \in [Arms -> Seq(Messages)]
  BY <1>1 DEF ArmTypeOK
<1>3. QED
  BY <1>2 DEF TypeOK, ArmTypeOK, ProgramTypeOK

LEMMA SendTypes ==
  ASSUME ArmTypeOK, NEW a \in Arms, NEW m \in Sendable, Sends(a, m)
  PROVE  /\ wire' \in [Arms -> Seq(Sendable)] /\ wire'[a] = Append(wire[a], m)
         /\ \A b \in Arms : b # a => wire'[b] = wire[b]
<1>1. wire \in [Arms -> Seq(Sendable)] /\ wire' = [wire EXCEPT ![a] = Append(wire[a], m)]
  BY DEF ArmTypeOK, Sends
<1>2. Append(wire[a], m) \in Seq(Sendable)
  BY <1>1, Sent
<1>3. wire' \in [Arms -> Seq(Sendable)]
  BY ONLY <1>1, <1>2, SMTT(30)
<1>4. wire'[a] = Append(wire[a], m) /\ \A b \in Arms : b # a => wire'[b] = wire[b]
  BY ONLY <1>1, a \in Arms, SMTT(30)
<1>5. QED
  BY ONLY <1>3, <1>4

(* An arm comes to life.                                                   *)
LEMMA ConstructKeepsArms ==
  ASSUME ArmTypeOK, LifeInv, NEW a \in Arms, OpenPort(a) \/ Construct(a)
  PROVE  ArmTypeOK' /\ LifeInv'
<1> USE DEF linkVars, modeVars, Lives
<1>1. CASE OpenPort(a)
  <2>1. ArmTypeOK'
    BY <1>1 DEF OpenPort, ArmTypeOK, Open
  <2>2. LifeInv'
    BY <1>1 DEF OpenPort, ArmTypeOK, LifeInv, Open
  <2>3. QED
    BY <2>1, <2>2
<1>2. CASE AskInfo(a)
  <2>1. wire' \in [Arms -> Seq(Sendable)]
    BY <1>2, SendTypes, MessageTypes DEF AskInfo
  <2>2. ArmTypeOK'
    BY <1>2, <2>1 DEF AskInfo, ArmTypeOK, Open
  <2>3. LifeInv'
    BY <1>2 DEF AskInfo, ArmTypeOK, LifeInv
  <2>4. QED
    BY <2>2, <2>3
<1>3. CASE SeeInfo(a)
  <2>1. pool[a].from = "device"
    BY <1>3 DEF SeeInfo, LifeInv, FirstId
  <2>2. ArmTypeOK'
    BY <1>3, <2>1 DEF SeeInfo, ArmTypeOK, Open
  <2>3. LifeInv'
    BY <1>3, <2>1 DEF SeeInfo, ArmTypeOK, LifeInv
  <2>4. QED
    BY <2>2, <2>3
<1>4. CASE InfoTimesOut(a)
  BY <1>4 DEF InfoTimesOut, ArmTypeOK, LifeInv, Open
<1>5. CASE Connect(a)
  <2>1. wire' \in [Arms -> Seq(Sendable)]
    BY <1>5, SendTypes, MessageTypes DEF Connect
  <2>2. ArmTypeOK'
    BY <1>5, <2>1 DEF Connect, ArmTypeOK, Open, Handles
  <2>3. owners[a] = {} /\ a \notin s_gripper /\ info[a] = "device"
    BY <1>5 DEF Connect, LifeInv
  <2>4. LifeInv'
    BY <1>5, <2>3 DEF Connect, ArmTypeOK, LifeInv
  <2>5. QED
    BY <2>2, <2>4
<1>6. QED
  BY <1>1, <1>2, <1>3, <1>4, <1>5 DEF Construct

(* An arm nobody holds goes.                                               *)
LEMMA DestructKeepsArms ==
  ASSUME ArmTypeOK, LifeInv, NEW a \in Arms, Destruct(a)
  PROVE  ArmTypeOK' /\ LifeInv'
<1> USE DEF linkVars, modeVars, Lives
<1>1. CASE Damp(a)
  <2>1. wire' \in [Arms -> Seq(Sendable)]
    BY <1>1, SendTypes, MessageTypes DEF Damp, ArmTypeOK, ArmMode
  <2>2. ArmTypeOK'
    BY <1>1, <2>1 DEF Damp, ArmTypeOK, Open
  <2>3. LifeInv'
    BY <1>1 DEF Damp, ArmTypeOK, LifeInv, Lost
  <2>4. QED
    BY <2>2, <2>3
<1>2. CASE Bye(a)
  <2>1. wire' \in [Arms -> Seq(Sendable)]
    BY <1>2, SendTypes, MessageTypes DEF Bye
  <2>2. ArmTypeOK'
    BY <1>2, <2>1 DEF Bye, ArmTypeOK, Open
  <2>3. LifeInv'
    BY <1>2 DEF Bye, ArmTypeOK, LifeInv
  <2>4. QED
    BY <2>2, <2>3
<1>3. CASE ClosePort(a)
  BY <1>3 DEF ClosePort, ArmTypeOK, LifeInv, Open
<1>4. QED
  BY <1>1, <1>2, <1>3 DEF Destruct

LEMMA SpeakKeepsArms ==
  ASSUME ArmTypeOK, LifeInv, NEW a \in Arms, Speak(a)
  PROVE  ArmTypeOK' /\ LifeInv'
<1> USE DEF hostVars, linkVars, modeVars
<1>1. CASE \E mode \in ArmMode : RequestMode(a, mode)
  <2>1. PICK mode \in ArmMode : RequestMode(a, mode)
    BY <1>1
  <2>2. wire' \in [Arms -> Seq(Sendable)]
    BY <2>1, SendTypes, MessageTypes DEF RequestMode, RequestsMode
  <2>3. requested' \in [Arms -> ArmMode] /\ strayed' \in [Arms -> BOOLEAN]
    BY <2>1 DEF RequestMode, RequestsMode, ArmTypeOK
  <2>4. QED
    BY <2>1, <2>2, <2>3 DEF RequestMode, ArmTypeOK, LifeInv
<1>2. CASE StartJointMITControl(a)
  <2>1. wire' \in [Arms -> Seq(Sendable)]
    BY <1>2, SendTypes, MessageTypes DEF StartJointMITControl, Prepared, RequestsMode, ArmMode
  <2>2. requested' \in [Arms -> ArmMode] /\ strayed' \in [Arms -> BOOLEAN]
    BY <1>2 DEF StartJointMITControl, Prepared, RequestsMode, ArmTypeOK, ArmMode
  <2>3. /\ owners' \in [Arms -> SUBSET Handles] /\ owners'[a] = owners[a] \cup {"joint"}
        /\ \A b \in Arms : b # a => owners'[b] = owners[b]
    BY <1>2 DEF StartJointMITControl, Owns, ArmTypeOK, Handles
  <2>4. life[a] = "up"
    BY <1>2 DEF StartJointMITControl, LifeInv
  <2>5. /\ UNCHANGED <<life, info, pool, s_gripper, reply, device, rx>>
        /\ UNCHANGED disconnect_mode_change_enabled
    BY <1>2 DEF StartJointMITControl
  <2>6. LifeInv'
    BY <2>3, <2>4, <2>5 DEF LifeInv
  <2>7. ArmTypeOK'
    BY <2>1, <2>2, <2>3, <2>5 DEF ArmTypeOK
  <2>8. QED
    BY <2>6, <2>7
<1>3. CASE \E q \in Int : s_sendCommand(a, q)
  <2>1. wire' \in [Arms -> Seq(Sendable)]
    BY <1>3, SendTypes, MessageTypes DEF s_sendCommand
  <2>2. QED
    BY <1>3, <2>1 DEF s_sendCommand, ArmTypeOK, LifeInv
<1>4. CASE \E q \in Int : s_notify(a, q)
  <2>1. wire' \in [Arms -> Seq(Sendable)]
    BY <1>4, SendTypes, MessageTypes DEF s_notify
  <2>2. QED
    BY <1>4, <2>1 DEF s_notify, ArmTypeOK, LifeInv
<1>5. QED
  BY <1>1, <1>2, <1>3, <1>4 DEF Speak

LEMMA HoldKeepsArms ==
  ASSUME ArmTypeOK, LifeInv, NEW a \in Arms, Hold(a)
  PROVE  ArmTypeOK' /\ LifeInv'
<1> USE DEF hostVars, linkVars, modeVars
<1>1. CASE \E enabled \in BOOLEAN : SetDisconnectModeChange(a, enabled)
  BY <1>1 DEF SetDisconnectModeChange, ArmTypeOK, LifeInv
<1>2. CASE GetGripper(a)
  <2>1. life[a] = "up" /\ owners[a] # {}
    BY <1>2 DEF GetGripper, LifeInv
  <2>2. CASE UNCHANGED <<s_gripper, owners>>
    BY <1>2, <2>2 DEF GetGripper, ArmTypeOK, LifeInv
  <2>3. CASE s_gripper = {} /\ s_gripper' = {a} /\ Owns(a, "gripper")
    <3>1. /\ owners' \in [Arms -> SUBSET Handles] /\ owners'[a] = owners[a] \cup {"gripper"}
          /\ \A b \in Arms : b # a => owners'[b] = owners[b]
      BY <2>3 DEF Owns, ArmTypeOK, Handles
    <3>2. QED
      BY <1>2, <2>1, <2>3, <3>1 DEF GetGripper, ArmTypeOK, LifeInv
  <2>4. QED
    BY <1>2, <2>2, <2>3 DEF GetGripper
<1>3. CASE StartGripperControl(a)
  <2>1. life[a] = "up"
    BY <1>3 DEF StartGripperControl, LifeInv
  <2>2. /\ owners' \in [Arms -> SUBSET Handles] /\ owners'[a] = owners[a] \cup {"gripping"}
        /\ \A b \in Arms : b # a => owners'[b] = owners[b]
    BY <1>3 DEF StartGripperControl, Owns, ArmTypeOK, Handles
  <2>3. QED
    BY <1>3, <2>1, <2>2 DEF StartGripperControl, ArmTypeOK, LifeInv
<1>4. CASE ReadStatus(a)
  <2>1. Tail(rx[a]) \in Seq(Positions)
    BY <1>4, HeadTailProperties DEF ReadStatus, ArmTypeOK
  <2>2. rx' \in [Arms -> Seq(Positions)]
    BY <1>4, <2>1 DEF ReadStatus, ArmTypeOK
  <2>3. QED
    BY <1>4, <2>2 DEF ReadStatus, ArmTypeOK, LifeInv
<1>5. CASE \E handle \in owners[a] : LetGo(a, handle)
  <2>1. PICK handle \in owners[a] : LetGo(a, handle)
    BY <1>5
  <2>2. /\ owners' \in [Arms -> SUBSET Handles] /\ owners'[a] = owners[a] \ {handle}
        /\ \A b \in Arms : b # a => owners'[b] = owners[b]
    BY <2>1 DEF LetGo, ArmTypeOK
  <2>3. \A b \in Arms : b \in s_gripper' <=> "gripper" \in owners'[b]
    BY <2>1, <2>2 DEF LetGo, LifeInv
  <2>4. QED
    BY <2>1, <2>2, <2>3 DEF LetGo, ArmTypeOK, LifeInv
<1>6. QED
  BY <1>1, <1>2, <1>3, <1>4, <1>5 DEF Hold

LEMMA LinkKeepsArms ==
  ASSUME ArmTypeOK, LifeInv, NEW a \in Arms, Handle(a) \/ FeedInfo(a) \/ FeedStatus(a)
  PROVE  ArmTypeOK' /\ LifeInv'
<1> USE DEF hostVars, linkVars, modeVars
<1>1. CASE Handle(a)
  <2> DEFINE m == Head(wire[a])
             d == Accepts(device[a], m)
  <2>1. wire[a] \in Seq(Sendable) /\ wire[a] # <<>>
    BY <1>1 DEF Handle, ArmTypeOK
  <2>2. Tail(wire[a]) \in Seq(Sendable) /\ m \in Sendable
    BY <2>1, Taken
  <2>3. wire' \in [Arms -> Seq(Sendable)]
    BY <1>1, <2>2 DEF Handle, ArmTypeOK
  <2>4. reply' \in [Arms -> SUBSET Nat]
    BY <1>1, <2>2 DEF Handle, ArmTypeOK, Sendable
  <2>5. device' \in [Arms -> [mode : ArmMode, client : {"never", "yes", "left"}]]
    <3>1. m.packet = "SetArmMode" => m.mode \in ArmMode
      BY <2>2 DEF Sendable
    <3>2. d \in [mode : ArmMode, client : {"never", "yes", "left"}]
      BY <3>1 DEF Accepts, ArmTypeOK
    <3>3. device' = [device EXCEPT ![a] = d]
      BY <1>1 DEF Handle
    <3> HIDE DEF d
    <3>4. QED
      BY <3>2, <3>3 DEF ArmTypeOK
  <2>6. QED
    BY <1>1, <2>3, <2>4, <2>5 DEF Handle, ArmTypeOK, LifeInv
<1>2. CASE FeedInfo(a)
  <2>1. PICK id \in reply[a] : pool' = [pool EXCEPT ![a] = [req_id |-> id, from |-> "device"]]
    BY <1>2 DEF FeedInfo
  <2>2. id \in Nat
    BY DEF ArmTypeOK
  <2>3. /\ pool' \in [Arms -> [req_id : Nat, from : {"default", "device"}]]
        /\ pool'[a].from = "device" /\ \A b \in Arms : b # a => pool'[b] = pool[b]
    BY <2>1, <2>2 DEF ArmTypeOK
  <2>4. reply' \in [Arms -> SUBSET Nat]
    BY <1>2 DEF FeedInfo, ArmTypeOK
  <2>5. QED
    BY <1>2, <2>3, <2>4 DEF FeedInfo, ArmTypeOK, LifeInv
<1>3. CASE FeedStatus(a)
  <2>1. PICK q \in Positions : rx' = [rx EXCEPT ![a] = Append(@, q)]
    BY <1>3 DEF FeedStatus
  <2>2. Append(rx[a], q) \in Seq(Positions)
    BY AppendProperties DEF ArmTypeOK
  <2>3. rx' \in [Arms -> Seq(Positions)]
    BY <2>1, <2>2 DEF ArmTypeOK
  <2>4. QED
    BY <1>3, <2>3 DEF FeedStatus, ArmTypeOK, LifeInv
<1>4. QED
  BY <1>1, <1>2, <1>3

-----------------------------------------------------------------------------
(* What the programs do is among the steps of an arm.                      *)
LEMMA ExampleSteps ==
  ASSUME ProgramTypeOK, ProgramInv, Example PROVE UNCHANGED armVars \/ ArmStep(First)
<1> USE DEF ArmStep
<1>1. CASE Create \/ Created
  BY <1>1 DEF Create, Created
<1>2. CASE Echo \/ Grip \/ Poll \/ Loop \/ Turn
  BY <1>2 DEF Echo, Grip, Poll, Loop, Turn, Hold
<1>3. CASE Write
  <2>1. PICK opening \in {0, 1} : s_notify(First, initial - opening)
    BY <1>3 DEF Write
  <2>2. initial - opening \in Int
    BY DEF ProgramTypeOK
  <2>3. owners[First] # {}
    BY <1>3 DEF Write, ProgramInv, Working
  <2>4. QED
    BY <2>1, <2>2, <2>3 DEF Speak
<1>4. CASE Control
  BY <1>4 DEF Control, Speak, ArmMode
<1>5. CASE Send
  <2>1. owners[First] # {} /\ Moves(First) /\ command.target \in Int
    BY <1>5 DEF Send, ProgramInv, Working, Moves
  <2>2. QED
    BY <1>5, <2>1 DEF Send, Speak
<1>6. CASE Exit
  <2>1. UNCHANGED armVars \/ \E handle : LetGo(First, handle)
    BY <1>6 DEF Exit
  <2>2. QED
    BY <2>1 DEF LetGo, Hold
<1>7. QED
  BY <1>1, <1>2, <1>3, <1>4, <1>5, <1>6 DEF Example

LEMMA CollectSteps == ASSUME NEW a \in Arms, Collect(a) PROVE ArmStep(a)
BY DEF Collect, ArmStep, Hold

LEMMA PythonSteps ==
  ASSUME LifeInv, Python PROVE UNCHANGED armVars \/ \E a \in Arms : ArmStep(a)
<1>1. ASSUME NEW a \in Arms, CallArm(a) PROVE ArmStep(a)
  BY <1>1 DEF CallArm, ArmStep, Speak, Hold
<1>2. ASSUME NEW a \in Arms, CallHandle(a) PROVE ArmStep(a)
  <2>1. CASE StartGripperControl(a) \/ ReadStatus(a)
    BY <2>1 DEF ArmStep, Hold
  <2>2. ASSUME NEW q \in Positions, "joint" \in owners[a], s_sendCommand(a, q) PROVE ArmStep(a)
    BY <2>2, LifecycleAssumption DEF ArmStep, Speak, Moves
  <2>3. ASSUME NEW q \in Positions, "gripping" \in owners[a], s_notify(a, q) PROVE ArmStep(a)
    BY <2>3, LifecycleAssumption DEF ArmStep, Speak
  <2>4. QED
    BY <1>2, <2>1, <2>2, <2>3 DEF CallHandle
<1>3. QED
  BY <1>1, <1>2, CollectSteps DEF Python

LEMMA Steps ==
  ASSUME Core, Next PROVE UNCHANGED armVars \/ \E a \in Arms : ArmStep(a)
<1>0. First \in Arms
  BY ProgramsAssumption
<1>1. CASE RunProgram
  BY <1>0, <1>1, ExampleSteps, CollectSteps DEF RunProgram, PythonExits, Core
<1>2. CASE CallLibrary
  BY <1>2, PythonSteps DEF CallLibrary, Core
<1>3. CASE Interrupt \/ \E a \in Arms : FallSilent(a)
  BY <1>3 DEF Interrupt, FallSilent
<1>4. CASE \E a \in Arms : Library(a) \/ Link(a)
  BY <1>4 DEF Library, Link, Streams, ArmStep
<1>5. QED
  BY <1>1, <1>2, <1>3, <1>4 DEF Next

LEMMA ArmsStay ==
  ASSUME Core, Next PROVE ArmTypeOK' /\ LifeInv'
<1>1. CASE UNCHANGED armVars
  BY <1>1 DEF Core, armVars, hostVars, linkVars, modeVars, ArmTypeOK, LifeInv
<1>2. ASSUME NEW a \in Arms, ArmStep(a) PROVE ArmTypeOK' /\ LifeInv'
  BY <1>2, ConstructKeepsArms, DestructKeepsArms, SpeakKeepsArms, HoldKeepsArms, LinkKeepsArms
     DEF ArmStep, Core
<1>3. QED
  BY <1>1, <1>2, Steps

LEMMA ProgramTypesStay ==
  ASSUME Core, Next PROVE ProgramTypeOK' /\ command' \in [target : Int, finished : BOOLEAN]
<1> USE DEF Core, ProgramTypeOK
<1>0. /\ \A q \in Positions : q \in Nat
      /\ \A s \in Seq(Positions) : s # <<>> => Head(s) \in Positions
      /\ command \in [target : Int, finished : BOOLEAN]
  BY LifecycleAssumption, HeadTailProperties DEF ProgramInv
<1>1. CASE RunProgram
  <2>1. UNCHANGED <<g_running, silent>>
    BY <1>1 DEF RunProgram
  <2>2. rx[First] # <<>> => Head(rx[First]) \in Nat
    BY <1>0, ProgramsAssumption DEF ArmTypeOK
  <2>3. CASE Turn
    <3>1. initial' \in Nat
      BY <2>2, <2>3 DEF Turn, ReadStatus
    <3>2. PICK offset \in {0, 1} : command' = [target |-> initial' + offset, finished |-> Finished]
      BY <2>3 DEF Turn
    <3>3. command' \in [target : Int, finished : BOOLEAN]
      BY <3>1, <3>2 DEF Finished
    <3>4. QED
      BY <2>1, <2>3, <3>1, <3>3 DEF Turn
  <2>4. CASE Poll
    <3>1. initial' \in Nat
      BY <2>2, <2>4 DEF Poll, ReadStatus
    <3>2. count' \in Nat /\ UNCHANGED command
      BY <2>4 DEF Poll
    <3>3. QED
      BY <1>0, <2>1, <3>1, <3>2
  <2>5. CASE Create \/ Created \/ Echo \/ Grip \/ Loop \/ Write \/ Control \/ Send \/ Exit \/ PythonExits
    BY <1>0, <2>1, <2>5 DEF Create, Created, Echo, Grip, Loop, Write, Control, Send, Exit,
                            PythonExits, programVars
  <2>6. QED
    BY <1>1, <2>3, <2>4, <2>5 DEF RunProgram, Example
<1>2. CASE CallLibrary
  <2>1. count' \in Nat
    BY <1>2 DEF CallLibrary, Python
  <2>2. QED
    BY <1>0, <1>2, <2>1 DEF CallLibrary, Python
<1>3. CASE Interrupt \/ \E a \in Arms : FallSilent(a) \/ Library(a) \/ Link(a)
  BY <1>0, <1>3 DEF Interrupt, FallSilent, Library, Link, programVars
<1>4. QED
  BY <1>1, <1>2, <1>3 DEF Next

-----------------------------------------------------------------------------
(* Where a program is, step by step.                                       *)
LEMMA LibraryKeepsProgram ==
  ASSUME Core, NEW a \in Arms, Library(a) \/ Link(a) PROVE ProgramInv'
<1>1. UNCHANGED <<program, pc, command>>
  BY DEF Library, Link, programVars
<1>2. CASE Link(a)
  BY <1>1, <1>2 DEF Link, Handle, FeedInfo, Streams, FeedStatus, hostVars, Core, ProgramInv, Constructing
<1>3. CASE Library(a)
  <2>0. /\ life \in [Arms -> Open \cup {"none", "gone", "failed"}]
        /\ owners \in [Arms -> SUBSET Handles] /\ First \in Arms
    BY ProgramsAssumption DEF Core, ArmTypeOK
  <2>1. pc # "done"
    BY <1>3 DEF Core, ProgramInv, Library, Construct, Destruct, AskInfo, SeeInfo, InfoTimesOut,
                Connect, Damp, Bye, ClosePort, Lives
  <2>2. pc \in Working => "arm" \in owners'[First]
    BY <1>3, <2>0 DEF Core, ProgramInv, Library, Construct, Destruct, AskInfo, SeeInfo, InfoTimesOut,
                Connect, Damp, Bye, ClosePort
  <2>3. ASSUME pc = "creating"
        PROVE  \/ Constructing(First)' \/ life'[First] = "failed"
               \/ life'[First] = "up" /\ owners'[First] = {"arm"}
    <3>1. \/ Constructing(First) \/ life[First] = "failed"
          \/ life[First] = "up" /\ owners[First] = {"arm"}
      BY <2>3 DEF Core, ProgramInv
    <3>2. CASE Construct(a)
      BY <2>0, <3>1, <3>2 DEF Construct, AskInfo, SeeInfo, InfoTimesOut, Connect, Lives, Constructing
    <3>3. CASE Destruct(a)
      BY <2>0, <3>1, <3>3 DEF Destruct, Damp, Bye, ClosePort, Lives, Lost, Constructing
    <3>4. QED
      BY <1>3, <3>2, <3>3 DEF Library
  <2>4. QED
    BY <1>1, <2>1, <2>2, <2>3 DEF Core, ProgramInv
<1>4. QED
  BY <1>2, <1>3

LEMMA ExampleKeepsProgram ==
  ASSUME Core, Example, Next PROVE ProgramInv'
<1> USE DEF Core
<1>0. /\ life \in [Arms -> Open \cup {"none", "gone", "failed"}]
      /\ owners \in [Arms -> SUBSET Handles] /\ First \in Arms
  BY ProgramsAssumption DEF ArmTypeOK
<1>1. UNCHANGED program
  BY DEF Example, Create, Created, Echo, Grip, Poll, Loop, Write, Control, Turn, Send, Exit
<1>2. command' \in [target : Int, finished : BOOLEAN]
  BY ProgramTypesStay
<1>3. CASE Create
  <2>1. life'[First] \in {"opened", "failed"} /\ pc' = "creating" /\ program # "python"
    BY <1>0, <1>3 DEF Create, Goto, OpenPort, Lives
  <2>2. QED
    BY <1>1, <1>2, <2>1 DEF ProgramInv, Constructing, Working
<1>4. CASE Created
  <2>1. /\ UNCHANGED <<life, owners>> /\ pc = "creating" /\ ~Constructing(First)
        /\ pc' = IF life[First] = "up" THEN FirstStep[program] ELSE "dead"
    BY <1>4 DEF Created, Goto, armVars, hostVars
  <2>2. program \in {"echo", "gripper", "sine"}
    BY <2>1 DEF ProgramInv
  <2>3. life[First] = "up" => pc' \in Working /\ "arm" \in owners[First]
    BY <2>1, <2>2 DEF ProgramInv, FirstStep, Working
  <2>4. QED
    BY <1>1, <1>2, <2>1, <2>2, <2>3 DEF ProgramInv, Working
<1>5. CASE Echo \/ Grip \/ Poll \/ Loop \/ Write \/ Control \/ Turn \/ Send
  <2>1. pc \in Working /\ pc' \in Working \cup {"exit"}
    BY <1>5 DEF Echo, Grip, Poll, Loop, Write, Control, Turn, Send, Goto, Working
  <2>2. "arm" \in owners'[First]
    <3>1. "arm" \in owners[First]
      BY <2>1 DEF ProgramInv
    <3>2. CASE Grip
      BY <1>0, <3>1, <3>2 DEF Grip, GetGripper, StartGripperControl, Owns
    <3>3. CASE ~Grip
      <4>1. UNCHANGED owners
        BY <1>5, <3>3 DEF Echo, Poll, Loop, Write, Control, Turn, Send, ReadStatus, s_notify,
                          s_sendCommand, RequestMode, armVars, hostVars
      <4>2. QED
        BY <3>1, <4>1
    <3>4. QED
      BY <3>2, <3>3
  <2>3. program # "python"
    BY <2>1 DEF ProgramInv, Working
  <2>4. pc' \notin {"creating", "done"}
    BY <2>1 DEF Working
  <2>5. QED
    BY <1>1, <1>2, <2>1, <2>2, <2>3, <2>4 DEF ProgramInv
<1>6. CASE Exit
  <2>1. CASE NothingLeft /\ pc' = "done" /\ UNCHANGED armVars
    <3>1. ASSUME NEW a \in Arms PROVE life'[a] \in {"none", "failed", "gone"}
      <4>1. owners[a] = {} /\ ~Constructing(a) /\ ~Destructing(a) /\ UNCHANGED life
        BY <1>6, <2>1 DEF NothingLeft, Exit, Busy, armVars, hostVars
      <4>2. life[a] \in Open \cup {"none", "gone", "failed"}
        BY <1>0
      <4>3. QED
        BY <4>1, <4>2 DEF Constructing, Destructing, Lost, Open
    <3>2. QED
      BY <1>1, <1>2, <2>1, <3>1 DEF ProgramInv, Working
  <2>2. CASE pc' = "exit"
    BY <1>1, <1>2, <1>6, <2>2 DEF ProgramInv, Working, Exit
  <2>3. QED
    BY <1>6, <2>1, <2>2 DEF Exit, Goto
<1>7. QED
  BY <1>3, <1>4, <1>5, <1>6 DEF Example

LEMMA ProgramStays ==
  ASSUME Core, Next PROVE ProgramInv'
<1>1. CASE RunProgram
  <2>1. CASE PythonExits
    BY <2>1 DEF PythonExits, programVars, Core, ProgramInv, Working
  <2>2. QED
    BY <1>1, <2>1, ExampleKeepsProgram DEF RunProgram
<1>2. CASE CallLibrary
  <2>1. program = "python" /\ pc = "create" /\ pc' \in {"create", "exit"} /\ UNCHANGED <<program, command>>
    BY <1>2 DEF CallLibrary, Python, Goto
  <2>2. QED
    BY <2>1 DEF Core, ProgramInv, Working
<1>3. CASE Interrupt \/ \E a \in Arms : FallSilent(a)
  BY <1>3 DEF Interrupt, FallSilent, armVars, hostVars, programVars, Core, ProgramInv, Constructing
<1>4. QED
  BY <1>1, <1>2, <1>3, LibraryKeepsProgram DEF Next

LEMMA InitialCore == InitPrograms => Core
<1> SUFFICES ASSUME InitPrograms PROVE Core
  OBVIOUS
<1>1. <<>> \in Seq(Sendable) /\ <<>> \in Seq(Positions)
  BY EmptySeq
<1>2. device \in [Arms -> [mode : ArmMode, client : {"never", "yes", "left"}]]
  BY LifecycleAssumption DEF InitPrograms, Init
<1>3. requested \in [Arms -> ArmMode]
  BY <1>2 DEF InitPrograms, Init
<1>4. ArmTypeOK
  BY <1>1, <1>2, <1>3 DEF InitPrograms, Init, ArmTypeOK
<1>5. ProgramTypeOK /\ LifeInv
  BY DEF InitPrograms, Init, ProgramTypeOK, LifeInv
<1>6. ProgramInv
  BY ProgramsAssumption DEF InitPrograms, ProgramInv, Working
<1>7. QED
  BY <1>4, <1>5, <1>6 DEF Core

LEMMA CoreHolds == Spec => []Core
<1>1. Core /\ UNCHANGED vars => Core'
  <2> SUFFICES ASSUME Core, UNCHANGED vars PROVE Core'
    OBVIOUS
  <2>1. ArmTypeOK' /\ LifeInv' /\ ProgramTypeOK'
    BY DEF vars, armVars, hostVars, linkVars, modeVars, programVars, Core, ArmTypeOK, LifeInv, ProgramTypeOK
  <2>2. ProgramInv'
    BY DEF vars, armVars, hostVars, programVars, Core, ProgramInv, Constructing
  <2>3. QED
    BY <2>1, <2>2 DEF Core
<1>2. Core /\ [Next]_vars => Core'
  BY <1>1, ArmsStay, ProgramTypesStay, ProgramStays DEF Core
<1>3. QED
  BY <1>2, InitialCore, PTL DEF Spec

(* Whoever holds a handle holds a living arm; its device information came  *)
(* from its device; and a program that is done has let every arm go.       *)
THEOREM HandlesKeepArmsUp == Spec => []LifecycleInv
<1>1. Core => LifecycleInv
  BY TypeParts DEF Core, LifeInv, ProgramInv, LifecycleInv
<1>2. QED
  BY <1>1, CoreHolds, PTL

-----------------------------------------------------------------------------
(* The talk with each device.                                              *)
TalkInv == \A a \in Arms : Talk(life[a], wire[a], device[a].client)

(* A step of one arm leaves the others alone.                              *)
LEMMA OthersRest ==
  ASSUME Core, NEW a \in Arms, ArmStep(a), NEW b \in Arms, b # a
  PROVE  /\ life'[b] = life[b] /\ owners'[b] = owners[b] /\ wire'[b] = wire[b] /\ device'[b] = device[b]
         /\ requested'[b] = requested[b] /\ strayed'[b] = strayed[b]
         /\ disconnect_mode_change_enabled'[b] = disconnect_mode_change_enabled[b]
<1> USE DEF hostVars, linkVars, modeVars, Core, ArmTypeOK
<1>1. CASE OpenPort(a) \/ Construct(a)
  <2>1. CASE OpenPort(a) \/ SeeInfo(a) \/ InfoTimesOut(a)
    BY <2>1 DEF OpenPort, SeeInfo, InfoTimesOut, Lives
  <2>2. CASE AskInfo(a)
    BY <2>2 DEF AskInfo, Lives, Sends
  <2>3. CASE Connect(a)
    BY <2>3 DEF Connect, Lives, Sends
  <2>4. QED
    BY <1>1, <2>1, <2>2, <2>3 DEF Construct
<1>2. CASE Destruct(a)
  BY <1>2 DEF Destruct, Damp, Bye, ClosePort, Lives, Sends
<1>3. CASE Speak(a)
  <2>1. ASSUME NEW mode, RequestsMode(a, mode)
        PROVE  wire'[b] = wire[b] /\ requested'[b] = requested[b] /\ strayed'[b] = strayed[b]
    BY <2>1 DEF RequestsMode, Sends
  <2>2. CASE \E mode \in ArmMode : RequestMode(a, mode)
    BY <2>1, <2>2 DEF RequestMode
  <2>3. CASE StartJointMITControl(a)
    BY <2>1, <2>3 DEF StartJointMITControl, Prepared, Owns
  <2>4. CASE \E q \in Int : s_sendCommand(a, q) \/ s_notify(a, q)
    BY <2>4 DEF s_sendCommand, s_notify, Sends
  <2>5. QED
    BY <1>3, <2>2, <2>3, <2>4 DEF Speak
<1>4. CASE Hold(a)
  BY <1>4 DEF Hold, SetDisconnectModeChange, GetGripper, StartGripperControl, Owns, ReadStatus, LetGo
<1>5. CASE Handle(a) \/ FeedInfo(a) \/ FeedStatus(a)
  BY <1>5 DEF Handle, FeedInfo, FeedStatus
<1>6. QED
  BY <1>1, <1>2, <1>3, <1>4, <1>5 DEF ArmStep

LEMMA TalkOfArm ==
  ASSUME Core, TalkInv, NEW a \in Arms, ArmStep(a)
  PROVE  Talk(life'[a], wire'[a], device'[a].client)
<1> USE DEF hostVars, linkVars, modeVars
<1> DEFINE l == life[a]
           w == wire[a]
           client == device[a].client
<1>0. /\ Talk(l, w, client) /\ w \in Seq(Sendable)
      /\ life \in [Arms -> Open \cup {"none", "gone", "failed"}]
      /\ ArmTypeOK
  BY DEF TalkInv, Core, ArmTypeOK
<1>a. l \in Before \cup Up \cup After
  BY <1>0 DEF Before, Up, After, Open
<1>1. ASSUME l = "up", UNCHANGED <<life, device>>,
             NEW x \in Sendable, x.packet # "SdkClientDisconnected", Sends(a, x)
      PROVE  Talk(life'[a], wire'[a], device'[a].client)
  <2>1. wire'[a] = Append(w, x)
    BY <1>0, <1>1, SendTypes
  <2>2. Talk("up", Append(w, x), client)
    BY <1>0, <1>1, Spoken
  <2>3. QED
    BY <1>1, <2>1, <2>2
<1>2. CASE OpenPort(a) \/ SeeInfo(a) \/ InfoTimesOut(a)
  <2>1. /\ l \in Before /\ life'[a] \in Before /\ UNCHANGED <<wire, device>>
    BY <1>0, <1>2 DEF OpenPort, SeeInfo, InfoTimesOut, Lives, Before
  <2>2. Talk(life'[a], w, client)
    BY <1>0, <2>1, Unspoken
  <2>3. QED
    BY <2>1, <2>2
<1>3. CASE AskInfo(a)
  <2> DEFINE x == [Message("GetDeviceInfo") EXCEPT !.value = FirstId]
  <2>1. x \in Sendable /\ x.packet = "GetDeviceInfo"
    BY MessageTypes
  <2>2. Sends(a, x) /\ l = "opened" /\ life'[a] = "asked" /\ UNCHANGED device
    BY <1>0, <1>3 DEF AskInfo, Lives
  <2> HIDE DEF x
  <2>3. wire'[a] = Append(w, x)
    BY <1>0, <2>1, <2>2, SendTypes
  <2>4. Talk("asked", Append(w, x), client)
    BY <1>0, <2>1, <2>2, Spoken
  <2>5. QED
    BY <2>2, <2>3, <2>4
<1>4. CASE Connect(a)
  <2> DEFINE x == Message("SdkClientConnected")
  <2>1. x \in Sendable /\ x.packet = "SdkClientConnected"
    BY MessageTypes
  <2>2. Sends(a, x) /\ l = "greeted" /\ life'[a] = "up" /\ UNCHANGED device
    BY <1>0, <1>4 DEF Connect, Lives
  <2> HIDE DEF x
  <2>3. wire'[a] = Append(w, x)
    BY <1>0, <2>1, <2>2, SendTypes
  <2>4. Talk("up", Append(w, x), client)
    BY <1>0, <2>1, <2>2, Spoken
  <2>5. QED
    BY <2>2, <2>3, <2>4
<1>5. CASE Damp(a)
  <2> DEFINE x == [Message("SetArmMode") EXCEPT !.mode = "Damp"]
  <2>1. x \in Sendable /\ x.packet = "SetArmMode"
    BY MessageTypes DEF ArmMode
  <2>2. (UNCHANGED wire \/ Sends(a, x)) /\ l = "up" /\ life'[a] = "damped" /\ UNCHANGED device
    BY <1>0, <1>5 DEF Damp, Lives
  <2> HIDE DEF x
  <2>3. CASE UNCHANGED wire
    BY <1>0, <2>2, <2>3, Unspoken DEF Up
  <2>4. CASE Sends(a, x)
    <3>1. wire'[a] = Append(w, x)
      BY <1>0, <2>1, <2>4, SendTypes
    <3>2. Talk("damped", Append(w, x), client)
      BY <1>0, <2>1, <2>2, Spoken
    <3>3. QED
      BY <2>2, <3>1, <3>2
  <2>5. QED
    BY <2>2, <2>3, <2>4
<1>6. CASE Bye(a)
  <2> DEFINE x == Message("SdkClientDisconnected")
  <2>1. x \in Sendable /\ x.packet = "SdkClientDisconnected"
    BY MessageTypes
  <2>2. Sends(a, x) /\ l = "damped" /\ life'[a] = "left" /\ UNCHANGED device
    BY <1>0, <1>6 DEF Bye, Lives
  <2> HIDE DEF x
  <2>3. wire'[a] = Append(w, x)
    BY <1>0, <2>1, <2>2, SendTypes
  <2>4. Talk("left", Append(w, x), client)
    BY <1>0, <2>1, <2>2, Spoken
  <2>5. QED
    BY <2>2, <2>3, <2>4
<1>7. CASE ClosePort(a)
  <2>1. l = "left" /\ life'[a] = "gone" /\ UNCHANGED <<wire, device>>
    BY <1>0, <1>7 DEF ClosePort, Lives
  <2>2. Talk("gone", w, client)
    BY <1>0, <2>1, Unspoken DEF After
  <2>3. QED
    BY <2>1, <2>2
<1>8. CASE Speak(a)
  <2>1. l = "up" /\ UNCHANGED <<life, device>>
    BY <1>8 DEF Speak, RequestMode, StartJointMITControl, s_sendCommand, s_notify, Core, LifeInv
  <2>2. \E x \in Sendable : x.packet # "SdkClientDisconnected" /\ Sends(a, x)
    <3>1. CASE (\E mode \in ArmMode : RequestMode(a, mode)) \/ StartJointMITControl(a)
      <4>1. PICK mode \in ArmMode : Sends(a, [Message("SetArmMode") EXCEPT !.mode = mode])
        BY <3>1 DEF RequestMode, StartJointMITControl, Prepared, RequestsMode, ArmMode
      <4>2. QED
        BY <4>1, MessageTypes
    <3>2. CASE \E q \in Int : s_sendCommand(a, q) \/ s_notify(a, q)
      BY <3>2, MessageTypes DEF s_sendCommand, s_notify
    <3>3. QED
      BY <1>8, <3>1, <3>2 DEF Speak
  <2>3. QED
    BY <1>1, <2>1, <2>2
<1>9. CASE Hold(a) \/ FeedInfo(a) \/ FeedStatus(a)
  <2>1. UNCHANGED <<life, wire, device>>
    BY <1>9 DEF Hold, SetDisconnectModeChange, GetGripper, StartGripperControl, ReadStatus, LetGo,
                FeedInfo, FeedStatus
  <2>2. QED
    BY <1>0, <2>1
<1>10. CASE Handle(a)
  <2>1. /\ w # <<>> /\ wire'[a] = Tail(w) /\ UNCHANGED life
        /\ device'[a] = Accepts(device[a], Head(w))
    BY <1>10 DEF Handle, Core, ArmTypeOK
  <2>2. Talk(l, Tail(w), Accepts(device[a], Head(w)).client)
    BY <1>0, <1>a, <2>1, Heard
  <2>3. QED
    BY <2>1, <2>2
<1>11. QED
  BY <1>2, <1>3, <1>4, <1>5, <1>6, <1>7, <1>8, <1>9, <1>10 DEF ArmStep, Construct, Destruct

LEMMA TalkHolds == Spec => []TalkInv
<1>1. InitPrograms => TalkInv
  <2> SUFFICES ASSUME InitPrograms PROVE TalkInv
    OBVIOUS
  <2>1. 1 .. Len(<<>>) = {}
    BY EmptySeq
  <2>2. Talk("none", <<>>, "never")
    BY <2>1 DEF Talk, Before, Up, After, Questions
  <2>3. \A a \in Arms : life[a] = "none" /\ wire[a] = <<>> /\ device[a].client = "never"
    BY DEF InitPrograms, Init
  <2>4. QED
    BY <2>2, <2>3 DEF TalkInv
<1>2. Core /\ TalkInv /\ [Next]_vars => TalkInv'
  <2> SUFFICES ASSUME Core, TalkInv, [Next]_vars PROVE TalkInv'
    OBVIOUS
  <2>1. CASE UNCHANGED armVars
    BY <2>1 DEF armVars, hostVars, linkVars, TalkInv
  <2>2. ASSUME NEW a \in Arms, ArmStep(a) PROVE TalkInv'
    <3> SUFFICES ASSUME NEW b \in Arms PROVE Talk(life'[b], wire'[b], device'[b].client)
      BY DEF TalkInv
    <3>1. CASE b = a
      BY <2>2, <3>1, TalkOfArm
    <3>2. CASE b # a
      BY <2>2, <3>2, OthersRest DEF TalkInv
    <3>3. QED
      BY <3>1, <3>2
  <2>3. QED
    BY <2>1, <2>2, Steps DEF vars
<1>3. QED
  BY <1>1, <1>2, CoreHolds, PTL DEF Spec

(* To the device a session is the question, Connected, then requests and   *)
(* commands, and Disconnected with nothing after it, however many handles  *)
(* share the arm and in whatever order they are let go.                    *)
THEOREM GoodbyesAreLast == Spec => []GoodbyeIsLast
<1>1. Core /\ TalkInv => GoodbyeIsLast
  <2> SUFFICES ASSUME Core, TalkInv, NEW a \in Arms
               PROVE  /\ device[a].client = "left" => wire[a] = <<>>
                      /\ \A i \in DOMAIN wire[a] :
                           /\ wire[a][i].packet = "SdkClientDisconnected" => i = Len(wire[a])
                           /\ device[a].client = "never"
                                /\ wire[a][i].packet \notin {"GetDeviceInfo", "SdkClientConnected"} =>
                                \E j \in 1 .. i - 1 : wire[a][j].packet = "SdkClientConnected"
    BY DEF GoodbyeIsLast
  <2> DEFINE l == life[a]
             w == wire[a]
             client == device[a].client
  <2>1. /\ Talk(l, w, client) /\ l \in Before \cup Up \cup After
        /\ DOMAIN w = 1 .. Len(w) /\ Len(w) \in Nat
    BY LenProperties DEF TalkInv, Core, ArmTypeOK, Before, Up, After, Open
  <2> HIDE DEF l, w, client
  <2>2. client = "left" => w = <<>>
    BY <2>1 DEF Talk
  <2>3. ASSUME NEW i \in 1 .. Len(w), w[i].packet = "SdkClientDisconnected" PROVE i = Len(w)
    <3>1. ~Questions(w)
      BY <2>3 DEF Questions
    <3>2. ~NoBye(w, Len(w) + 1)
      BY <2>1, <2>3 DEF NoBye
    <3>3. w # <<>>
      BY <2>3, EmptySeq
    <3>4. NoBye(w, Len(w))
      BY <2>1, <3>1, <3>2, <3>3 DEF Talk
    <3>5. QED
      BY <2>1, <2>3, <3>4 DEF NoBye
  <2>4. ASSUME NEW i \in 1 .. Len(w), client = "never",
               w[i].packet \notin {"GetDeviceInfo", "SdkClientConnected"}
        PROVE  \E j \in 1 .. i - 1 : w[j].packet = "SdkClientConnected"
    <3>1. ~Questions(w)
      BY <2>4 DEF Questions
    <3>2. Greeting(w)
      BY <2>1, <2>4, <3>1 DEF Talk
    <3>3. PICK j \in 1 .. Len(w) : /\ w[j].packet = "SdkClientConnected"
                                   /\ \A k \in 1 .. Len(w) : k < j => w[k].packet = "GetDeviceInfo"
      BY <3>2 DEF Greeting
    <3>4. ~(i < j) /\ i # j
      BY <2>4, <3>3
    <3>5. j \in 1 .. i - 1
      BY <3>4
    <3>6. QED
      BY <3>3, <3>5
  <2>5. QED
    BY <2>1, <2>2, <2>3, <2>4 DEF w, client
<1>2. QED
  BY <1>1, CoreHolds, TalkHolds, PTL

-----------------------------------------------------------------------------
(* The mode of each device, now and once it has taken what is on the wire. *)
JointsInPc(w, mode) ==
  \A i \in 1 .. Len(w) : w[i].packet = "JointMITCommand" => InEffect(w, mode, i, "Pc")

LEMMA JointsStay ==
  ASSUME NEW w \in Seq(Sendable), NEW x \in Sendable, NEW mode, JointsInPc(w, mode),
         x.packet = "JointMITCommand" => InEffect(w, mode, Len(w) + 1, "Pc")
  PROVE  JointsInPc(Append(w, x), mode)
<1> DEFINE v == Append(w, x)
<1>1. /\ Len(v) = Len(w) + 1 /\ Len(w) \in Nat
      /\ \A i \in 1 .. Len(w) : v[i] = w[i]
      /\ v[Len(w) + 1] = x
  BY Sent
<1>2. \A n \in 1 .. Len(w) + 1 : InEffect(w, mode, n, "Pc") => InEffect(v, mode, n, "Pc")
  BY EffectStays
<1> HIDE DEF v
<1>3. ASSUME NEW i \in 1 .. Len(v), v[i].packet = "JointMITCommand" PROVE InEffect(v, mode, i, "Pc")
  <2>1. i \in 1 .. Len(w) + 1 /\ (i \in 1 .. Len(w) \/ i = Len(w) + 1)
    BY <1>1
  <2>2. CASE i \in 1 .. Len(w)
    BY <1>1, <1>2, <1>3, <2>1, <2>2 DEF JointsInPc
  <2>3. CASE i = Len(w) + 1
    BY <1>1, <1>2, <1>3, <2>1, <2>3
  <2>4. QED
    BY <2>1, <2>2, <2>3
<1>4. JointsInPc(v, mode)
  BY <1>3 DEF JointsInPc
<1>5. QED
  BY <1>4 DEF v

LEMMA JointsHandled ==
  ASSUME NEW w \in Seq(Sendable), w # <<>>, NEW d, JointsInPc(w, d.mode)
  PROVE  JointsInPc(Tail(w), Accepts(d, Head(w)).mode)
<1> DEFINE v == Tail(w)
           mode == Accepts(d, Head(w)).mode
<1>1. /\ Len(v) = Len(w) - 1 /\ Len(w) \in Nat \ {0}
      /\ \A i \in 1 .. Len(w) - 1 : v[i] = w[i + 1]
  BY Taken
<1>2. \A n \in 2 .. Len(w) + 1 : InEffect(w, d.mode, n, "Pc") => InEffect(v, mode, n - 1, "Pc")
  BY EffectHandled
<1> HIDE DEF v, mode
<1>3. ASSUME NEW i \in 1 .. Len(v), v[i].packet = "JointMITCommand" PROVE InEffect(v, mode, i, "Pc")
  <2>1. i + 1 \in 1 .. Len(w) /\ i + 1 \in 2 .. Len(w) + 1 /\ (i + 1) - 1 = i /\ v[i] = w[i + 1]
    BY <1>1
  <2>2. InEffect(w, d.mode, i + 1, "Pc")
    BY <1>3, <2>1 DEF JointsInPc
  <2>3. InEffect(v, mode, (i + 1) - 1, "Pc")
    BY <1>2, <2>1, <2>2
  <2>4. QED
    BY <2>1, <2>3
<1>4. JointsInPc(v, mode)
  BY <1>3 DEF JointsInPc
<1>5. QED
  BY <1>4 DEF v, mode

LEMMA EmptyEffect ==
  ASSUME NEW mode, NEW m
  PROVE  /\ InEffect(<<>>, mode, Len(<<>>) + 1, m) <=> mode = m
         /\ JointsInPc(<<>>, mode)
<1>1. 1 .. Len(<<>>) = {}
  BY EmptySeq
<1>2. QED
  BY <1>1 DEF InEffect, NoModeIn, JointsInPc

(* Whoever may send a joint command asked for the mode for it last.        *)
MovesInv == \A a \in Arms : Moves(a) /\ ~strayed[a] => requested[a] = "Pc"

LEMMA MovesOfArm ==
  ASSUME Core, MovesInv, NEW a \in Arms, ArmStep(a), Moves(a)' => Moves(a) \/ requested'[a] = "Pc"
  PROVE  Moves(a)' /\ ~strayed'[a] => requested'[a] = "Pc"
<1> USE DEF linkVars, modeVars, hostVars
<1>1. CASE requested'[a] = requested[a] /\ strayed'[a] = strayed[a]
  BY <1>1 DEF MovesInv
<1>2. ASSUME NEW mode \in ArmMode, RequestsMode(a, mode)
      PROVE  Moves(a)' /\ ~strayed'[a] => requested'[a] = "Pc"
  BY <1>2 DEF RequestsMode, Core, ArmTypeOK
<1>3. CASE Speak(a)
  <2>1. CASE \E mode \in ArmMode : RequestMode(a, mode)
    BY <1>2, <2>1 DEF RequestMode
  <2>2. CASE StartJointMITControl(a)
    BY <1>2, <2>2 DEF StartJointMITControl, Prepared, ArmMode
  <2>3. CASE \E q \in Int : s_sendCommand(a, q) \/ s_notify(a, q)
    BY <1>1, <2>3 DEF s_sendCommand, s_notify
  <2>4. QED
    BY <1>3, <2>1, <2>2, <2>3 DEF Speak
<1>4. CASE OpenPort(a) \/ Construct(a) \/ Destruct(a) \/ Hold(a) \/ Handle(a) \/ FeedInfo(a) \/ FeedStatus(a)
  <2>1. UNCHANGED modeVars
    BY <1>4 DEF OpenPort, Construct, AskInfo, SeeInfo, InfoTimesOut, Connect, Destruct, Damp, Bye,
                ClosePort, Hold, SetDisconnectModeChange, GetGripper, StartGripperControl, ReadStatus,
                LetGo, Handle, FeedInfo, FeedStatus
  <2>2. QED
    BY <1>1, <2>1
<1>5. QED
  BY <1>3, <1>4 DEF ArmStep

(* Whoever becomes one who may send joint commands asks for Pc with it.    *)
LEMMA NewOwners ==
  ASSUME Core, NEW a \in Arms, ArmStep(a), "joint" \in owners'[a]
  PROVE  "joint" \in owners[a] \/ requested'[a] = "Pc"
<1> USE DEF hostVars, Core, ArmTypeOK
<1>1. CASE OpenPort(a) \/ Construct(a) \/ Destruct(a)
  BY <1>1 DEF OpenPort, Construct, AskInfo, SeeInfo, InfoTimesOut, Connect, Destruct, Damp, Bye, ClosePort
<1>2. CASE StartJointMITControl(a)
  BY <1>2 DEF StartJointMITControl, Prepared, RequestsMode
<1>3. CASE Speak(a) /\ ~StartJointMITControl(a)
  BY <1>3 DEF Speak, RequestMode, s_sendCommand, s_notify
<1>4. CASE Hold(a)
  BY <1>4 DEF Hold, SetDisconnectModeChange, GetGripper, StartGripperControl, Owns, ReadStatus, LetGo
<1>5. CASE Handle(a) \/ FeedInfo(a) \/ FeedStatus(a)
  BY <1>5 DEF Handle, FeedInfo, FeedStatus
<1>6. QED
  BY <1>1, <1>2, <1>3, <1>4, <1>5 DEF ArmStep

LEMMA NewTurns ==
  ASSUME Core, Next, pc' \in {"turn", "send"}
  PROVE  pc \in {"turn", "send"} \/ requested'[First] = "Pc"
<1>1. CASE RunProgram
  <2>1. CASE Control
    BY <2>1, ProgramsAssumption DEF Control, RequestMode, RequestsMode, Core, ArmTypeOK
  <2>2. CASE Created
    BY <2>2 DEF Created, Goto, Core, ProgramInv, FirstStep
  <2>3. CASE Create \/ Echo \/ Grip \/ Poll \/ Loop \/ Write \/ Turn \/ Send \/ Exit \/ PythonExits
    BY <2>3 DEF Create, Echo, Grip, Poll, Loop, Write, Turn, Send, Exit, PythonExits, programVars, Goto
  <2>4. QED
    BY <1>1, <2>1, <2>2, <2>3 DEF RunProgram, Example
<1>2. CASE CallLibrary
  BY <1>2 DEF CallLibrary, Python, Goto
<1>3. CASE Interrupt \/ \E a \in Arms : FallSilent(a) \/ Library(a) \/ Link(a)
  BY <1>3 DEF Interrupt, FallSilent, Library, Link, programVars
<1>4. QED
  BY <1>1, <1>2, <1>3 DEF Next

LEMMA MovesHolds == Spec => []MovesInv
<1>1. InitPrograms => MovesInv
  BY DEF InitPrograms, Init, MovesInv, Moves
<1>2. Core /\ MovesInv /\ Next => MovesInv'
  <2> SUFFICES ASSUME Core, MovesInv, Next, NEW b \in Arms
               PROVE  Moves(b)' /\ ~strayed'[b] => requested'[b] = "Pc"
    BY DEF MovesInv
  <2>1. b = First /\ pc' \in {"turn", "send"} => Moves(b) \/ requested'[b] = "Pc"
    BY NewTurns DEF Moves
  <2>2. CASE UNCHANGED armVars
    BY <2>1, <2>2 DEF armVars, hostVars, modeVars, MovesInv, Moves
  <2>3. ASSUME NEW a \in Arms, ArmStep(a) PROVE Moves(b)' /\ ~strayed'[b] => requested'[b] = "Pc"
    <3>1. CASE b = a
      <4>1. Moves(a)' => Moves(a) \/ requested'[a] = "Pc"
        BY <2>1, <2>3, <3>1, NewOwners DEF Moves
      <4>2. QED
        BY <2>3, <3>1, <4>1, MovesOfArm
    <3>2. CASE b # a
      <4>1. owners'[b] = owners[b] /\ requested'[b] = requested[b] /\ strayed'[b] = strayed[b]
        BY <2>3, <3>2, OthersRest
      <4>2. QED
        BY <2>1, <4>1 DEF MovesInv, Moves
    <3>3. QED
      BY <3>1, <3>2
  <2>4. QED
    BY <2>2, <2>3, Steps
<1>3. MovesInv /\ UNCHANGED vars => MovesInv'
  BY DEF vars, armVars, hostVars, modeVars, programVars, MovesInv, Moves
<1>4. QED
  BY <1>1, <1>2, <1>3, CoreHolds, PTL DEF Spec

(* What the device is, or will be, left in: from Damp on, the mode the     *)
(* destructor asks for if it may; before, the mode the program asked for.  *)
Wanted(a) == IF life[a] \in After \cup {"damped"} /\ disconnect_mode_change_enabled[a]
             THEN "Damp" ELSE requested[a]
WillBe(a) == InEffect(wire[a], device[a].mode, Len(wire[a]) + 1, Wanted(a))
InPc(a)   == ~strayed[a] => JointsInPc(wire[a], device[a].mode)
ModesInv  == \A a \in Arms : WillBe(a) /\ InPc(a)

(* A message asks for the mode that is then wanted, or wants it as it was; *)
(* a joint command goes where Pc is wanted.                                *)
LEMMA ModesSent ==
  ASSUME Core, ModesInv, NEW a \in Arms, NEW x \in Sendable, Sends(a, x), UNCHANGED device,
         \/ x.packet # "SetArmMode" /\ Wanted(a)' = Wanted(a)
         \/ x.packet = "SetArmMode" /\ x.mode = Wanted(a)',
         ~strayed'[a] => ~strayed[a],
         x.packet = "JointMITCommand" /\ ~strayed'[a] => Wanted(a) = "Pc"
  PROVE  WillBe(a)' /\ InPc(a)'
<1> DEFINE w == wire[a]
           mode == device[a].mode
           was == Wanted(a)
           m == Wanted(a)'
<1>1. w \in Seq(Sendable) /\ ArmTypeOK
  BY DEF Core, ArmTypeOK
<1>2. wire'[a] = Append(w, x) /\ device'[a].mode = mode
  BY <1>1, SendTypes
<1>3. InEffect(w, mode, Len(w) + 1, was)
  BY DEF ModesInv, WillBe
<1>4. \/ x.packet # "SetArmMode" /\ m = was
      \/ x.packet = "SetArmMode" /\ x.mode = m
  OBVIOUS
<1>5. ~strayed'[a] => JointsInPc(w, mode)
  BY DEF ModesInv, InPc
<1>6. x.packet = "JointMITCommand" /\ ~strayed'[a] => was = "Pc"
  OBVIOUS
<1>7. WillBe(a)' <=> InEffect(wire'[a], device'[a].mode, Len(wire'[a]) + 1, m)
  BY DEF WillBe
<1>8. InPc(a)' <=> (~strayed'[a] => JointsInPc(wire'[a], device'[a].mode))
  BY DEF InPc
<1> HIDE DEF w, mode, was, m
<1>9. InEffect(Append(w, x), mode, Len(Append(w, x)) + 1, m)
  BY <1>1, <1>3, <1>4, EffectAtEnd
<1>10. ~strayed'[a] => JointsInPc(Append(w, x), mode)
  BY <1>1, <1>3, <1>5, <1>6, JointsStay
<1>11. QED
  BY <1>2, <1>7, <1>8, <1>9, <1>10

LEMMA ModesOfArm ==
  ASSUME Core, MovesInv, ModesInv, NEW a \in Arms, ArmStep(a)
  PROVE  WillBe(a)' /\ InPc(a)'
<1> USE DEF hostVars, linkVars, modeVars
<1>0. /\ ArmTypeOK
      /\ life \in [Arms -> Open \cup {"none", "gone", "failed"}]
      /\ requested \in [Arms -> ArmMode] /\ strayed \in [Arms -> BOOLEAN]
  BY DEF Core, ArmTypeOK
<1>1. ASSUME UNCHANGED <<wire, device, modeVars>>, Wanted(a)' = Wanted(a)
      PROVE  WillBe(a)' /\ InPc(a)'
  BY <1>1 DEF ModesInv, WillBe, InPc
<1>2. CASE OpenPort(a) \/ SeeInfo(a) \/ InfoTimesOut(a)
  <2>1. Wanted(a)' = Wanted(a) /\ UNCHANGED <<wire, device, modeVars>>
    BY <1>0, <1>2 DEF OpenPort, SeeInfo, InfoTimesOut, Lives, Wanted, After
  <2>2. QED
    BY <1>1, <2>1
<1>3. CASE AskInfo(a)
  <2> DEFINE x == [Message("GetDeviceInfo") EXCEPT !.value = FirstId]
  <2>1. x \in Sendable /\ x.packet = "GetDeviceInfo"
    BY MessageTypes
  <2>2. Sends(a, x) /\ UNCHANGED <<device, modeVars>> /\ Wanted(a)' = Wanted(a)
    BY <1>0, <1>3 DEF AskInfo, Lives, Wanted, After
  <2> HIDE DEF x
  <2>3. QED
    BY <2>1, <2>2, ModesSent
<1>4. CASE Connect(a)
  <2> DEFINE x == Message("SdkClientConnected")
  <2>1. x \in Sendable /\ x.packet = "SdkClientConnected"
    BY MessageTypes
  <2>2. Sends(a, x) /\ UNCHANGED <<device, modeVars>> /\ Wanted(a)' = Wanted(a)
    BY <1>0, <1>4 DEF Connect, Lives, Wanted, After
  <2> HIDE DEF x
  <2>3. QED
    BY <2>1, <2>2, ModesSent
<1>5. CASE Damp(a)
  <2> DEFINE x == [Message("SetArmMode") EXCEPT !.mode = "Damp"]
  <2>1. x \in Sendable /\ x.packet = "SetArmMode" /\ x.mode = "Damp"
    BY MessageTypes DEF ArmMode
  <2>2. /\ UNCHANGED <<device, modeVars, disconnect_mode_change_enabled>>
        /\ life[a] = "up" /\ life'[a] = "damped"
        /\ \/ ~disconnect_mode_change_enabled[a] /\ UNCHANGED wire
           \/ disconnect_mode_change_enabled[a] /\ Sends(a, x)
    BY <1>0, <1>5 DEF Damp, DampWanted, Lives
  <2> HIDE DEF x
  <2>3. CASE ~disconnect_mode_change_enabled[a] /\ UNCHANGED wire
    <3>1. Wanted(a)' = Wanted(a)
      BY <2>2, <2>3 DEF Wanted
    <3>2. QED
      BY <1>1, <2>2, <2>3, <3>1
  <2>4. CASE disconnect_mode_change_enabled[a] /\ Sends(a, x)
    <3>1. Wanted(a)' = "Damp"
      BY <2>2, <2>4 DEF Wanted
    <3>2. QED
      BY <2>1, <2>2, <2>4, <3>1, ModesSent
  <2>5. QED
    BY <2>2, <2>3, <2>4
<1>6. CASE Bye(a)
  <2> DEFINE x == Message("SdkClientDisconnected")
  <2>1. x \in Sendable /\ x.packet = "SdkClientDisconnected"
    BY MessageTypes
  <2>2. Sends(a, x) /\ UNCHANGED <<device, modeVars>> /\ Wanted(a)' = Wanted(a)
    BY <1>0, <1>6 DEF Bye, Lives, Wanted, After
  <2> HIDE DEF x
  <2>3. QED
    BY <2>1, <2>2, ModesSent
<1>7. CASE ClosePort(a)
  <2>1. Wanted(a)' = Wanted(a) /\ UNCHANGED <<wire, device, modeVars>>
    BY <1>0, <1>7 DEF ClosePort, Lives, Wanted, After
  <2>2. QED
    BY <1>1, <2>1
<1>8. CASE Speak(a)
  <2>1. life[a] = "up" /\ UNCHANGED <<life, device, disconnect_mode_change_enabled>>
    BY <1>8 DEF Speak, RequestMode, StartJointMITControl, s_sendCommand, s_notify, Core, LifeInv
  <2>2. Wanted(a) = requested[a] /\ Wanted(a)' = requested'[a]
    BY <2>1 DEF Wanted, After
  <2>3. CASE (\E mode \in ArmMode : RequestMode(a, mode)) \/ StartJointMITControl(a)
    <3>1. PICK mode \in ArmMode : RequestsMode(a, mode)
      BY <2>3 DEF RequestMode, StartJointMITControl, Prepared, ArmMode
    <3> DEFINE x == [Message("SetArmMode") EXCEPT !.mode = mode]
    <3>2. x \in Sendable /\ x.packet = "SetArmMode" /\ x.mode = mode
      BY MessageTypes
    <3>3. Sends(a, x) /\ requested'[a] = mode /\ (~strayed'[a] => ~strayed[a])
      BY <1>0, <3>1 DEF RequestsMode
    <3> HIDE DEF x
    <3>4. QED
      BY <2>1, <2>2, <3>2, <3>3, ModesSent
  <2>4. CASE Moves(a) /\ \E q \in Int : s_sendCommand(a, q)
    <3>1. PICK q \in Int : s_sendCommand(a, q)
      BY <2>4
    <3>2. s_pack(q) \in Sendable /\ s_pack(q).packet = "JointMITCommand"
      BY MessageTypes
    <3>3. Sends(a, s_pack(q)) /\ UNCHANGED modeVars
      BY <3>1 DEF s_sendCommand
    <3>4. ~strayed'[a] => Wanted(a) = "Pc"
      BY <2>2, <2>4, <3>3 DEF MovesInv
    <3>5. QED
      BY <2>1, <2>2, <3>2, <3>3, <3>4, ModesSent
  <2>5. CASE \E q \in Int : s_notify(a, q)
    <3>1. PICK q \in Int : s_notify(a, q)
      BY <2>5
    <3>2. s_packGripper(q) \in Sendable /\ s_packGripper(q).packet = "GripperCommand"
      BY MessageTypes
    <3>3. Sends(a, s_packGripper(q)) /\ UNCHANGED modeVars
      BY <3>1 DEF s_notify
    <3>4. QED
      BY <2>1, <2>2, <3>2, <3>3, ModesSent
  <2>6. QED
    BY <1>8, <2>3, <2>4, <2>5 DEF Speak
<1>9. CASE Hold(a) \/ FeedInfo(a) \/ FeedStatus(a)
  <2>1. UNCHANGED <<life, wire, device, modeVars>>
    BY <1>9 DEF Hold, SetDisconnectModeChange, GetGripper, StartGripperControl, ReadStatus, LetGo,
                FeedInfo, FeedStatus
  <2>2. \/ UNCHANGED disconnect_mode_change_enabled
        \/ life[a] = "up"
    BY <1>9 DEF Hold, SetDisconnectModeChange, GetGripper, StartGripperControl, ReadStatus, LetGo,
                FeedInfo, FeedStatus, Core, LifeInv
  <2>3. Wanted(a)' = Wanted(a)
    BY <2>1, <2>2 DEF Wanted, After
  <2>4. QED
    BY <1>1, <2>1, <2>3
<1>10. CASE Handle(a)
  <2> DEFINE w == wire[a]
             d == device[a]
             m == Wanted(a)
  <2>1. /\ w # <<>> /\ wire'[a] = Tail(w) /\ device'[a] = Accepts(d, Head(w))
        /\ w \in Seq(Sendable) /\ UNCHANGED strayed
    BY <1>10 DEF Handle, Core, ArmTypeOK
  <2>2. Wanted(a)' = m
    BY <1>10 DEF Handle, Wanted
  <2>3. InEffect(w, d.mode, Len(w) + 1, m) /\ (~strayed'[a] => JointsInPc(w, d.mode))
    BY <2>1 DEF ModesInv, WillBe, InPc
  <2>4. WillBe(a)' <=> InEffect(wire'[a], device'[a].mode, Len(wire'[a]) + 1, Wanted(a)')
    BY DEF WillBe
  <2>5. InPc(a)' <=> (~strayed'[a] => JointsInPc(wire'[a], device'[a].mode))
    BY DEF InPc
  <2> HIDE DEF w, d, m
  <2>6. Len(w) \in Nat \ {0} /\ Len(Tail(w)) = Len(w) - 1
    BY <2>1, Taken
  <2>7. Len(w) + 1 \in 2 .. Len(w) + 1 /\ (Len(w) + 1) - 1 = Len(Tail(w)) + 1
    BY <2>6
  <2>8. InEffect(Tail(w), Accepts(d, Head(w)).mode, (Len(w) + 1) - 1, m)
    BY <2>1, <2>3, <2>7, EffectHandled
  <2>9. ~strayed'[a] => JointsInPc(Tail(w), Accepts(d, Head(w)).mode)
    BY <2>1, <2>3, JointsHandled
  <2>10. QED
    BY <2>1, <2>2, <2>4, <2>5, <2>7, <2>8, <2>9
<1>11. QED
  BY <1>2, <1>3, <1>4, <1>5, <1>6, <1>7, <1>8, <1>9, <1>10 DEF ArmStep, Construct, Destruct

LEMMA ModesHold == Spec => []ModesInv
<1>1. InitPrograms => ModesInv
  <2> SUFFICES ASSUME InitPrograms, NEW a \in Arms PROVE WillBe(a) /\ InPc(a)
    BY DEF ModesInv
  <2>1. wire[a] = <<>> /\ requested[a] = device[a].mode /\ life[a] = "none"
    BY DEF InitPrograms, Init
  <2>2. Wanted(a) = device[a].mode
    BY <2>1 DEF Wanted, After
  <2>3. QED
    BY <2>1, <2>2, EmptyEffect DEF WillBe, InPc
<1>2. Core /\ MovesInv /\ ModesInv /\ [Next]_vars => ModesInv'
  <2> SUFFICES ASSUME Core, MovesInv, ModesInv, [Next]_vars PROVE ModesInv'
    OBVIOUS
  <2>1. CASE UNCHANGED armVars
    BY <2>1 DEF armVars, hostVars, linkVars, modeVars, ModesInv, WillBe, InPc, Wanted
  <2>2. ASSUME NEW a \in Arms, ArmStep(a) PROVE ModesInv'
    <3> SUFFICES ASSUME NEW b \in Arms PROVE WillBe(b)' /\ InPc(b)'
      BY DEF ModesInv
    <3>1. CASE b = a
      BY <2>2, <3>1, ModesOfArm
    <3>2. CASE b # a
      BY <2>2, <3>2, OthersRest DEF ModesInv, WillBe, InPc, Wanted
    <3>3. QED
      BY <3>1, <3>2
  <2>3. QED
    BY <2>1, <2>2, Steps DEF vars
<1>3. QED
  BY <1>1, <1>2, CoreHolds, MovesHolds, PTL DEF Spec

(* "When false, destroying this Arm leaves the firmware mode unchanged";   *)
(* otherwise a device whose client left is in Damp, whoever let go last and *)
(* whatever was still on the wire when the destructor ran.                 *)
THEOREM DevicesAreLeftAsAsked == Spec => []ModeAtTheEnd
<1>1. Core /\ TalkInv /\ ModesInv => ModeAtTheEnd
  <2> SUFFICES ASSUME Core, TalkInv, ModesInv, NEW a \in Arms, device[a].client = "left"
               PROVE  device[a].mode = IF disconnect_mode_change_enabled[a] THEN "Damp" ELSE requested[a]
    BY DEF ModeAtTheEnd
  <2>1. Talk(life[a], wire[a], "left") /\ life[a] \in Before \cup Up \cup After
    BY DEF TalkInv, Core, ArmTypeOK, Before, Up, After, Open
  <2>2. life[a] \in After /\ wire[a] = <<>>
    BY <2>1 DEF Talk
  <2>3. InEffect(<<>>, device[a].mode, Len(<<>>) + 1, Wanted(a))
    BY <2>2 DEF ModesInv, WillBe
  <2>4. device[a].mode = Wanted(a)
    BY <2>3, EmptyEffect
  <2>5. QED
    BY <2>2, <2>4 DEF Wanted
<1>2. QED
  BY <1>1, CoreHolds, TalkHolds, ModesHold, PTL

(* As long as the program asked for no other mode, a joint command finds   *)
(* its device in Pc, however late the device takes what it was sent.       *)
THEOREM JointsFindPc == Spec => []JointCommandsInPc
<1>1. Core /\ ModesInv => JointCommandsInPc
  <2> SUFFICES ASSUME Core, ModesInv, NEW a \in Arms,
                      wire[a] # <<>>, Head(wire[a]).packet = "JointMITCommand", ~strayed[a]
               PROVE  device[a].mode = "Pc"
    BY DEF JointCommandsInPc
  <2> DEFINE w == wire[a]
  <2>1. w \in Seq(Sendable) /\ JointsInPc(w, device[a].mode)
    BY DEF Core, ArmTypeOK, ModesInv, InPc
  <2>2. Len(w) \in Nat \ {0} /\ Head(w) = w[1]
    BY <2>1, Taken
  <2>3. InEffect(w, device[a].mode, 1, "Pc")
    BY <2>1, <2>2 DEF JointsInPc
  <2>4. QED
    BY <2>2, <2>3 DEF InEffect
<1>2. QED
  BY <1>1, CoreHolds, ModesHold, PTL
=============================================================================
