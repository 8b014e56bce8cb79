---------------------------- MODULE AckSession_proofs ----------------------------
(***************************************************************************)
(* Reliable requests: slots come back, an ack that starts its chunk is     *)
(* seen, and the answer a request returns is its own; for any number of    *)
(* clients, ids and requests, whatever frames and cuts of them arrive, and *)
(* with the id that s_fetchDeviceInfo takes and never returns.             *)
(***************************************************************************)
EXTENDS AckSession, SequenceTheorems, TLAPS

Acks    == [kind : {"ack"}, id : Ids, status : Status, number : Nat \ {0}]
Frame   == Acks \cup {Telemetry}
Calls   == [id : Ids, number : Nat \ {0}]
Slot    == [req_id : Ids, status : Status \cup {"none"}, resolved : BOOLEAN]
Places  == {"idle", "allocate", "send", "wait", "resolved", "timeout"}

TypeOK == /\ next_id_ \in Ids
          /\ pending_ \in [Ids -> Slot]
          /\ pc \in [Clients -> Places]
          /\ req_id \in [Clients -> Ids]
          /\ number \in [Clients -> Nat]
          /\ issued \in Nat
          /\ requests \subseteq Calls
          /\ inbound \in Seq(Frame)
          /\ splitting \in BOOLEAN
          /\ splitting => inbound # <<>>

-----------------------------------------------------------------------------
(* A slot that is taken and unresolved is waited for: the client that took *)
(* it has not returned yet.  Only s_fetchDeviceInfo never returns its own. *)

Stored(c) == pc[c] \in {"send", "wait", "resolved", "timeout"}
SlotsHaveOwners ==
  \A i \in Ids : /\ pending_[i].req_id \in {Free, i}
                 /\ pending_[i].req_id # Free /\ ~pending_[i].resolved =>
                      i = InfoId \/ \E c \in Clients : Stored(c) /\ req_id[c] = i

-----------------------------------------------------------------------------
(* Where an ack that is on its way will find its request.                  *)

(* Numbers are those of ids allocated, each of one client's request; the   *)
(* first id is the one of s_fetchDeviceInfo.                               *)
Numbered ==
  /\ issued = 0 => next_id_ = InfoId
  /\ \A c \in Clients : number[c] <= issued /\ (pc[c] # "idle" => number[c] > 0)
  /\ \A c, d \in Clients : number[c] = number[d] /\ number[c] # 0 => c = d
  /\ \A r \in requests : r.number <= issued
  /\ \A i \in 1 .. Len(inbound) : inbound[i].kind = "ack" => inbound[i].number <= issued
  /\ \A n \in headed : n \in Nat /\ n <= issued

(* A request and its ack carry the id of the client that waits for it.     *)
SameId ==
  /\ \A r \in requests, c \in Clients : r.number = number[c] => r.id = req_id[c]
  /\ \A i \in 1 .. Len(inbound), c \in Clients :
       inbound[i].kind = "ack" /\ inbound[i].number = number[c] => inbound[i].id = req_id[c]

(* A request that was not sent yet is nowhere on its way.                  *)
Unsent ==
  \A c \in Clients : pc[c] \in {"allocate", "send"} =>
    /\ number[c] \notin headed
    /\ \A r \in requests : r.number # number[c]
    /\ \A i \in 1 .. Len(inbound) : inbound[i].kind = "ack" => inbound[i].number # number[c]

(* Two clients in one slot have both lost it; one alone keeps it, and it   *)
(* is resolved once the ack has come at the head of a chunk.               *)
SlotIsMine ==
  /\ \A c, d \in Clients : c # d /\ Stored(c) /\ Stored(d) /\ req_id[c] = req_id[d] =>
       number[c] \in disturbed
  /\ \A c \in Clients : Stored(c) /\ number[c] \notin disturbed =>
       /\ pending_[req_id[c]].req_id = req_id[c]
       /\ number[c] \in headed => pending_[req_id[c]].resolved

AckInv == TypeOK /\ SlotsHaveOwners /\ Numbered /\ SameId /\ Unsent /\ SlotIsMine

-----------------------------------------------------------------------------
LEMMA IdsAreIds == Free \in Ids /\ IdCount \in Nat /\ \A id \in Ids : NextId(id) \in Ids
<1>1. IdCount \in Nat /\ 2 <= IdCount
  BY AckAssumption
<1>2. \A id \in Ids : (id + 1) % IdCount \in 0 .. IdCount - 1
  BY <1>1 DEF Ids
<1>3. QED
  BY <1>1, <1>2 DEF Ids, Free, NextId

(* The frames of a sequence that grows, or loses its first ones.           *)
LEMMA Grown ==
  ASSUME NEW s \in Seq(Frame), NEW f \in Frame
  PROVE  /\ Append(s, f) \in Seq(Frame) /\ Append(s, f) # <<>>
         /\ \A i \in 1 .. Len(Append(s, f)) :
              Append(s, f)[i] = f \/ \E j \in 1 .. Len(s) : Append(s, f)[i] = s[j]
<1>1. Len(s) \in Nat
  BY LenProperties
<1>2. QED
  BY <1>1, AppendProperties

LEMMA Shrunk ==
  ASSUME NEW s \in Seq(Frame), NEW k \in 1 .. Len(s)
  PROVE  /\ SubSeq(s, k + 1, Len(s)) \in Seq(Frame)
         /\ \A i \in 1 .. Len(SubSeq(s, k + 1, Len(s))) :
              \E j \in 1 .. Len(s) : SubSeq(s, k + 1, Len(s))[i] = s[j]
<1>1. Len(s) \in Nat /\ \A j \in 1 .. Len(s) : s[j] \in Frame
  BY LenProperties, ElementOfSeq
<1> DEFINE t == SubSeq(s, k + 1, Len(s))
<1>2. /\ t \in Seq(Frame) /\ Len(t) = Len(s) - k
      /\ \A i \in 1 .. Len(t) : t[i] = s[k + i]
  BY <1>1, SubSeqProperties
<1>3. \A i \in 1 .. Len(t) : k + i \in 1 .. Len(s)
  BY <1>1, <1>2
<1>4. QED
  BY <1>2, <1>3

LEMMA FrameNumbers ==
  ASSUME TypeOK, NEW i \in 1 .. Len(inbound), inbound[i].kind = "ack"
  PROVE  inbound[i] \in Acks /\ inbound[i].number \in Nat \ {0} /\ inbound[i].id \in Ids
         /\ inbound[i].status \in Status
<1>1. inbound[i] \in Frame
  BY ElementOfSeq DEF TypeOK
<1>2. inbound[i] # Telemetry
  BY DEF Telemetry
<1>3. QED
  BY <1>1, <1>2 DEF Frame, Acks

(* What a chunk does to the slots, whatever was read as an ack in it.      *)
LEMMA ResolveSlots ==
  ASSUME TypeOK, NEW id \in Ids, NEW s \in Status, Resolve(id, s)
  PROVE  /\ pending_' \in [Ids -> Slot]
         /\ \A i \in Ids : /\ pending_'[i].req_id = pending_[i].req_id
                           /\ pending_[i].resolved => pending_'[i].resolved
         /\ pending_[id].req_id = id => pending_'[id].resolved
<1>1. pending_[id] \in Slot
  BY DEF TypeOK
<1>2. CASE pending_[id].req_id = id
  <2>1. pending_' = [pending_ EXCEPT ![id] = [@ EXCEPT !.status = s, !.resolved = TRUE]]
    BY <1>2 DEF Resolve, TypeOK
  <2>2. [pending_[id] EXCEPT !.status = s, !.resolved = TRUE] \in Slot
    BY <1>1 DEF Slot
  <2>3. QED
    BY <1>1, <2>1, <2>2 DEF TypeOK, Slot
<1>3. CASE pending_[id].req_id # id
  BY <1>3 DEF Resolve, TypeOK
<1>4. QED
  BY <1>2, <1>3

-----------------------------------------------------------------------------
LEMMA InitEstablishes == Init => AckInv
<1> SUFFICES ASSUME Init PROVE AckInv
  OBVIOUS
<1>1. <<>> \in Seq(Frame) /\ Len(<<>>) = 0
  BY EmptySeq
<1>2. InfoId \in Ids /\ next_id_ = InfoId /\ 0 \in Ids
  <2>1. IdCount \in Nat /\ 2 <= IdCount
    BY AckAssumption
  <2>2. 1 % IdCount \in 0 .. IdCount - 1
    BY <2>1
  <2>3. QED
    BY <2>1, <2>2 DEF Init, Ids, InfoId
<1>3. TypeOK
  BY <1>1, <1>2, IdsAreIds DEF Init, TypeOK, Slot, Places
<1>4. SlotsHaveOwners
  BY DEF Init, SlotsHaveOwners
<1>5. Numbered /\ SameId /\ Unsent /\ SlotIsMine
  BY <1>1, <1>2 DEF Init, Numbered, SameId, Unsent, SlotIsMine, Stored
<1>6. QED
  BY <1>3, <1>4, <1>5 DEF AckInv

(* The constructor comes before every request, and takes the first id.     *)
LEMMA FetchPreserves == AckInv /\ FetchDeviceInfo => AckInv'
<1> SUFFICES ASSUME AckInv, FetchDeviceInfo PROVE AckInv'
  OBVIOUS
<1> USE DEF AckInv
<1> DEFINE mine == [req_id |-> InfoId, status |-> "none", resolved |-> FALSE]
<1>1. /\ issued = 0 /\ issued' = 1 /\ next_id_ = InfoId
      /\ UNCHANGED <<pc, req_id, number, requests, inbound, headed, disturbed, splitting>>
  BY DEF FetchDeviceInfo, clientVars, deviceVars, hazards, Numbered
<1>2. InfoId \in Ids /\ mine \in Slot /\ pending_' = [pending_ EXCEPT ![InfoId] = mine]
      /\ next_id_' = NextId(InfoId)
  BY <1>1 DEF FetchDeviceInfo, Taken, TypeOK, Slot, NextId
<1>3. TypeOK'
  BY <1>1, <1>2, IdsAreIds DEF TypeOK
<1>4. \A c \in Clients : number[c] = 0 /\ pc[c] = "idle"
  BY <1>1 DEF Numbered, TypeOK
<1>5. SlotsHaveOwners'
  <2>1. \A i \in Ids : pending_'[i] = IF i = InfoId THEN mine ELSE pending_[i]
    BY <1>2 DEF TypeOK
  <2>2. QED
    BY <1>1, <2>1 DEF SlotsHaveOwners, Stored
<1>6. Numbered'
  <2>1. \A r \in requests : r.number <= 1
    BY <1>1 DEF Numbered, TypeOK, Calls
  <2>2. \A i \in 1 .. Len(inbound) : inbound[i].kind = "ack" => inbound[i].number <= 1
    BY <1>1, FrameNumbers DEF Numbered
  <2>3. \A n \in headed : n \in Nat /\ n <= 1
    BY <1>1 DEF Numbered
  <2>4. QED
    BY <1>1, <1>4, <2>1, <2>2, <2>3 DEF Numbered
<1>7. SameId' /\ Unsent' /\ SlotIsMine'
  BY <1>1, <1>4 DEF SameId, Unsent, SlotIsMine, Stored
<1>8. QED
  BY <1>3, <1>5, <1>6, <1>7

LEMMA AllocateReadPreserves ==
  ASSUME AckInv, NEW c \in Clients, AllocateRead(c) PROVE AckInv'
<1> USE DEF AckInv, AllocateRead, Goto, managerVars, deviceVars
<1>1. TypeOK'
  BY DEF TypeOK, Places
<1>2. SlotsHaveOwners'
  BY DEF SlotsHaveOwners, Stored, TypeOK
<1>3. Numbered'
  <2>1. number' = [number EXCEPT ![c] = issued + 1] /\ issued' = issued + 1
        /\ pc' = [pc EXCEPT ![c] = "allocate"]
    OBVIOUS
  <2>2. \A d \in Clients : number[d] \in Nat /\ number[d] <= issued /\ issued \in Nat
    BY DEF Numbered, TypeOK
  <2>3. \A d \in Clients : number'[d] <= issued' /\ (pc'[d] # "idle" => number'[d] > 0)
    BY <2>1, <2>2 DEF Numbered, TypeOK
  <2>4. \A d, e \in Clients : number'[d] = number'[e] /\ number'[d] # 0 => d = e
    <3> SUFFICES ASSUME NEW d \in Clients, NEW e \in Clients, d # e, number'[d] # 0
                 PROVE  number'[d] # number'[e]
      OBVIOUS
    <3>1. \A f \in Clients : number'[f] = IF f = c THEN issued + 1 ELSE number[f]
      BY <2>1 DEF TypeOK
    <3>2. QED
      BY <2>2, <3>1 DEF Numbered
  <2>5. \A r \in requests : r.number <= issued'
    BY <2>1, <2>2 DEF Numbered, TypeOK, Calls
  <2>6. \A i \in 1 .. Len(inbound) : inbound[i].kind = "ack" => inbound[i].number <= issued'
    BY <2>1, FrameNumbers DEF Numbered, TypeOK
  <2>7. \A n \in headed : n \in Nat /\ n <= issued'
    BY <2>1 DEF Numbered, TypeOK
  <2>8. issued' # 0
    BY <2>1 DEF TypeOK
  <2>9. QED
    BY <2>3, <2>4, <2>5, <2>6, <2>7, <2>8 DEF Numbered
<1>4. SameId'
  <2> SUFFICES ASSUME NEW d \in Clients
               PROVE  /\ \A r \in requests : r.number = number'[d] => r.id = req_id'[d]
                      /\ \A i \in 1 .. Len(inbound) :
                           inbound[i].kind = "ack" /\ inbound[i].number = number'[d] => inbound[i].id = req_id'[d]
    BY DEF SameId
  <2>1. CASE d = c
    BY <2>1 DEF Numbered, TypeOK
  <2>2. CASE d # c
    BY <2>2 DEF SameId, TypeOK
  <2>3. QED
    BY <2>1, <2>2
<1>5. Unsent'
  <2> SUFFICES ASSUME NEW d \in Clients, pc'[d] \in {"allocate", "send"}
               PROVE  /\ number'[d] \notin headed
                      /\ \A r \in requests : r.number # number'[d]
                      /\ \A i \in 1 .. Len(inbound) : inbound[i].kind = "ack" => inbound[i].number # number'[d]
    BY DEF Unsent
  <2>1. CASE d = c
    BY <2>1 DEF Numbered, TypeOK
  <2>2. CASE d # c
    BY <2>2 DEF Unsent, TypeOK
  <2>3. QED
    BY <2>1, <2>2
<1>6. SlotIsMine'
  BY DEF SlotIsMine, Stored, TypeOK
<1>7. QED
  BY <1>1, <1>2, <1>3, <1>4, <1>5, <1>6

LEMMA AllocateStorePreserves ==
  ASSUME AckInv, NEW c \in Clients, AllocateStore(c) PROVE AckInv'
<1> USE DEF AckInv, AllocateStore, Goto, deviceVars
<1> DEFINE id == req_id[c]
           mine == [req_id |-> id, status |-> "none", resolved |-> FALSE]
           sharing == {d \in Clients : pc[d] # "idle" /\ req_id[d] = id}
<1>1. id \in Ids /\ mine \in Slot /\ pending_' = [pending_ EXCEPT ![id] = mine]
  BY DEF TypeOK, Slot, Taken
<1>2. TypeOK'
  BY <1>1, IdsAreIds DEF TypeOK, Places
<1>3. SlotsHaveOwners'
  <2> SUFFICES ASSUME NEW i \in Ids
               PROVE  /\ pending_'[i].req_id \in {Free, i}
                      /\ pending_'[i].req_id # Free /\ ~pending_'[i].resolved =>
                           i = InfoId \/ \E d \in Clients : Stored(d)' /\ req_id[d] = i
    BY DEF SlotsHaveOwners
  <2>1. CASE i = id
    BY <1>1, <2>1 DEF TypeOK, Stored
  <2>2. CASE i # id
    <3>1. pending_'[i] = pending_[i]
      BY <1>1, <2>2 DEF TypeOK
    <3>2. \A d \in Clients : Stored(d) => Stored(d)'
      BY DEF TypeOK, Stored
    <3>3. QED
      BY <3>1, <3>2 DEF SlotsHaveOwners
  <2>3. QED
    BY <2>1, <2>2
<1>4. Numbered' /\ SameId' /\ Unsent'
  <2>1. issued # 0
    BY DEF Numbered, TypeOK
  <2>2. QED
    BY <2>1 DEF Numbered, SameId, Unsent, TypeOK
<1>5. disturbed \subseteq disturbed' /\ (sharing # {c} => \A d \in sharing : number[d] \in disturbed')
  BY DEF sharing
<1>6. \A d \in Clients : /\ d # c => (Stored(d)' <=> Stored(d))
                         /\ Stored(d) => pc[d] # "idle"
                         /\ Stored(c)' /\ c \in sharing /\ ~Stored(c)
  BY DEF TypeOK, Stored
<1>7. \A d \in Clients : d # c /\ Stored(d) /\ req_id[d] = id => {number[c], number[d]} \subseteq disturbed'
  BY <1>5, <1>6
<1> HIDE DEF sharing, mine
<1>8. SlotIsMine'
  <2>1. ASSUME NEW d \in Clients, NEW e \in Clients, d # e, Stored(d)', Stored(e)', req_id[d] = req_id[e]
        PROVE  number[d] \in disturbed'
    BY <1>5, <1>6, <1>7, <2>1 DEF SlotIsMine
  <2>2. ASSUME NEW d \in Clients, Stored(d)', number[d] \notin disturbed'
        PROVE  /\ pending_'[req_id[d]].req_id = req_id[d]
               /\ number[d] \in headed => pending_'[req_id[d]].resolved
    <3>1. CASE d = c
      BY <1>1, <3>1 DEF Unsent, TypeOK, mine
    <3>2. CASE d # c
      <4>1. Stored(d) /\ req_id[d] # id /\ number[d] \notin disturbed
        BY <1>5, <1>6, <1>7, <2>2, <3>2
      <4>2. pending_'[req_id[d]] = pending_[req_id[d]]
        BY <1>1, <4>1 DEF TypeOK
      <4>3. QED
        BY <4>1, <4>2 DEF SlotIsMine
    <3>3. QED
      BY <3>1, <3>2
  <2>3. QED
    BY <2>1, <2>2 DEF SlotIsMine
<1>9. QED
  BY <1>2, <1>3, <1>4, <1>8

LEMMA SendPreserves ==
  ASSUME AckInv, NEW c \in Clients, Send(c) PROVE AckInv'
<1> USE DEF AckInv, Send, Goto, managerVars, hazards
<1>1. number[c] \in Nat \ {0} /\ req_id[c] \in Ids
  <2>1. number[c] \in Nat /\ req_id[c] \in Ids /\ pc[c] # "idle"
    BY DEF TypeOK
  <2>2. number[c] > 0
    BY <2>1 DEF Numbered
  <2>3. QED
    BY <2>1, <2>2
<1>2. TypeOK'
  BY <1>1 DEF TypeOK, Places, Calls
<1>3. \A d \in Clients : Stored(d)' <=> Stored(d)
  BY DEF TypeOK, Stored
<1>4. SlotsHaveOwners' /\ SlotIsMine'
  BY <1>3 DEF SlotsHaveOwners, SlotIsMine
<1>5. \A r \in requests' : r \in requests \/ (r.number = number[c] /\ r.id = req_id[c])
  OBVIOUS
<1>6. Numbered'
  BY <1>1, <1>5 DEF Numbered, TypeOK
<1>7. \A d \in Clients : number[d] = number[c] => d = c
  BY <1>1 DEF Numbered
<1>8. SameId'
  BY <1>5, <1>7 DEF SameId
<1>9. Unsent'
  <2> SUFFICES ASSUME NEW d \in Clients, pc'[d] \in {"allocate", "send"}
               PROVE  /\ number[d] \notin headed
                      /\ \A r \in requests' : r.number # number[d]
                      /\ \A i \in 1 .. Len(inbound) : inbound[i].kind = "ack" => inbound[i].number # number[d]
    BY DEF Unsent
  <2>1. d # c /\ pc[d] \in {"allocate", "send"}
    BY DEF TypeOK
  <2>2. QED
    BY <1>5, <1>7, <2>1 DEF Unsent
<1>10. QED
  BY <1>2, <1>4, <1>6, <1>8, <1>9

(* A step of a client that stays within wait_ack.                          *)
LEMMA SeePreserves ==
  ASSUME AckInv, NEW c \in Clients, SeeResolved(c) \/ TimeUp(c) PROVE AckInv'
<1> USE DEF AckInv, SeeResolved, TimeUp, Goto, managerVars, deviceVars, hazards
<1>1. pc[c] = "wait" /\ pc' \in [Clients -> Places] /\ (\A d \in Clients : d # c => pc'[d] = pc[d])
      /\ pc'[c] \in {"resolved", "timeout"}
  BY DEF TypeOK, Places
<1>2. UNCHANGED <<next_id_, pending_, req_id, number, issued, requests, inbound, headed, disturbed, splitting>>
  OBVIOUS
<1>3. \A d \in Clients : Stored(d)' <=> Stored(d)
  BY <1>1 DEF Stored
<1>4. \A d \in Clients : pc'[d] \in {"allocate", "send"} => pc[d] \in {"allocate", "send"}
  BY <1>1
<1>5. TypeOK'
  BY <1>1, <1>2 DEF TypeOK
<1>6. SlotsHaveOwners' /\ SlotIsMine'
  BY <1>2, <1>3 DEF SlotsHaveOwners, SlotIsMine
<1>7. Numbered' /\ SameId' /\ Unsent'
  BY <1>1, <1>2, <1>4 DEF Numbered, SameId, Unsent
<1>8. QED
  BY <1>5, <1>6, <1>7

LEMMA ReturnPreserves ==
  ASSUME AckInv, NEW c \in Clients, Return(c) PROVE AckInv'
<1> USE DEF AckInv, Goto, deviceVars, hazards
<1> DEFINE id == req_id[c]
<1>1. Stored(c) /\ pc' = [pc EXCEPT ![c] = "idle"]
      /\ UNCHANGED <<next_id_, req_id, number, issued, requests, inbound, headed, disturbed, splitting>>
  BY DEF Return, Stored
<1>2. id \in Ids /\ pending_[id] \in Slot /\ [pending_[id] EXCEPT !.req_id = Free] \in Slot
  BY IdsAreIds, SMTT(30) DEF TypeOK, Slot
<1>3. pending_' = [pending_ EXCEPT ![id] = [@ EXCEPT !.req_id = Free]]
  BY DEF Return
<1>4. /\ pending_' \in [Ids -> Slot] /\ pending_'[id].req_id = Free
      /\ \A i \in Ids : i # id => pending_'[i] = pending_[i]
  BY <1>2, <1>3 DEF TypeOK, Slot
<1>5. TypeOK'
  BY <1>1, <1>4 DEF TypeOK, Places
<1>6. \A d \in Clients : d # c => (Stored(d)' <=> Stored(d))
  BY <1>1 DEF TypeOK, Stored
<1>7. ~Stored(c)'
  BY <1>1 DEF TypeOK, Stored
<1>8. SlotsHaveOwners'
  <2> SUFFICES ASSUME NEW i \in Ids
               PROVE  /\ pending_'[i].req_id \in {Free, i}
                      /\ pending_'[i].req_id # Free /\ ~pending_'[i].resolved =>
                           i = InfoId \/ \E d \in Clients : Stored(d)' /\ req_id[d] = i
    BY <1>1 DEF SlotsHaveOwners
  <2>1. CASE i = id
    BY <1>4, <2>1
  <2>2. CASE i # id
    <3>1. pending_'[i] = pending_[i]
      BY <1>4, <2>2
    <3>2. \A d \in Clients : Stored(d) /\ req_id[d] = i => Stored(d)'
      BY <1>6, <2>2
    <3>3. QED
      BY <3>1, <3>2 DEF SlotsHaveOwners
  <2>3. QED
    BY <2>1, <2>2
<1>9. Numbered' /\ SameId' /\ Unsent'
  BY <1>1 DEF Numbered, SameId, Unsent, TypeOK
<1>10. SlotIsMine'
  <2>1. ASSUME NEW d \in Clients, NEW e \in Clients, d # e, Stored(d)', Stored(e)', req_id[d] = req_id[e]
        PROVE  number[d] \in disturbed
    BY <1>6, <1>7, <2>1 DEF SlotIsMine
  <2>2. ASSUME NEW d \in Clients, Stored(d)', number[d] \notin disturbed
        PROVE  /\ pending_'[req_id[d]].req_id = req_id[d]
               /\ number[d] \in headed => pending_'[req_id[d]].resolved
    <3>1. d # c /\ Stored(d)
      BY <1>6, <1>7, <2>2
    <3>2. req_id[d] # id
      BY <1>1, <2>2, <3>1 DEF SlotIsMine
    <3>3. pending_'[req_id[d]] = pending_[req_id[d]]
      BY <1>4, <3>2 DEF TypeOK
    <3>4. QED
      BY <2>2, <3>1, <3>3 DEF SlotIsMine
  <2>3. QED
    BY <1>1, <2>1, <2>2 DEF SlotIsMine
<1>11. QED
  BY <1>5, <1>8, <1>9, <1>10

-----------------------------------------------------------------------------
(* The device: an answer carries what its request carried.                 *)
LEMMA DeviceAnswersPreserves == AckInv /\ DeviceAnswers => AckInv'
<1> SUFFICES ASSUME AckInv, DeviceAnswers PROVE AckInv'
  OBVIOUS
<1> USE DEF AckInv
<1>1. PICK r \in requests, s \in Status :
        /\ requests' = requests \ {r} /\ inbound' = Append(inbound, Ack(r, s))
        /\ UNCHANGED <<next_id_, pending_, pc, req_id, number, issued, headed, disturbed, splitting>>
  BY DEF DeviceAnswers, managerVars, clientVars, hazards
<1> DEFINE f == Ack(r, s)
<1>2. f \in Frame /\ f.kind = "ack" /\ f.number = r.number /\ f.id = r.id
  BY DEF Frame, Acks, Ack, TypeOK, Calls
<1> HIDE DEF f
<1>3. inbound \in Seq(Frame)
  BY DEF TypeOK
<1>4. /\ inbound' \in Seq(Frame) /\ inbound' # <<>>
      /\ \A i \in 1 .. Len(inbound') : inbound'[i] = f \/ \E j \in 1 .. Len(inbound) : inbound'[i] = inbound[j]
  BY <1>1, <1>2, <1>3, Grown DEF f
<1>5. TypeOK'
  BY <1>1, <1>4 DEF TypeOK
<1>6. SlotsHaveOwners' /\ SlotIsMine'
  BY <1>1 DEF SlotsHaveOwners, SlotIsMine, Stored
<1>7. Numbered'
  BY <1>1, <1>2, <1>4 DEF Numbered
<1>8. SameId'
  BY <1>1, <1>2, <1>4 DEF SameId
<1>9. Unsent'
  BY <1>1, <1>2, <1>4 DEF Unsent
<1>10. QED
  BY <1>5, <1>6, <1>7, <1>8, <1>9

LEMMA DeviceReportsPreserves == AckInv /\ DeviceReports => AckInv'
<1> SUFFICES ASSUME AckInv, DeviceReports PROVE AckInv'
  OBVIOUS
<1> USE DEF AckInv
<1>1. /\ inbound' = Append(inbound, Telemetry)
      /\ UNCHANGED <<next_id_, pending_, pc, req_id, number, issued, requests, headed, disturbed, splitting>>
  BY DEF DeviceReports, managerVars, clientVars, hazards
<1>2. Telemetry \in Frame /\ Telemetry.kind # "ack" /\ inbound \in Seq(Frame)
  BY DEF Frame, Telemetry, TypeOK
<1>3. /\ inbound' \in Seq(Frame) /\ inbound' # <<>>
      /\ \A i \in 1 .. Len(inbound') :
           inbound'[i] = Telemetry \/ \E j \in 1 .. Len(inbound) : inbound'[i] = inbound[j]
  BY <1>1, <1>2, Grown
<1>4. TypeOK'
  BY <1>1, <1>3 DEF TypeOK
<1>5. SlotsHaveOwners' /\ SlotIsMine'
  BY <1>1 DEF SlotsHaveOwners, SlotIsMine, Stored
<1>6. Numbered' /\ SameId' /\ Unsent'
  BY <1>1, <1>2, <1>3 DEF Numbered, SameId, Unsent
<1>7. QED
  BY <1>4, <1>5, <1>6

-----------------------------------------------------------------------------
(* The I/O thread: slots are only ever resolved, frames only leave, and an *)
(* ack counted as the head of its chunk has been resolved if its slot was  *)
(* still taken.                                                            *)
LEMMA ChunkPreserves ==
  ASSUME AckInv,
         UNCHANGED <<next_id_, pc, req_id, number, issued, requests, disturbed>>,
         pending_' \in [Ids -> Slot],
         \A i \in Ids : /\ pending_'[i].req_id = pending_[i].req_id
                        /\ pending_[i].resolved => pending_'[i].resolved,
         inbound' \in Seq(Frame), splitting' \in BOOLEAN, splitting' => inbound' # <<>>,
         \A i \in 1 .. Len(inbound') : \E j \in 1 .. Len(inbound) : inbound'[i] = inbound[j],
         \A n \in headed' : n \in headed \/ \E j \in 1 .. Len(inbound) :
           /\ inbound[j].kind = "ack" /\ inbound[j].number = n
           /\ pending_[inbound[j].id].req_id = inbound[j].id => pending_'[inbound[j].id].resolved
  PROVE  AckInv'
<1> USE DEF AckInv
<1>1. TypeOK'
  BY DEF TypeOK
<1>2. \A c \in Clients : (Stored(c)' <=> Stored(c)) /\ req_id[c] \in Ids
  BY DEF Stored, TypeOK
<1>3. SlotsHaveOwners'
  BY <1>2 DEF SlotsHaveOwners
<1>4. Numbered'
  <2>1. \A n \in headed' : n \in Nat /\ n <= issued
    BY FrameNumbers DEF Numbered
  <2>2. QED
    BY <2>1 DEF Numbered
<1>5. SameId'
  BY DEF SameId
<1>6. Unsent'
  BY DEF Unsent
<1>7. SlotIsMine'
  <2>1. ASSUME NEW c \in Clients, Stored(c), number[c] \notin disturbed, number[c] \in headed'
        PROVE  pending_'[req_id[c]].resolved
    <3>1. pending_[req_id[c]].req_id = req_id[c]
      BY <2>1 DEF SlotIsMine
    <3>2. CASE number[c] \in headed
      BY <1>2, <2>1, <3>2 DEF SlotIsMine
    <3>3. CASE number[c] \notin headed
      <4>1. PICK j \in 1 .. Len(inbound) :
              /\ inbound[j].kind = "ack" /\ inbound[j].number = number[c]
              /\ pending_[inbound[j].id].req_id = inbound[j].id => pending_'[inbound[j].id].resolved
        BY <2>1, <3>3
      <4>2. inbound[j].id = req_id[c]
        BY <4>1 DEF SameId
      <4>3. QED
        BY <3>1, <4>1, <4>2
    <3>4. QED
      BY <3>2, <3>3
  <2>2. QED
    BY <1>2, <2>1 DEF SlotIsMine
<1>8. QED
  BY <1>1, <1>3, <1>4, <1>5, <1>6, <1>7

(* A chunk that ends inside a frame leaves that frame to come.             *)
LEMMA CutLeavesFrame ==
  ASSUME TypeOK, NEW k \in 1 .. Len(inbound), CutAfter(k),
         inbound' = SubSeq(inbound, k + 1, Len(inbound))
  PROVE  splitting' \in BOOLEAN /\ (splitting' => inbound' # <<>>)
<1>1. inbound \in Seq(Frame) /\ Len(inbound) \in Nat
  BY LenProperties DEF TypeOK
<1>2. Len(inbound') = Len(inbound) - k
  BY <1>1, SubSeqProperties, ElementOfSeq
<1>3. splitting' \in BOOLEAN /\ (splitting' => k < Len(inbound))
  BY DEF CutAfter
<1>4. ASSUME inbound' = <<>> PROVE ~(k < Len(inbound))
  <2>1. Len(inbound') = 0
    BY <1>4, EmptySeq
  <2>2. QED
    BY <1>1, <1>2, <2>1
<1>5. QED
  BY <1>3, <1>4

LEMMA ReceivePreserves ==
  ASSUME AckInv, NEW k \in 1 .. ChunkFrames, Receive(k) PROVE AckInv'
<1>1. TypeOK /\ inbound \in Seq(Frame) /\ Len(inbound) \in Nat
  BY LenProperties DEF AckInv, TypeOK
<1>2. /\ k <= Len(inbound) /\ headed' = headed \cup AcksIn({inbound[1]})
      /\ inbound' = SubSeq(inbound, k + 1, Len(inbound)) /\ CutAfter(k)
      /\ UNCHANGED <<next_id_, pc, req_id, number, issued, requests, disturbed>>
  BY DEF Receive, clientVars, deviceVars, hazards
<1>3. k \in 1 .. Len(inbound) /\ 1 \in 1 .. Len(inbound)
  BY <1>1, <1>2, AckAssumption
<1>4. /\ inbound' \in Seq(Frame)
      /\ \A i \in 1 .. Len(inbound') : \E j \in 1 .. Len(inbound) : inbound'[i] = inbound[j]
  BY <1>1, <1>2, <1>3, Shrunk
<1>5. CASE inbound[1].kind = "ack"
  <2>1. inbound[1].id \in Ids /\ inbound[1].status \in Status
    BY <1>1, <1>3, <1>5, FrameNumbers
  <2>2. Resolve(inbound[1].id, inbound[1].status)
    BY <1>5 DEF Receive
  <2>3. /\ pending_' \in [Ids -> Slot]
        /\ \A i \in Ids : /\ pending_'[i].req_id = pending_[i].req_id
                          /\ pending_[i].resolved => pending_'[i].resolved
        /\ pending_[inbound[1].id].req_id = inbound[1].id => pending_'[inbound[1].id].resolved
    BY <1>1, <2>1, <2>2, ResolveSlots
  <2>4. \A n \in headed' : n \in headed \/ n = inbound[1].number
    BY <1>2 DEF AcksIn
  <2>5. splitting' \in BOOLEAN /\ (splitting' => inbound' # <<>>)
    BY <1>1, <1>2, <1>3, CutLeavesFrame
  <2>6. \A n \in headed' : n \in headed \/ \E j \in 1 .. Len(inbound) :
          /\ inbound[j].kind = "ack" /\ inbound[j].number = n
          /\ pending_[inbound[j].id].req_id = inbound[j].id => pending_'[inbound[j].id].resolved
    BY <1>3, <1>5, <2>3, <2>4
  <2>7. QED
    BY <1>2, <1>4, <2>3, <2>5, <2>6, ChunkPreserves
<1>6. CASE inbound[1].kind # "ack"
  <2>1. pending_' = pending_
    BY <1>6 DEF Receive
  <2>2. headed' = headed
    BY <1>2, <1>6 DEF AcksIn
  <2>3. splitting' \in BOOLEAN /\ (splitting' => inbound' # <<>>) /\ pending_' \in [Ids -> Slot]
    BY <1>1, <1>2, <1>3, <2>1, CutLeavesFrame DEF TypeOK
  <2>4. QED
    BY <1>2, <1>4, <2>1, <2>2, <2>3, ChunkPreserves
<1>7. QED
  BY <1>5, <1>6

(* A first part resolves its ack or leaves the slots alone.                *)
LEMMA FirstHalfPreserves == AckInv /\ ReceiveFirstHalf => AckInv'
<1> SUFFICES ASSUME AckInv, ReceiveFirstHalf PROVE AckInv'
  OBVIOUS
<1>1. TypeOK /\ inbound \in Seq(Frame) /\ Len(inbound) \in Nat
  BY LenProperties DEF AckInv, TypeOK
<1>2. /\ inbound # <<>> /\ splitting' = TRUE /\ inbound' = inbound
      /\ UNCHANGED <<next_id_, pc, req_id, number, issued, requests, disturbed>>
  BY DEF ReceiveFirstHalf, clientVars, deviceVars, hazards
<1>3. 1 \in 1 .. Len(inbound)
  BY <1>1, <1>2, EmptySeq
<1>4. CASE UNCHANGED <<pending_, headed>>
  BY <1>1, <1>2, <1>4, ChunkPreserves DEF TypeOK
<1>5. CASE /\ inbound[1].kind = "ack"
           /\ Resolve(inbound[1].id, inbound[1].status)
           /\ headed' = headed \cup {inbound[1].number}
  <2>1. inbound[1].id \in Ids /\ inbound[1].status \in Status
    BY <1>1, <1>3, <1>5, FrameNumbers
  <2>2. /\ pending_' \in [Ids -> Slot]
        /\ \A i \in Ids : /\ pending_'[i].req_id = pending_[i].req_id
                          /\ pending_[i].resolved => pending_'[i].resolved
        /\ pending_[inbound[1].id].req_id = inbound[1].id => pending_'[inbound[1].id].resolved
    BY <1>1, <1>5, <2>1, ResolveSlots
  <2>3. \A n \in headed' : n \in headed \/ \E j \in 1 .. Len(inbound) :
          /\ inbound[j].kind = "ack" /\ inbound[j].number = n
          /\ pending_[inbound[j].id].req_id = inbound[j].id => pending_'[inbound[j].id].resolved
    BY <1>3, <1>5, <2>2
  <2>4. QED
    BY <1>1, <1>2, <2>2, <2>3, ChunkPreserves
<1>6. QED
  BY <1>4, <1>5 DEF ReceiveFirstHalf

LEMMA SecondHalfPreserves ==
  ASSUME AckInv, NEW k \in 1 .. ChunkFrames, ReceiveSecondHalf(k) PROVE AckInv'
<1>1. TypeOK /\ inbound \in Seq(Frame) /\ Len(inbound) \in Nat
  BY LenProperties DEF AckInv, TypeOK
<1>2. /\ k <= Len(inbound) /\ inbound' = SubSeq(inbound, k + 1, Len(inbound)) /\ CutAfter(k)
      /\ UNCHANGED <<next_id_, pc, req_id, number, issued, requests, headed, disturbed>>
      /\ (\E id \in Ids, s \in Status : Resolve(id, s)) \/ UNCHANGED pending_
  BY DEF ReceiveSecondHalf, clientVars, deviceVars
<1>3. k \in 1 .. Len(inbound)
  BY <1>1, <1>2, AckAssumption
<1>4. /\ inbound' \in Seq(Frame)
      /\ \A i \in 1 .. Len(inbound') : \E j \in 1 .. Len(inbound) : inbound'[i] = inbound[j]
  BY <1>1, <1>2, <1>3, Shrunk
<1>5. splitting' \in BOOLEAN /\ (splitting' => inbound' # <<>>)
  BY <1>1, <1>2, <1>3, CutLeavesFrame
<1>6. /\ pending_' \in [Ids -> Slot]
      /\ \A i \in Ids : /\ pending_'[i].req_id = pending_[i].req_id
                        /\ pending_[i].resolved => pending_'[i].resolved
  <2>1. CASE UNCHANGED pending_
    BY <1>1, <2>1 DEF TypeOK
  <2>2. CASE \E id \in Ids, s \in Status : Resolve(id, s)
    BY <1>1, <2>2, ResolveSlots
  <2>3. QED
    BY <1>2, <2>1, <2>2
<1>7. QED
  BY <1>2, <1>4, <1>5, <1>6, ChunkPreserves

-----------------------------------------------------------------------------
(* The inductive invariant: every taken slot but that of s_fetchDeviceInfo *)
(* has its owner, and every ack on its way finds the client that waits for *)
(* it.                                                                     *)
THEOREM AckInvariant == Spec => []AckInv
<1>1. AckInv /\ [Next]_vars => AckInv'
  <2> SUFFICES ASSUME AckInv, [Next]_vars PROVE AckInv'
    OBVIOUS
  <2>1. ASSUME NEW c \in Clients, Client(c) PROVE AckInv'
    BY <2>1, AllocateReadPreserves, AllocateStorePreserves, SendPreserves, SeePreserves,
       ReturnPreserves DEF Client
  <2>2. CASE Device
    BY <2>2, DeviceAnswersPreserves, DeviceReportsPreserves DEF Device
  <2>3. CASE Io
    BY <2>3, ReceivePreserves, FirstHalfPreserves, SecondHalfPreserves DEF Io
  <2>4. CASE UNCHANGED vars
    BY <2>4 DEF AckInv, TypeOK, SlotsHaveOwners, Numbered, SameId, Unsent, SlotIsMine, Stored,
                vars, managerVars, clientVars, deviceVars, hazards
  <2>5. QED
    BY <2>1, <2>2, <2>3, <2>4, FetchPreserves DEF Next
<1>2. QED
  BY <1>1, InitEstablishes, PTL DEF Spec

(* An ack that starts its chunk, and whose id and status the chunk holds,  *)
(* is seen by the client waiting for it, if no other request has taken its *)
(* slot meanwhile; a chunk may end in the middle of any frame.             *)
THEOREM HeadAcksAreSeen == Spec => []HeadAckIsSeen
<1>1. AckInv => HeadAckIsSeen
  BY DEF AckInv, SlotIsMine, HeadAckIsSeen, Stored
<1>2. QED
  BY <1>1, AckInvariant, PTL

-----------------------------------------------------------------------------
(* What the device answered: each request once, and what is on its way to  *)
(* the host is what it answered.                                           *)
Verdicts ==
  /\ issued <= MaxRequests
  /\ verdict \in [1 .. MaxRequests -> {<<>>} \cup (Ids \X Status)]
  /\ \A n \in 1 .. MaxRequests : n > issued => verdict[n] = <<>>
  /\ \A c \in Clients : pc[c] \in {"allocate", "send"} => verdict[number[c]] = <<>>
  /\ \A r \in requests : verdict[r.number] = <<>>
  /\ \A q, r \in requests : q.number = r.number => q = r
  /\ \A i \in 1 .. Len(inbound) :
       inbound[i].kind = "ack" => verdict[inbound[i].number] = <<inbound[i].id, inbound[i].status>>

(* Answers, once given, stay.                                              *)
VerdictsStay == \A n \in 1 .. MaxRequests : verdict[n] # <<>> => verdict'[n] = verdict[n]

LEMMA RequestNumbers ==
  ASSUME AckInv, Verdicts
  PROVE  /\ \A r \in requests : r.number \in 1 .. issued /\ r.number \in 1 .. MaxRequests /\ r.id \in Ids
         /\ \A c \in Clients : pc[c] # "idle" => number[c] \in 1 .. issued /\ number[c] \in 1 .. MaxRequests
         /\ \A i \in 1 .. Len(inbound) : inbound[i].kind = "ack" =>
              inbound[i].number \in 1 .. issued /\ inbound[i].number \in 1 .. MaxRequests
<1>1. issued \in Nat /\ MaxRequests \in Nat /\ issued <= MaxRequests
  BY AckAssumption DEF AckInv, TypeOK, Verdicts
<1>2. \A n \in Nat \ {0} : n <= issued => n \in 1 .. issued /\ n \in 1 .. MaxRequests
  BY <1>1
<1>3. \A r \in requests : r.number \in Nat \ {0} /\ r.number <= issued /\ r.id \in Ids
  BY DEF AckInv, TypeOK, Numbered, Calls
<1>4. \A c \in Clients : pc[c] # "idle" => number[c] \in Nat \ {0} /\ number[c] <= issued
  BY DEF AckInv, TypeOK, Numbered
<1>5. \A i \in 1 .. Len(inbound) : inbound[i].kind = "ack" =>
        inbound[i].number \in Nat \ {0} /\ inbound[i].number <= issued
  BY FrameNumbers DEF AckInv, Numbered
<1>6. QED
  BY <1>2, <1>3, <1>4, <1>5

LEMMA PairsAreSomething == \A i, s : <<i, s>> # <<>>
OBVIOUS

LEMMA InitialVerdicts == Init => Verdicts
<1> SUFFICES ASSUME Init PROVE Verdicts
  OBVIOUS
<1>1. 1 .. Len(inbound) = {} /\ 0 <= MaxRequests
  BY EmptySeq, AckAssumption DEF Init
<1>2. QED
  BY <1>1 DEF Init, Verdicts

LEMMA FetchVerdicts == AckInv /\ Verdicts /\ FetchDeviceInfo => Verdicts' /\ VerdictsStay
<1> SUFFICES ASSUME AckInv, Verdicts, FetchDeviceInfo PROVE Verdicts' /\ VerdictsStay
  OBVIOUS
<1>1. /\ issued = 0 /\ issued' = 1 /\ issued < MaxRequests /\ MaxRequests \in Nat
      /\ UNCHANGED <<verdict, requests, inbound, pc, number>>
  BY AckAssumption DEF FetchDeviceInfo, clientVars, deviceVars
<1>2. issued' <= MaxRequests /\ \A n \in 1 .. MaxRequests : n > issued' => n > issued
  BY <1>1
<1>3. QED
  BY <1>1, <1>2 DEF Verdicts, VerdictsStay

LEMMA ClientVerdicts ==
  ASSUME AckInv, Verdicts, NEW c \in Clients, Client(c)
  PROVE  Verdicts' /\ VerdictsStay
<1>1. UNCHANGED <<verdict, inbound>>
  BY DEF Client, AllocateRead, AllocateStore, Send, SeeResolved, TimeUp, Return, deviceVars
<1>2. VerdictsStay
  BY <1>1 DEF VerdictsStay
<1>3. CASE AllocateRead(c)
  <2>1. /\ issued' = issued + 1 /\ issued < MaxRequests /\ UNCHANGED requests
        /\ \A d \in Clients : d # c => pc'[d] = pc[d] /\ number'[d] = number[d]
        /\ number'[c] = issued + 1
    BY <1>3 DEF AllocateRead, Goto, deviceVars, AckInv, TypeOK
  <2>2. issued \in Nat /\ MaxRequests \in Nat
    BY AckAssumption DEF AckInv, TypeOK
  <2>3. issued' <= MaxRequests /\ issued + 1 \in 1 .. MaxRequests
        /\ \A n \in 1 .. MaxRequests : n > issued + 1 => n > issued
    BY <2>1, <2>2
  <2>4. verdict[issued + 1] = <<>>
    BY <2>2, <2>3 DEF Verdicts
  <2>5. \A d \in Clients : pc'[d] \in {"allocate", "send"} => verdict[number'[d]] = <<>>
    BY <2>1, <2>4 DEF Verdicts
  <2>6. QED
    BY <1>1, <1>2, <2>1, <2>3, <2>5 DEF Verdicts
<1>4. CASE Send(c)
  <2>1. /\ requests' = requests \cup {[id |-> req_id[c], number |-> number[c]]}
        /\ pc[c] = "send" /\ UNCHANGED <<issued, number>>
        /\ \A d \in Clients : pc'[d] \in {"allocate", "send"} => pc[d] \in {"allocate", "send"}
    BY <1>4 DEF Send, Goto, AckInv, TypeOK
  <2>2. verdict[number[c]] = <<>> /\ \A r \in requests : r.number # number[c]
    BY <2>1 DEF Verdicts, AckInv, Unsent
  <2>3. \A r \in requests' : r \in requests \/ r = [id |-> req_id[c], number |-> number[c]]
    BY <2>1
  <2>4. \A r \in requests' : verdict[r.number] = <<>>
    BY <2>2, <2>3 DEF Verdicts
  <2>5. \A q, r \in requests' : q.number = r.number => q = r
    BY <2>2, <2>3 DEF Verdicts
  <2>6. QED
    BY <1>1, <1>2, <2>1, <2>4, <2>5 DEF Verdicts
<1>5. CASE AllocateStore(c) \/ SeeResolved(c) \/ TimeUp(c) \/ Return(c)
  <2>1. /\ UNCHANGED <<issued, number, requests>>
        /\ \A d \in Clients : pc'[d] \in {"allocate", "send"} => pc[d] \in {"allocate", "send"}
    BY <1>5 DEF AllocateStore, SeeResolved, TimeUp, Return, Goto, deviceVars, AckInv, TypeOK
  <2>2. QED
    BY <1>1, <1>2, <2>1 DEF Verdicts
<1>6. QED
  BY <1>3, <1>4, <1>5 DEF Client

LEMMA DeviceVerdicts ==
  ASSUME AckInv, Verdicts, Device
  PROVE  Verdicts' /\ VerdictsStay
<1>0. UNCHANGED <<issued, pc, number>> /\ inbound \in Seq(Frame)
  BY DEF Device, DeviceAnswers, DeviceReports, clientVars, AckInv, TypeOK
<1>1. CASE DeviceAnswers
  <2>1. PICK r \in requests, s \in Status :
          /\ requests' = requests \ {r} /\ inbound' = Append(inbound, Ack(r, s))
          /\ verdict' = [verdict EXCEPT ![r.number] = <<r.id, s>>]
    BY <1>1 DEF DeviceAnswers
  <2> DEFINE f == Ack(r, s)
  <2>2. /\ f \in Frame /\ f.kind = "ack" /\ f.number = r.number /\ f.id = r.id /\ f.status = s
    BY DEF Frame, Acks, Ack, AckInv, TypeOK, Calls
  <2>3. \A i \in 1 .. Len(inbound') : inbound'[i] = f \/ \E j \in 1 .. Len(inbound) : inbound'[i] = inbound[j]
    BY <1>0, <2>1, <2>2, Grown
  <2> HIDE DEF f
  <2>4. r.number \in 1 .. MaxRequests /\ r.number \in 1 .. issued /\ r.id \in Ids /\ verdict[r.number] = <<>>
    BY RequestNumbers DEF Verdicts
  <2>5. /\ verdict' \in [1 .. MaxRequests -> {<<>>} \cup (Ids \X Status)]
        /\ verdict'[r.number] = <<r.id, s>>
        /\ \A n \in 1 .. MaxRequests : n # r.number => verdict'[n] = verdict[n]
    BY <2>1, <2>4 DEF Verdicts
  <2>6. VerdictsStay
    BY <2>4, <2>5 DEF VerdictsStay
  <2>7. \A n \in 1 .. MaxRequests : n > issued' => verdict'[n] = <<>>
    <3>1. issued \in Nat /\ ~(r.number > issued)
      BY <2>4 DEF AckInv, TypeOK
    <3>2. QED
      BY <1>0, <2>5, <3>1 DEF Verdicts
  <2>8. \A c \in Clients : pc'[c] \in {"allocate", "send"} => verdict'[number'[c]] = <<>>
    <3> SUFFICES ASSUME NEW c \in Clients, pc[c] \in {"allocate", "send"}
                 PROVE  verdict'[number[c]] = <<>>
      BY <1>0
    <3>1. number[c] \in 1 .. MaxRequests /\ number[c] # r.number
      BY RequestNumbers DEF AckInv, Unsent
    <3>2. QED
      BY <2>5, <3>1 DEF Verdicts
  <2>9. \A q \in requests' : verdict'[q.number] = <<>>
    <3> SUFFICES ASSUME NEW q \in requests, q # r PROVE verdict'[q.number] = <<>>
      BY <2>1
    <3>1. q.number \in 1 .. MaxRequests /\ q.number # r.number
      BY RequestNumbers DEF Verdicts
    <3>2. QED
      BY <2>5, <3>1 DEF Verdicts
  <2>10. \A p, q \in requests' : p.number = q.number => p = q
    BY <2>1 DEF Verdicts
  <2>11. \A i \in 1 .. Len(inbound') : inbound'[i].kind = "ack" =>
           verdict'[inbound'[i].number] = <<inbound'[i].id, inbound'[i].status>>
    <3>1. verdict'[f.number] = <<f.id, f.status>>
      BY <2>2, <2>5
    <3>2. \A j \in 1 .. Len(inbound) : inbound[j].kind = "ack" =>
            verdict'[inbound[j].number] = <<inbound[j].id, inbound[j].status>>
      <4> SUFFICES ASSUME NEW j \in 1 .. Len(inbound), inbound[j].kind = "ack"
                   PROVE  verdict'[inbound[j].number] = <<inbound[j].id, inbound[j].status>>
        OBVIOUS
      <4>1. verdict[inbound[j].number] = <<inbound[j].id, inbound[j].status>>
        BY DEF Verdicts
      <4>2. verdict[inbound[j].number] # <<>>
        BY <4>1, PairsAreSomething
      <4>3. inbound[j].number \in 1 .. MaxRequests
        BY RequestNumbers
      <4>4. QED
        BY <2>6, <4>1, <4>2, <4>3 DEF VerdictsStay
    <3>3. QED
      BY <2>3, <3>1, <3>2
  <2>12. issued' <= MaxRequests
    BY <1>0 DEF Verdicts
  <2>13. QED
    BY <2>5, <2>6, <2>7, <2>8, <2>9, <2>10, <2>11, <2>12 DEF Verdicts
<1>2. CASE DeviceReports
  <2>1. inbound' = Append(inbound, Telemetry) /\ UNCHANGED <<requests, verdict>>
    BY <1>2 DEF DeviceReports
  <2>2. Telemetry \in Frame /\ Telemetry.kind # "ack"
    BY DEF Frame, Telemetry
  <2>3. \A i \in 1 .. Len(inbound') : inbound'[i] = Telemetry \/ \E j \in 1 .. Len(inbound) : inbound'[i] = inbound[j]
    BY <1>0, <2>1, <2>2, Grown
  <2>4. \A i \in 1 .. Len(inbound') :
          inbound'[i].kind = "ack" => verdict'[inbound'[i].number] = <<inbound'[i].id, inbound'[i].status>>
    BY <2>1, <2>2, <2>3 DEF Verdicts
  <2>5. UNCHANGED <<issued, verdict, requests, pc, number>>
    BY <1>0, <1>2, <2>1 DEF DeviceReports
  <2>6. Verdicts'
    BY <2>4, <2>5 DEF Verdicts
  <2>7. QED
    BY <2>1, <2>6 DEF VerdictsStay
<1>3. QED
  BY <1>1, <1>2 DEF Device

(* Reading takes frames off the front of what is on its way.                *)
LEMMA FramesLeave ==
  ASSUME AckInv, Io
  PROVE  \A i \in 1 .. Len(inbound') : \E j \in 1 .. Len(inbound) : inbound'[i] = inbound[j]
<1>0. inbound \in Seq(Frame) /\ Len(inbound) \in Nat /\ (splitting => inbound # <<>>)
  BY LenProperties DEF AckInv, TypeOK
<1>1. CASE \E k \in 1 .. ChunkFrames : Receive(k)
  <2>1. PICK k \in 1 .. ChunkFrames : k <= Len(inbound) /\ inbound' = SubSeq(inbound, k + 1, Len(inbound))
    BY <1>1 DEF Receive
  <2>2. k \in 1 .. Len(inbound)
    BY <1>0, <2>1
  <2>3. QED
    BY <1>0, <2>1, <2>2, Shrunk
<1>2. CASE ReceiveFirstHalf
  BY <1>2 DEF ReceiveFirstHalf
<1>3. CASE \E k \in 1 .. ChunkFrames : ReceiveSecondHalf(k)
  <2>1. PICK k \in 1 .. ChunkFrames : k <= Len(inbound) /\ inbound' = SubSeq(inbound, k + 1, Len(inbound))
    BY <1>3 DEF ReceiveSecondHalf
  <2>2. k \in 1 .. Len(inbound)
    BY <1>0, <2>1
  <2>3. QED
    BY <1>0, <2>1, <2>2, Shrunk
<1>4. QED
  BY <1>1, <1>2, <1>3 DEF Io

LEMMA IoVerdicts ==
  ASSUME AckInv, Verdicts, Io
  PROVE  Verdicts' /\ VerdictsStay
<1>1. UNCHANGED <<issued, pc, number, requests, verdict>>
  BY DEF Io, Receive, ReceiveFirstHalf, ReceiveSecondHalf, clientVars, deviceVars
<1>2. \A i \in 1 .. Len(inbound') : \E j \in 1 .. Len(inbound) : inbound'[i] = inbound[j]
  BY FramesLeave
<1>3. QED
  BY <1>1, <1>2 DEF Verdicts, VerdictsStay

LEMMA VerdictSteps == AckInv /\ Verdicts /\ [Next]_vars => Verdicts' /\ VerdictsStay
<1>1. UNCHANGED vars /\ Verdicts => Verdicts' /\ VerdictsStay
  BY DEF vars, clientVars, deviceVars, Verdicts, VerdictsStay
<1>2. QED
  BY <1>1, FetchVerdicts, ClientVerdicts, DeviceVerdicts, IoVerdicts DEF Next

LEMMA VerdictsHold == Spec => []Verdicts
  BY InitialVerdicts, VerdictSteps, AckInvariant, PTL DEF Spec

-----------------------------------------------------------------------------
(* The arithmetic of the ids, which go round.                              *)
LEMMA LargerProduct ==
  ASSUME NEW k \in Nat, NEW q \in Int, NEW p \in Int, q + 1 <= p
  PROVE  k * q + k <= k * p
<1>1. PICK d \in Nat : p = q + 1 + d
  BY p - q - 1 \in Nat
<1>2. k * p = k * q + k + k * d /\ k * d >= 0
  BY <1>1
<1>3. k * q \in Int /\ k * d \in Int /\ k * p \in Int
  OBVIOUS
<1>4. QED
  BY <1>2, <1>3

LEMMA SameRest ==
  ASSUME NEW k \in Nat, NEW q \in Int, NEW p \in Int, NEW r \in 0 .. k - 1, NEW s \in 0 .. k - 1,
         k * q + r = k * p + s
  PROVE  r = s
<1> DEFINE kq == k * q
           kp == k * p
<1>1. kq \in Int /\ kp \in Int /\ kq + r = kp + s
  OBVIOUS
<1>2. (q + 1 <= p => kq + k <= kp) /\ (p + 1 <= q => kp + k <= kq) /\ (q = p => kq = kp)
  BY LargerProduct
<1> HIDE DEF kq, kp
<1>3. q + 1 <= p \/ p + 1 <= q \/ q = p
  OBVIOUS
<1>4. QED
  BY <1>1, <1>2, <1>3

LEMMA Division ==
  ASSUME NEW k \in Nat, 1 <= k, NEW n \in Nat
  PROVE  n = k * (n \div k) + (n % k) /\ n % k \in 0 .. k - 1 /\ n \div k \in Int
OBVIOUS

LEMMA Rest ==
  ASSUME NEW k \in Nat, 1 <= k, NEW n \in Nat, NEW q \in Int, NEW r \in 0 .. k - 1, n = k * q + r
  PROVE  n % k = r
<1>1. n = k * (n \div k) + (n % k) /\ n % k \in 0 .. k - 1 /\ n \div k \in Int
  BY Division
<1>2. QED
  BY <1>1, SameRest

LEMMA NextOfRound == \A n \in Nat : NextId(n % IdCount) = (n + 1) % IdCount
<1> SUFFICES ASSUME NEW n \in Nat PROVE ((n % IdCount) + 1) % IdCount = (n + 1) % IdCount
  BY DEF NextId
<1> DEFINE k == IdCount
           q == n \div k
           r == n % k
<1>1. k \in Nat /\ 2 <= k
  BY AckAssumption
<1> HIDE DEF k
<1>2. n = k * q + r /\ r \in 0 .. k - 1 /\ q \in Int
  BY <1>1, Division
<1> HIDE DEF q, r
<1>3. CASE r + 1 < k
  <2>1. n + 1 = k * q + (r + 1) /\ r + 1 \in 0 .. k - 1 /\ n + 1 \in Nat
    BY <1>1, <1>2, <1>3
  <2>2. r + 1 = k * 0 + (r + 1) /\ r + 1 \in Nat
    BY <1>1, <2>1
  <2>3. (n + 1) % k = r + 1 /\ (r + 1) % k = r + 1
    BY <1>1, <1>2, <2>1, <2>2, Rest
  <2>4. QED
    BY <2>3 DEF r, k
<1>4. CASE r + 1 = k
  <2>1. n + 1 = k * (q + 1) + 0 /\ n + 1 \in Nat
    <3>1. k * (q + 1) = k * q + k /\ k * q \in Int
      BY <1>1, <1>2
    <3>2. QED
      BY <1>1, <1>2, <1>4, <3>1
  <2>2. r + 1 = k * 1 + 0 /\ r + 1 \in Nat /\ 0 \in 0 .. k - 1
    BY <1>1, <1>4
  <2>3. (n + 1) % k = 0 /\ (r + 1) % k = 0
    BY <1>1, <1>2, <2>1, <2>2, Rest
  <2>4. QED
    BY <2>3 DEF r, k
<1>5. QED
  BY <1>1, <1>2, <1>3, <1>4

-----------------------------------------------------------------------------
(* While no two clients were in allocate at once, ids follow the numbers   *)
(* of the requests: the id of each is its number's place in the round.     *)
Round ==
  /\ \A c, d \in Clients : pc[c] = "allocate" /\ pc[d] = "allocate" => c = d
  /\ \A c \in Clients : pc[c] = "allocate" => number[c] = issued
  /\ (\A c \in Clients : pc[c] # "allocate") => next_id_ = (issued + 1) % IdCount
  /\ \A c \in Clients : number[c] # 0 => req_id[c] = number[c] % IdCount
  /\ \A r \in requests : r.id = r.number % IdCount
  /\ \A i \in 1 .. Len(inbound) : inbound[i].kind = "ack" => inbound[i].id = inbound[i].number % IdCount

RoundInv == ~raced => Round

LEMMA InitialRound == Init => RoundInv
<1> SUFFICES ASSUME Init PROVE Round
  BY DEF RoundInv
<1>1. 1 .. Len(inbound) = {} /\ issued + 1 = 1
  BY EmptySeq DEF Init
<1>2. QED
  BY <1>1 DEF Init, Round

LEMMA FetchRound == AckInv /\ RoundInv /\ FetchDeviceInfo => RoundInv'
<1> SUFFICES ASSUME AckInv, RoundInv, FetchDeviceInfo, ~raced' PROVE Round'
  BY DEF RoundInv
<1>1. /\ issued = 0 /\ issued' = 1 /\ next_id_' = NextId(1 % IdCount) /\ ~raced
      /\ UNCHANGED <<requests, inbound, pc, number, req_id>>
  BY DEF FetchDeviceInfo, clientVars, deviceVars, hazards, AckInv, Numbered, InfoId, NextId
<1>2. next_id_' = (issued' + 1) % IdCount
  BY <1>1, NextOfRound
<1>3. \A c \in Clients : pc[c] = "idle"
  BY <1>1 DEF AckInv, Numbered, TypeOK
<1>4. QED
  BY <1>1, <1>2, <1>3 DEF RoundInv, Round

LEMMA ClientRound ==
  ASSUME AckInv, RoundInv, NEW c \in Clients, Client(c) PROVE RoundInv'
<1> SUFFICES ASSUME ~raced' PROVE Round'
  BY DEF RoundInv
<1>0. ~raced
  BY DEF Client, AllocateRead, AllocateStore, Send, SeeResolved, TimeUp, Return, hazards
<1>1. Round /\ UNCHANGED inbound /\ issued \in Nat
  BY <1>0 DEF RoundInv, Client, AllocateRead, AllocateStore, Send, SeeResolved, TimeUp, Return,
              AckInv, TypeOK
<1>2. CASE AllocateRead(c)
  <2>1. \A d \in Clients : pc[d] # "allocate"
    BY <1>2 DEF AllocateRead
  <2>2. next_id_ = (issued + 1) % IdCount
    BY <1>1, <2>1 DEF Round
  <2>3. /\ \A d \in Clients : d # c => /\ pc'[d] = pc[d] /\ number'[d] = number[d]
                                      /\ req_id'[d] = req_id[d]
        /\ pc'[c] = "allocate" /\ number'[c] = issued + 1 /\ req_id'[c] = next_id_
        /\ issued' = issued + 1 /\ UNCHANGED requests
    BY <1>2 DEF AllocateRead, Goto, deviceVars, AckInv, TypeOK
  <2>4. \A d \in Clients : number'[d] # 0 => req_id'[d] = number'[d] % IdCount
    BY <1>1, <2>2, <2>3 DEF Round
  <2>5. QED
    BY <1>1, <2>1, <2>3, <2>4 DEF Round
<1>3. CASE AllocateStore(c)
  <2>1. /\ pc[c] = "allocate" /\ next_id_' = NextId(req_id[c])
        /\ UNCHANGED <<number, req_id, requests, issued>>
        /\ \A d \in Clients : pc'[d] = IF d = c THEN "send" ELSE pc[d]
    BY <1>3 DEF AllocateStore, Goto, deviceVars, AckInv, TypeOK
  <2>2. number[c] = issued /\ number[c] # 0
    BY <1>1, <2>1 DEF Round, AckInv, Numbered, TypeOK
  <2>3. next_id_' = (issued + 1) % IdCount
    BY <1>1, <2>1, <2>2, NextOfRound DEF Round
  <2>4. QED
    BY <1>1, <2>1, <2>3 DEF Round
<1>4. CASE Send(c)
  <2>1. /\ pc[c] = "send" /\ requests' = requests \cup {[id |-> req_id[c], number |-> number[c]]}
        /\ UNCHANGED <<next_id_, number, req_id, issued>>
        /\ \A d \in Clients : pc'[d] = "allocate" <=> pc[d] = "allocate"
    BY <1>4 DEF Send, Goto, managerVars, AckInv, TypeOK
  <2>2. number[c] # 0
    BY <2>1 DEF AckInv, Numbered, TypeOK
  <2>3. \A r \in requests' : r.id = r.number % IdCount
    BY <1>1, <2>1, <2>2 DEF Round
  <2>4. QED
    BY <1>1, <2>1, <2>3 DEF Round
<1>5. CASE SeeResolved(c) \/ TimeUp(c) \/ Return(c)
  <2>1. /\ UNCHANGED <<next_id_, number, req_id, issued, requests>>
        /\ \A d \in Clients : pc'[d] = "allocate" <=> pc[d] = "allocate"
    BY <1>5 DEF SeeResolved, TimeUp, Return, Goto, managerVars, deviceVars, AckInv, TypeOK
  <2>2. QED
    BY <1>1, <2>1 DEF Round
<1>6. QED
  BY <1>2, <1>3, <1>4, <1>5 DEF Client

LEMMA OthersRound ==
  ASSUME AckInv, RoundInv, Device \/ Io PROVE RoundInv'
<1> SUFFICES ASSUME ~raced' PROVE Round'
  BY DEF RoundInv
<1>0. UNCHANGED <<raced, pc, number, issued, next_id_, req_id>>
  BY DEF Device, DeviceAnswers, DeviceReports, Io, Receive, ReceiveFirstHalf, ReceiveSecondHalf,
         hazards, clientVars, managerVars
<1>1. Round /\ inbound \in Seq(Frame)
  BY <1>0 DEF RoundInv, AckInv, TypeOK
<1>2. CASE DeviceAnswers
  <2>1. PICK r \in requests, s \in Status :
          requests' = requests \ {r} /\ inbound' = Append(inbound, Ack(r, s))
    BY <1>2 DEF DeviceAnswers
  <2> DEFINE f == Ack(r, s)
  <2>2. f \in Frame /\ f.number = r.number /\ f.id = r.id
    BY DEF Frame, Acks, Ack, AckInv, TypeOK, Calls
  <2>3. \A i \in 1 .. Len(inbound') : inbound'[i] = f \/ \E j \in 1 .. Len(inbound) : inbound'[i] = inbound[j]
    BY <1>1, <2>1, <2>2, Grown
  <2> HIDE DEF f
  <2>4. \A i \in 1 .. Len(inbound') : inbound'[i].kind = "ack" => inbound'[i].id = inbound'[i].number % IdCount
    BY <1>1, <2>2, <2>3 DEF Round
  <2>5. QED
    BY <1>0, <1>1, <2>1, <2>4 DEF Round
<1>3. CASE DeviceReports
  <2>1. inbound' = Append(inbound, Telemetry) /\ UNCHANGED requests
    BY <1>3 DEF DeviceReports
  <2>2. Telemetry \in Frame /\ Telemetry.kind # "ack"
    BY DEF Frame, Telemetry
  <2>3. \A i \in 1 .. Len(inbound') : inbound'[i] = Telemetry \/ \E j \in 1 .. Len(inbound) : inbound'[i] = inbound[j]
    BY <1>1, <2>1, <2>2, Grown
  <2>4. QED
    BY <1>0, <1>1, <2>1, <2>2, <2>3 DEF Round
<1>4. CASE Io
  <2>1. UNCHANGED requests
    BY <1>4 DEF Io, Receive, ReceiveFirstHalf, ReceiveSecondHalf, deviceVars
  <2>2. \A i \in 1 .. Len(inbound') : \E j \in 1 .. Len(inbound) : inbound'[i] = inbound[j]
    BY <1>4, FramesLeave
  <2>3. QED
    BY <1>0, <1>1, <2>1, <2>2 DEF Round
<1>5. QED
  BY <1>2, <1>3, <1>4 DEF Device

LEMMA RoundHolds == Spec => []RoundInv
<1>1. UNCHANGED vars /\ RoundInv => RoundInv'
  BY DEF vars, managerVars, clientVars, deviceVars, hazards, RoundInv, Round
<1>2. AckInv /\ RoundInv /\ [Next]_vars => RoundInv'
  BY <1>1, FetchRound, ClientRound, OthersRound DEF Next
<1>3. QED
  BY <1>2, InitialRound, AckInvariant, PTL DEF Spec

-----------------------------------------------------------------------------
(* Once the ids have come round to the one of s_fetchDeviceInfo, its slot  *)
(* belongs to the request that took it over.                               *)
InfoReturned ==
  ~raced /\ issued > IdCount /\ pending_[InfoId].req_id # Free /\ ~pending_[InfoId].resolved =>
    \E c \in Clients : pc[c] # "idle" /\ req_id[c] = InfoId

LEMMA InfoIdAgain == (IdCount + 1) % IdCount = InfoId
<1>1. IdCount \in Nat /\ 2 <= IdCount
  BY AckAssumption
<1>2. IdCount + 1 = IdCount * 1 + 1 /\ 1 = IdCount * 0 + 1 /\ 1 \in 0 .. IdCount - 1
      /\ IdCount + 1 \in Nat
  BY <1>1
<1>3. (IdCount + 1) % IdCount = 1 /\ 1 % IdCount = 1
  BY <1>1, <1>2, Rest
<1>4. QED
  BY <1>3 DEF InfoId

LEMMA ClientInfo ==
  ASSUME AckInv, RoundInv, InfoReturned, NEW c \in Clients, Client(c)
  PROVE  InfoReturned'
<1> SUFFICES ASSUME ~raced', issued' > IdCount, pending_'[InfoId].req_id # Free, ~pending_'[InfoId].resolved
             PROVE  \E d \in Clients : pc'[d] # "idle" /\ req_id'[d] = InfoId
  BY DEF InfoReturned
<1>1. ~raced /\ IdCount \in Nat /\ issued \in Nat /\ InfoId \in Ids
  <2>1. ~raced
    BY DEF Client, AllocateRead, AllocateStore, Send, SeeResolved, TimeUp, Return, hazards
  <2>2. 1 % IdCount \in 0 .. IdCount - 1
    BY AckAssumption
  <2>3. QED
    BY <2>1, <2>2, AckAssumption DEF AckInv, TypeOK, InfoId, Ids
<1>2. CASE AllocateRead(c)
  <2>1. /\ pc[c] = "idle" /\ issued' = issued + 1 /\ UNCHANGED pending_
        /\ pc' = [pc EXCEPT ![c] = "allocate"] /\ req_id' = [req_id EXCEPT ![c] = next_id_]
        /\ \A d \in Clients : pc[d] # "allocate"
    BY <1>2 DEF AllocateRead, Goto, managerVars
  <2>2. CASE issued > IdCount
    <3>1. PICK d \in Clients : pc[d] # "idle" /\ req_id[d] = InfoId
      BY <1>1, <2>1, <2>2 DEF InfoReturned
    <3>2. d # c /\ pc'[d] = pc[d] /\ req_id'[d] = req_id[d]
      BY <2>1, <3>1 DEF AckInv, TypeOK
    <3>3. QED
      BY <3>1, <3>2
  <2>3. CASE issued = IdCount
    <3>1. next_id_ = InfoId
      BY <1>1, <2>1, <2>3, InfoIdAgain DEF RoundInv, Round
    <3>2. pc'[c] = "allocate" /\ req_id'[c] = InfoId
      BY <2>1, <3>1 DEF AckInv, TypeOK
    <3>3. QED
      BY <3>2
  <2>4. QED
    BY <1>1, <2>1, <2>2, <2>3
<1>3. CASE AllocateStore(c)
  <2>1. /\ pc' = [pc EXCEPT ![c] = "send"] /\ UNCHANGED <<req_id, issued>>
        /\ pending_' = Taken(req_id[c])
    BY <1>3 DEF AllocateStore, Goto
  <2>2. pc'[c] # "idle" /\ \A d \in Clients : pc[d] # "idle" => pc'[d] # "idle"
    BY <2>1 DEF AckInv, TypeOK
  <2>3. CASE req_id[c] = InfoId
    BY <2>1, <2>2, <2>3
  <2>4. CASE req_id[c] # InfoId
    <3>1. pending_'[InfoId] = pending_[InfoId]
      BY <1>1, <2>1, <2>4 DEF Taken, AckInv, TypeOK
    <3>2. QED
      BY <1>1, <2>1, <2>2, <3>1 DEF InfoReturned
  <2>5. QED
    BY <2>3, <2>4
<1>4. CASE Send(c) \/ SeeResolved(c) \/ TimeUp(c)
  <2>1. /\ UNCHANGED <<req_id, issued, pending_>>
        /\ \A d \in Clients : pc[d] # "idle" => pc'[d] # "idle"
    BY <1>4 DEF Send, SeeResolved, TimeUp, Goto, managerVars, AckInv, TypeOK
  <2>2. QED
    BY <1>1, <2>1 DEF InfoReturned
<1>5. CASE Return(c)
  <2>1. /\ pc' = [pc EXCEPT ![c] = "idle"] /\ UNCHANGED <<req_id, issued>>
        /\ pending_' = [pending_ EXCEPT ![req_id[c]] = [@ EXCEPT !.req_id = Free]]
    BY <1>5 DEF Return, Goto
  <2>2. pending_[req_id[c]] \in Slot /\ req_id[c] \in Ids
    BY DEF AckInv, TypeOK
  <2>3. req_id[c] # InfoId
    BY <2>1, <2>2 DEF AckInv, TypeOK, Slot
  <2>4. pending_'[InfoId] = pending_[InfoId]
    BY <1>1, <2>1, <2>3 DEF AckInv, TypeOK
  <2>5. PICK d \in Clients : pc[d] # "idle" /\ req_id[d] = InfoId
    BY <1>1, <2>1, <2>4 DEF InfoReturned
  <2>6. pc'[d] = pc[d]
    BY <2>1, <2>3, <2>5 DEF AckInv, TypeOK
  <2>7. QED
    BY <2>1, <2>5, <2>6
<1>6. QED
  BY <1>2, <1>3, <1>4, <1>5 DEF Client

(* A chunk takes no slot and gives none back.                              *)
LEMMA IoKeepsSlots ==
  ASSUME AckInv, Io, NEW i \in Ids
  PROVE  /\ pending_'[i].req_id = pending_[i].req_id
         /\ pending_[i].resolved => pending_'[i].resolved
<1>1. TypeOK
  BY DEF AckInv
<1>2. CASE UNCHANGED pending_
  BY <1>2
<1>3. CASE \E id \in Ids, s \in Status : Resolve(id, s)
  BY <1>1, <1>3, ResolveSlots
<1>4. CASE 1 \in 1 .. Len(inbound) /\ inbound[1].kind = "ack" /\ Resolve(inbound[1].id, inbound[1].status)
  BY <1>1, <1>4, FrameNumbers, ResolveSlots
<1>5. (\E k \in 1 .. ChunkFrames : k <= Len(inbound)) \/ inbound # <<>> => 1 \in 1 .. Len(inbound)
  <2>1. inbound \in Seq(Frame) /\ Len(inbound) \in Nat /\ ChunkFrames \in Nat
    BY <1>1, LenProperties, AckAssumption DEF TypeOK
  <2>2. QED
    BY <2>1, EmptySeq
<1>6. QED
  BY <1>2, <1>3, <1>4, <1>5 DEF Io, Receive, ReceiveFirstHalf, ReceiveSecondHalf

LEMMA InfoHolds == Spec => []InfoReturned
<1>1. Init => InfoReturned
  BY AckAssumption DEF Init, InfoReturned
<1>2. ASSUME AckInv, InfoReturned, Device \/ Io \/ UNCHANGED vars PROVE InfoReturned'
  <2>1. UNCHANGED <<raced, pc, req_id, issued>>
    BY <1>2 DEF Device, DeviceAnswers, DeviceReports, Io, Receive, ReceiveFirstHalf, ReceiveSecondHalf,
                hazards, clientVars, vars
  <2>2. InfoId \in Ids
    <3>1. 1 % IdCount \in 0 .. IdCount - 1
      BY AckAssumption
    <3>2. QED
      BY <3>1 DEF InfoId, Ids
  <2>3. CASE UNCHANGED pending_
    BY <1>2, <2>1, <2>3 DEF InfoReturned
  <2>4. CASE Io
    BY <1>2, <2>1, <2>2, <2>4, IoKeepsSlots DEF InfoReturned
  <2>5. QED
    BY <1>2, <2>3, <2>4 DEF Device, DeviceAnswers, DeviceReports, vars, managerVars
<1>3. ASSUME FetchDeviceInfo PROVE InfoReturned'
  <2>1. issued' = 1 /\ ~(issued' > IdCount)
    BY <1>3, AckAssumption DEF FetchDeviceInfo
  <2>2. QED
    BY <2>1 DEF InfoReturned
<1>4. AckInv /\ RoundInv /\ InfoReturned /\ [Next]_vars => InfoReturned'
  BY <1>2, <1>3, ClientInfo DEF Next
<1>5. QED
  BY <1>1, <1>4, AckInvariant, RoundHolds, PTL DEF Spec

(* Timed-out and answered requests both give their slot back, whatever     *)
(* acks came late and whatever payload was read as one; only the slot of   *)
(* s_fetchDeviceInfo stays taken, until a request takes it over.           *)
THEOREM SlotsComeBack == Spec => []NoSlotLeaks
<1>1. AckInv /\ InfoReturned => NoSlotLeaks
  <2> SUFFICES ASSUME AckInv, InfoReturned, \A c \in Clients : pc[c] = "idle"
               PROVE  /\ Pending \subseteq {InfoId}
                      /\ issued > IdCount /\ ~raced => Pending = {}
    BY DEF NoSlotLeaks
  <2>1. Pending \subseteq {InfoId}
    BY DEF AckInv, SlotsHaveOwners, Stored, Pending
  <2>2. ASSUME issued > IdCount, ~raced PROVE InfoId \notin Pending
    BY <2>2 DEF InfoReturned, Pending
  <2>3. QED
    BY <2>1, <2>2
<1>2. QED
  BY <1>1, AckInvariant, InfoHolds, PTL

-----------------------------------------------------------------------------
(* The status in a slot and the answer of a client are answers of the      *)
(* device to a request with this id, while nothing was taken for an ack    *)
(* that is none.                                                           *)
Given(i, s) == \E n \in 1 .. issued : n % IdCount = i /\ verdict[n] = <<i, s>>

Answers ==
  /\ answer \in [Clients -> Status \cup {"none", "timeout"}]
  /\ \A c \in Clients : answer[c] # "none" => number[c] # 0
  /\ ~raced /\ ~misread =>
       /\ \A i \in Ids : pending_[i].status \in Status => Given(i, pending_[i].status)
       /\ \A c \in Clients : answer[c] \in Status => Given(req_id[c], answer[c])

LEMMA GivenStays ==
  ASSUME AckInv, Verdicts, [Next]_vars
  PROVE  \A i, s : Given(i, s) => Given(i, s)'
<1>1. VerdictsStay
  BY VerdictSteps
<1>2. issued' \in {issued, issued + 1}
  <2>1. CASE FetchDeviceInfo
    BY <2>1 DEF FetchDeviceInfo
  <2>2. ASSUME NEW c \in Clients, Client(c) PROVE issued' \in {issued, issued + 1}
    BY <2>2 DEF Client, AllocateRead, AllocateStore, Send, SeeResolved, TimeUp, Return
  <2>3. CASE Device \/ Io
    BY <2>3 DEF Device, DeviceAnswers, DeviceReports, Io, Receive, ReceiveFirstHalf, ReceiveSecondHalf
  <2>4. CASE UNCHANGED vars
    BY <2>4 DEF vars
  <2>5. QED
    BY <2>1, <2>2, <2>3, <2>4 DEF Next
<1>3. issued \in Nat /\ MaxRequests \in Nat /\ issued <= MaxRequests
  BY AckAssumption DEF AckInv, TypeOK, Verdicts
<1>4. \A n \in 1 .. issued : n \in 1 .. issued' /\ n \in 1 .. MaxRequests
  BY <1>2, <1>3
<1> SUFFICES ASSUME NEW i, NEW s, NEW n \in 1 .. issued, n % IdCount = i, verdict[n] = <<i, s>>
             PROVE  n \in 1 .. issued' /\ verdict'[n] = <<i, s>>
  BY DEF Given
<1>5. verdict[n] # <<>>
  BY PairsAreSomething
<1>6. QED
  BY <1>1, <1>4, <1>5 DEF VerdictsStay

LEMMA InitialAnswers == Init => Answers
BY AckAssumption DEF Init, Answers

LEMMA FetchAnswers ==
  ASSUME AckInv, Verdicts, Answers, FetchDeviceInfo
  PROVE  Answers'
<1>1. \A i, s : Given(i, s) => Given(i, s)'
  BY GivenStays DEF Next
<1>2. UNCHANGED <<raced, misread, answer, number, req_id>> /\ pending_' = Taken(next_id_)
  BY DEF FetchDeviceInfo, clientVars, hazards
<1>3. \A i \in Ids : pending_'[i] = pending_[i] \/ pending_'[i].status = "none"
  BY <1>2 DEF Taken, AckInv, TypeOK
<1>4. "none" \notin Status
  BY AckAssumption
<1>5. QED
  BY <1>1, <1>2, <1>3, <1>4 DEF Answers

LEMMA ClientAnswers ==
  ASSUME AckInv, Verdicts, RoundInv, Answers, NEW c \in Clients, Client(c)
  PROVE  Answers'
<1>0. \A i, s : Given(i, s) => Given(i, s)'
  BY GivenStays DEF Next
<1>1. (~raced' => ~raced) /\ (~misread' => ~misread)
  <2>1. ~raced' => ~raced
    BY DEF Client, AllocateRead, AllocateStore, Send, SeeResolved, TimeUp, Return, hazards
  <2>2. CASE AllocateRead(c) \/ AllocateStore(c)
    BY <2>1, <2>2 DEF AllocateRead, AllocateStore
  <2>3. CASE Send(c) \/ SeeResolved(c) \/ TimeUp(c) \/ Return(c)
    BY <2>1, <2>3 DEF Send, SeeResolved, TimeUp, Return, hazards
  <2>4. QED
    BY <2>2, <2>3 DEF Client
<1>2. CASE AllocateRead(c)
  <2>1. /\ answer' = [answer EXCEPT ![c] = "none"] /\ UNCHANGED pending_
        /\ \A d \in Clients : d # c => number'[d] = number[d] /\ req_id'[d] = req_id[d]
    BY <1>2 DEF AllocateRead, managerVars, AckInv, TypeOK
  <2>2. /\ answer' \in [Clients -> Status \cup {"none", "timeout"}] /\ answer'[c] = "none"
        /\ \A d \in Clients : d # c => answer'[d] = answer[d]
    BY <2>1 DEF Answers
  <2>3. "none" \notin Status
    BY AckAssumption
  <2>4. \A d \in Clients : answer'[d] # "none" => number'[d] # 0
    BY <2>1, <2>2 DEF Answers
  <2>5. ASSUME ~raced, ~misread, NEW d \in Clients, answer'[d] \in Status
        PROVE  Given(req_id[d], answer[d])' 
    BY <1>0, <2>1, <2>2, <2>3, <2>5 DEF Answers
  <2>6. QED
    BY <1>0, <1>1, <2>1, <2>2, <2>4, <2>5 DEF Answers
<1>3. CASE AllocateStore(c)
  <2>1. UNCHANGED <<answer, number, req_id>>
    BY <1>3 DEF AllocateStore
  <2>2. \A i \in Ids : pending_'[i] = pending_[i] \/ pending_'[i].status = "none"
    BY <1>3 DEF AllocateStore, Taken, AckInv, TypeOK
  <2>3. "none" \notin Status
    BY AckAssumption
  <2>4. QED
    BY <1>0, <1>1, <2>1, <2>2, <2>3 DEF Answers
<1>4. CASE Send(c) \/ SeeResolved(c) \/ TimeUp(c)
  <2>1. UNCHANGED <<answer, number, req_id, pending_>>
    BY <1>4 DEF Send, SeeResolved, TimeUp, managerVars
  <2>2. QED
    BY <1>0, <1>1, <2>1 DEF Answers
<1>5. CASE Return(c)
  <2>1. /\ UNCHANGED <<number, req_id>> /\ pc[c] # "idle"
        /\ pending_' = [pending_ EXCEPT ![req_id[c]].req_id = Free]
        /\ answer' = [answer EXCEPT ![c] =
                        IF pc[c] = "timeout" THEN "timeout" ELSE pending_[req_id[c]].status]
    BY <1>5 DEF Return
  <2>2. \A i \in Ids : pending_'[i].status = pending_[i].status
    BY <2>1 DEF AckInv, TypeOK, Slot
  <2>3. req_id[c] \in Ids /\ pending_[req_id[c]].status \in Status \cup {"none"} /\ "timeout" \notin Status
    BY AckAssumption DEF AckInv, TypeOK, Slot
  <2>4. /\ answer' \in [Clients -> Status \cup {"none", "timeout"}]
        /\ answer'[c] \in {"timeout", pending_[req_id[c]].status}
        /\ \A d \in Clients : d # c => answer'[d] = answer[d]
    BY <2>1, <2>3 DEF Answers
  <2>5. number[c] # 0
    BY <2>1 DEF AckInv, Numbered, TypeOK
  <2>6. \A d \in Clients : answer'[d] # "none" => number'[d] # 0
    BY <2>1, <2>4, <2>5 DEF Answers
  <2>7. ASSUME ~raced, ~misread, NEW d \in Clients, answer'[d] \in Status
        PROVE  Given(req_id[d], answer[d])'
    <3>1. CASE d = c
      BY <1>0, <2>1, <2>3, <2>4, <2>7, <3>1 DEF Answers
    <3>2. CASE d # c
      BY <1>0, <2>1, <2>4, <2>7, <3>2 DEF Answers
    <3>3. QED
      BY <3>1, <3>2
  <2>8. QED
    BY <1>0, <1>1, <2>2, <2>4, <2>6, <2>7 DEF Answers
<1>6. QED
  BY <1>2, <1>3, <1>4, <1>5 DEF Client

LEMMA OtherAnswers ==
  ASSUME AckInv, Verdicts, RoundInv, Answers, Device \/ Io
  PROVE  Answers'
<1>0. \A i, s : Given(i, s) => Given(i, s)'
  BY GivenStays DEF Next
<1>1. UNCHANGED <<raced, answer, number, req_id>> /\ (~misread' => ~misread)
  BY DEF Device, DeviceAnswers, DeviceReports, Io, Receive, ReceiveFirstHalf, ReceiveSecondHalf,
         clientVars, hazards
<1>2. CASE UNCHANGED pending_
  BY <1>0, <1>1, <1>2 DEF Answers
<1>3. CASE /\ 1 \in 1 .. Len(inbound) /\ inbound[1].kind = "ack" /\ UNCHANGED <<verdict, issued>>
           /\ Resolve(inbound[1].id, inbound[1].status)
  <2> DEFINE f == inbound[1]
  <2>1. f.id \in Ids /\ f.status \in Status /\ f.number \in 1 .. issued /\ verdict[f.number] = <<f.id, f.status>>
    BY <1>3, FrameNumbers, RequestNumbers DEF AckInv, Verdicts
  <2>2. ~raced => f.number % IdCount = f.id
    BY <1>3 DEF RoundInv, Round
  <2>3. ~raced => Given(f.id, f.status)
    BY <2>1, <2>2 DEF Given
  <2> HIDE DEF f
  <2>4. \A i \in Ids : pending_'[i].status = pending_[i].status \/ (i = f.id /\ pending_'[i].status = f.status)
    BY <1>3, <2>1 DEF Resolve, AckInv, TypeOK, Slot, f
  <2>5. QED
    BY <1>0, <1>1, <2>3, <2>4 DEF Answers
<1>4. CASE misread'
  BY <1>0, <1>1, <1>4 DEF Answers
<1>5. CASE Io
  <2>1. inbound \in Seq(Frame) /\ Len(inbound) \in Nat /\ ChunkFrames \in Nat
    BY LenProperties, AckAssumption DEF AckInv, TypeOK
  <2>2. (\E k \in 1 .. ChunkFrames : k <= Len(inbound)) \/ inbound # <<>> => 1 \in 1 .. Len(inbound)
    BY <2>1, EmptySeq
  <2>3. UNCHANGED <<verdict, issued>>
    BY <1>5 DEF Io, Receive, ReceiveFirstHalf, ReceiveSecondHalf, deviceVars
  <2>4. CASE \E k \in 1 .. ChunkFrames : Receive(k)
    BY <1>2, <1>3, <2>2, <2>3, <2>4 DEF Receive
  <2>5. CASE ReceiveFirstHalf
    BY <1>2, <1>3, <2>2, <2>3, <2>5 DEF ReceiveFirstHalf
  <2>6. CASE \E k \in 1 .. ChunkFrames : ReceiveSecondHalf(k)
    BY <1>2, <1>4, <2>6 DEF ReceiveSecondHalf
  <2>7. QED
    BY <1>5, <2>4, <2>5, <2>6 DEF Io
<1>6. QED
  BY <1>2, <1>5 DEF Device, DeviceAnswers, DeviceReports, managerVars

LEMMA AnswersHold == Spec => []Answers
<1>1. UNCHANGED vars /\ Answers => Answers'
  <2> SUFFICES ASSUME UNCHANGED vars, Answers PROVE Answers'
    OBVIOUS
  <2>1. /\ UNCHANGED <<answer, number, req_id, pending_, issued, verdict>>
        /\ (~raced' => ~raced) /\ (~misread' => ~misread)
    BY DEF vars, managerVars, clientVars, deviceVars, hazards
  <2>2. QED
    BY <2>1 DEF Answers, Given
<1>2. AckInv /\ Verdicts /\ RoundInv /\ Answers /\ [Next]_vars => Answers'
  BY <1>1, FetchAnswers, ClientAnswers, OtherAnswers DEF Next
<1>3. QED
  BY <1>2, InitialAnswers, AckInvariant, VerdictsHold, RoundHolds, PTL DEF Spec

(* A request returns what the device answered to a request of the same     *)
(* place in the round of ids: an answer to an earlier request that timed   *)
(* out is taken only if it is late by whole rounds.                        *)
THEOREM AnswersAreMine == Spec => []AnswerIsMine
<1>1. RoundInv /\ Answers => AnswerIsMine
  <2> SUFFICES ASSUME RoundInv, Answers, ~raced, ~misread, NEW c \in Clients, answer[c] \in Status
               PROVE  \E r \in 1 .. issued : /\ r % IdCount = number[c] % IdCount
                                             /\ verdict[r] = <<req_id[c], answer[c]>>
    BY DEF AnswerIsMine
  <2>1. Given(req_id[c], answer[c]) /\ number[c] # 0
    BY AckAssumption DEF Answers
  <2>2. req_id[c] = number[c] % IdCount
    BY <2>1 DEF RoundInv, Round
  <2>3. QED
    BY <2>1, <2>2 DEF Given
<1>2. QED
  BY <1>1, RoundHolds, AnswersHold, PTL
=============================================================================
