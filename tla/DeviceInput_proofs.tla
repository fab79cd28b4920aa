----------------------- MODULE DeviceInput_proofs -----------------------
(* The LEDs follow the network, whatever the bounds of DeviceInput are: a  *)
(* status that the callback missed has a notification left to come.        *)
EXTENDS DeviceInput, TLAPS

NetType == notes \in Nat /\ cb \in {"idle", "read", "led", "wifi"}

\* With no notification left, the status the callback read is the one there is.
ReadLast == notes = 0 /\ cb = "led" => seen = status

\* LedFollows from the moment the LED is set, not only when the callback returns.
LedSet == notes = 0 /\ cb \in {"idle", "wifi"} /\ HasLed(status) /\ net_led # "other"
             => net_led = LedOf(status)

IInv == NetType /\ ReadLast /\ LedSet

LEMMA InitInv == Init => IInv
  BY DEF Init, IInv, NetType, ReadLast, LedSet

\* A change of status is one notification more.
LEMMA ChangeInv ==
    ASSUME IInv, NEW s, SetNetworkStatus(s), cb' = cb
    PROVE  IInv'
<1>1. notes' \in Nat /\ notes' # 0
  BY DEF IInv, NetType, SetNetworkStatus
<1>2. cb' \in {"idle", "read", "led", "wifi"}
  BY DEF IInv, NetType
<1> QED
  BY <1>1, <1>2 DEF IInv, NetType, ReadLast, LedSet

\* What the keys' thread does to its own variables leaves the network's alone.
LEMMA NetUnchanged == IInv /\ UNCHANGED netVars => IInv'
  BY DEF IInv, NetType, ReadLast, LedSet, netVars

LEMMA NetworkInv == ASSUME IInv, NetworkThread PROVE IInv'
<1> USE DEF IInv
<1>1. CASE Notify
  <2>1. notes' \in Nat /\ cb' = "read"
    BY <1>1 DEF Notify, NetType
  <2> QED
    BY <2>1 DEF NetType, ReadLast, LedSet
<1>2. CASE ReadStatus
  BY <1>2 DEF ReadStatus, NetType, ReadLast, LedSet
<1>3. CASE ControlLed
  <2>1. cb = "led" /\ status' = status /\ notes' = notes /\ cb' \in {"idle", "wifi"}
    BY <1>3 DEF ControlLed
  <2>2. ASSUME notes = 0, HasLed(status) PROVE net_led' = LedOf(status)
    <3>1. seen = status
      BY <2>1, <2>2 DEF ReadLast
    <3> QED
      BY <1>3, <2>2, <3>1 DEF ControlLed
  <2> QED
    BY <2>1, <2>2 DEF NetType, ReadLast, LedSet
<1>4. CASE ControlWifi
  BY <1>4 DEF ControlWifi, NetType, ReadLast, LedSet
<1> QED
  BY <1>1, <1>2, <1>3, <1>4 DEF NetworkThread

LEMMA KeyInv == ASSUME IInv, KeyThread PROVE IInv'
<1>1. CASE \E event \in DeviceInputs : Callback(event)
  BY <1>1, NetUnchanged DEF Callback
<1>2. CASE SetVolume
  BY <1>2, NetUnchanged DEF SetVolume
<1>3. CASE EnterAp
  <2>1. cb' = cb /\ seen' = seen /\ net_led' = net_led
    BY <1>3 DEF EnterAp
  <2>2. SetNetworkStatus("CONFIG_STARTED") \/ UNCHANGED <<status, notes>>
    BY <1>3 DEF EnterAp, StartNetworkConfig
  <2> QED
    BY <2>1, <2>2, ChangeInv, NetUnchanged DEF netVars
<1> QED
  BY <1>1, <1>2, <1>3 DEF KeyThread

\* The strengthened invariant holds throughout.
THEOREM Invariance == Spec => []IInv
<1>1. IInv /\ [Next]_vars => IInv'
  <2> SUFFICES ASSUME IInv, [Next]_vars PROVE IInv'
    OBVIOUS
  <2>1. CASE StatusChanges
    BY <2>1, ChangeInv DEF StatusChanges
  <2>2. CASE UNCHANGED vars
    BY <2>2, NetUnchanged DEF vars
  <2> QED
    BY <2>1, <2>2, NetworkInv, KeyInv DEF Next
<1> QED
  BY <1>1, InitInv, PTL DEF Spec

\* LedFollows for any number of pending notifications: callback() of the wrapper may
\* read a status newer than the one it was called for, and the LEDs still end at the last.
THEOREM LedsFollow == Spec => []LedFollows
<1>1. IInv => LedFollows
  BY DEF IInv, LedSet, LedFollows
<1> QED
  BY <1>1, Invariance, PTL
=============================================================================
