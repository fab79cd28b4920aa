---------------------------- MODULE DeviceInput ----------------------------
(* The DeviceInputWrapper of DeviceIOTest: what the callbacks of the library *)
(* do with the LEDs, the network configuration and the volume.  The library  *)
(* has no source here: it keeps a network status that any of its threads may *)
(* set, posts one notification for each change, and calls back from one      *)
(* thread for the network and from another for the keys.  Its headers only   *)
(* declare the calls; all this about the library is assumed, and LedFollows  *)
(* and RecoveryAsked rest on the one notification for each change.           *)
EXTENDS Integers

CONSTANTS
    MaxNotes,       \* bound: notifications posted and not delivered
    MaxVolume,      \* 100
    Steps           \* what a volume key carries

ASSUME InputAssumption == MaxNotes \in Nat /\ MaxVolume \in Nat /\ Steps \subseteq Nat

VARIABLES
    status,     \* getNetworkStatus()
    notes,      \* changes not yet notified
    cb, seen,   \* the network's thread: where it is, the status it read
    net_led,    \* what the LEDs show of the network
    key,        \* the keys' thread: the event it handles
    found, vol_cur, \* ... and the status, or the volume, it read for it
    volume,     \* getVolume()
    micmute, mic_led,
    up          \* not rebooting

netVars == <<status, notes, cb, seen, net_led>>
keyVars == <<key, found, vol_cur, volume, micmute, mic_led>>
vars    == <<netVars, keyVars, up>>

NetLinkNetworkStatus == {
    "CONFIG_STARTED", "CONFIGING", "CONFIG_SUCCEEDED", "CONFIG_FAILED", "SUCCEEDED",
    "FAILED", "RECOVERY_START", "RECOVERY_SUCCEEDED", "RECOVERY_FAILED", "WAIT_LOGIN",
    "CONFIG_WRONG_KEY_FAILED"}

\* of enum LedState, those the wrapper asks for
LedState == {"NET_WAIT_CONNECT", "NET_DO_CONNECT", "NET_CONNECT_SUCCESS",
             "NET_CONNECT_FAILED", "NET_RECOVERY", "other"}

\* of enum DeviceInput, the events that callback() does more for than print
DeviceInputs == {"KEY_VOLUME_UP", "KEY_VOLUME_DOWN", "KEY_MIC_MUTE", "KEY_ENTER_AP",
                 "KEY_FACTORY_RESET", "other"}

Nothing == "nothing"

Init ==
    /\ status \in NetLinkNetworkStatus /\ notes = 0 /\ cb = "idle" /\ seen = Nothing
    /\ net_led = "other" /\ key = Nothing /\ found = Nothing
    /\ vol_cur = 0 /\ volume \in 0 .. MaxVolume
    /\ micmute = FALSE /\ mic_led = FALSE /\ up = TRUE

----------------------------------------------------------------------------
(* netlinkNetworkStatusChanged, in the network's thread *)

\* the library changes the status: one notification for each change is assumed
SetNetworkStatus(s) == notes < MaxNotes /\ status' = s /\ notes' = notes + 1

StatusChanges ==
    /\ up /\ \E s \in NetLinkNetworkStatus : SetNetworkStatus(s)
    /\ UNCHANGED <<cb, seen, net_led, keyVars, up>>

Notify ==
    /\ up /\ cb = "idle" /\ notes > 0
    /\ notes' = notes - 1 /\ cb' = "read"
    /\ UNCHANGED <<status, seen, net_led, keyVars, up>>

\* the argument is only printed: getNetworkStatus() is called again
ReadStatus ==
    /\ up /\ cb = "read" /\ cb' = "led" /\ seen' = status
    /\ UNCHANGED <<status, notes, net_led, keyVars, up>>

HasLed(s) == s \notin {"WAIT_LOGIN", "CONFIG_WRONG_KEY_FAILED"}

LedOf(s) ==
    CASE s = "CONFIG_STARTED" -> "NET_WAIT_CONNECT"
      [] s = "CONFIGING"      -> "NET_DO_CONNECT"
      [] s = "RECOVERY_START" -> "NET_RECOVERY"
      [] s \in {"CONFIG_SUCCEEDED", "SUCCEEDED", "RECOVERY_SUCCEEDED"} -> "NET_CONNECT_SUCCESS"
      [] s \in {"CONFIG_FAILED", "FAILED", "RECOVERY_FAILED"} -> "NET_CONNECT_FAILED"

\* mutant of ControlLed: a break before controlWifi
ControlLedBreaks ==
    /\ up /\ cb = "led" /\ seen' = Nothing /\ cb' = "idle"
    /\ net_led' = IF HasLed(seen) THEN LedOf(seen) ELSE net_led
    /\ UNCHANGED <<status, notes, keyVars, up>>

\* mutant of ControlLed: what was posted during the callback goes with it
ControlLedMerges ==
    /\ up /\ cb = "led" /\ notes' = 0 /\ seen' = Nothing
    /\ net_led' = IF HasLed(seen) THEN LedOf(seen) ELSE net_led
    /\ cb' = IF seen = "CONFIG_FAILED" THEN "wifi" ELSE "idle"
    /\ UNCHANGED <<status, keyVars, up>>

\* controlLed
ControlLed ==
    /\ up /\ cb = "led" /\ seen' = Nothing
    /\ net_led' = IF HasLed(seen) THEN LedOf(seen) ELSE net_led
    /\ cb' = IF seen = "CONFIG_FAILED" THEN "wifi" ELSE "idle"
    /\ UNCHANGED <<status, notes, keyVars, up>>

\* controlWifi(WIFI_RECOVERY)
ControlWifi ==
    /\ up /\ cb = "wifi" /\ cb' = "idle"
    /\ UNCHANGED <<status, notes, seen, net_led, keyVars, up>>

----------------------------------------------------------------------------
(* callback, in the keys' thread *)

\* a key that reads the status or the volume before it asks for another
Reads(event) ==
    /\ key' = event
    /\ IF event = "KEY_ENTER_AP" THEN found' = status /\ UNCHANGED vol_cur
                                 ELSE vol_cur' = volume /\ UNCHANGED found
    /\ UNCHANGED <<volume, micmute, mic_led, up>>

\* controlLed(LED_MICMUTE), or the end of that layer
MicMute == mic_led' = ~micmute /\ micmute' = ~micmute /\ UNCHANGED <<key, found, vol_cur, volume, up>>

\* factoryReset: the device reboots
FactoryReset == up' = FALSE /\ UNCHANGED keyVars

Callback(event) ==
    /\ up /\ key = Nothing
    /\ \/ event \in {"KEY_ENTER_AP", "KEY_VOLUME_UP", "KEY_VOLUME_DOWN"} /\ Reads(event)
       \/ event = "KEY_MIC_MUTE" /\ MicMute
       \/ event = "KEY_FACTORY_RESET" /\ FactoryReset
       \/ event = "other" /\ UNCHANGED <<keyVars, up>>
    /\ UNCHANGED netVars

\* the volume asked for, vol being what the event carries
Asked(vol) == IF key = "KEY_VOLUME_UP" THEN vol_cur + vol ELSE vol_cur - vol

\* setVolume; the library keeps to its 0 ~ 100
SetVolume ==
    /\ up /\ key \in {"KEY_VOLUME_UP", "KEY_VOLUME_DOWN"} /\ key' = Nothing /\ vol_cur' = 0
    /\ \E vol \in Steps :
          volume' = IF Asked(vol) \in 0 .. MaxVolume THEN Asked(vol)
                    ELSE IF Asked(vol) < 0 THEN 0 ELSE MaxVolume
    /\ UNCHANGED <<netVars, found, micmute, mic_led, up>>

Configuring(s) == s \in {"CONFIG_STARTED", "CONFIGING"}

\* when it succeeds; what happens to the status later is left to StatusChanges
StartNetworkConfig == SetNetworkStatus("CONFIG_STARTED")

\* stopNetworkConfig, stopNetworkRecovery or startNetworkConfig; what the first two do
\* to the status is left to StatusChanges, too
EnterAp ==
    /\ up /\ key = "KEY_ENTER_AP" /\ key' = Nothing /\ found' = Nothing
    /\ \/ ~Configuring(found) /\ found # "RECOVERY_START" /\ StartNetworkConfig
       \/ UNCHANGED <<status, notes>>
    /\ UNCHANGED <<cb, seen, net_led, vol_cur, volume, micmute, mic_led, up>>

NetworkThread == Notify \/ ReadStatus \/ ControlLed \/ ControlWifi
KeyThread     == (\E event \in DeviceInputs : Callback(event)) \/ SetVolume \/ EnterAp
Next          == StatusChanges \/ NetworkThread \/ KeyThread
Spec          == Init /\ [][Next]_vars
\* the network's thread is scheduled
FairSpec      == Spec /\ WF_vars(NetworkThread)

----------------------------------------------------------------------------
\* Once every change was notified, the LEDs show the status there is, however many
\* changes came, and from whichever thread, while a callback was at work.
LedFollows ==
    notes = 0 /\ cb = "idle" /\ HasLed(status) /\ net_led # "other" => net_led = LedOf(status)

\* A failed configuration that nothing replaces leads to a recovery, whatever the
\* callback was at when it failed.
RecoveryAsked ==
    (status = "CONFIG_FAILED" /\ notes > 0) ~> (cb = "wifi" \/ status # "CONFIG_FAILED" \/ ~up)

\* Not so for the code, which lets things happen between what it reads and what it does:
\* the network is recovered only while its configuration is failed,
RecoveryWhenFailed == cb = "wifi" => status = "CONFIG_FAILED"

\* the key that stops a configuration finds one running,
StopWhileRunning == key = "KEY_ENTER_AP" /\ Configuring(found) => Configuring(status)

\* and a volume key asks for a volume of "0 ~ 100".
VolumeInRange ==
    key \in {"KEY_VOLUME_UP", "KEY_VOLUME_DOWN"} => \A vol \in Steps : Asked(vol) \in 0 .. MaxVolume
=============================================================================
