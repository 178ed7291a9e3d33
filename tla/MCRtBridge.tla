----------------------------- MODULE MCRtBridge -----------------------------
(***************************************************************************)
(* Small inputs for the bridge: a slow speed and a fast one with a fault,  *)
(* one throttle, and four drivers.                                         *)
(***************************************************************************)
EXTENDS RtBridge

Speeds == {[current_speed_kmh |-> 4,  hardware_fault |-> FALSE],
           [current_speed_kmh |-> 60, hardware_fault |-> TRUE]}

OneSpeed == {[current_speed_kmh |-> 60, hardware_fault |-> FALSE]}

Seen(attentive, reason, blocked) ==
    [is_attentive |-> attentive, reason |-> reason, camera_blocked |-> blocked]

Drivers == {Seen(TRUE, "NONE", FALSE), Seen(FALSE, "DROWSY", FALSE),
            Seen(TRUE, "UNRESPONSIVE", FALSE), Seen(TRUE, "NONE", TRUE)}

ThreeDrivers == {Seen(TRUE, "NONE", FALSE), Seen(FALSE, "NONE", FALSE),
                 Seen(TRUE, "NONE", TRUE)}

Options(alive, override, mode, n) ==
    [notebook_input_alive |-> alive, driver_override |-> override,
     lkas_mode |-> mode, iterations |-> n]

\* The defaults; a driver who overrides while the notebook is dead; a bounded run.
Forever == -1
Commands == {Options(TRUE, FALSE, "ON_ACTIVE", Forever),
             Options(FALSE, TRUE, "ON_INACTIVE", Forever)}

BoundedOrNot == {Options(TRUE, FALSE, "ON_ACTIVE", Forever),
                 Options(TRUE, FALSE, "ON_ACTIVE", 2)}
=============================================================================
