---------------------------- MODULE MCWifiSwitch ----------------------------
(* Bounds of WifiSwitch's runs.                                            *)
EXTENDS WifiSwitch

Bound(daemons, reconnects, panics, overruns, deaf, timeouts) ==
  [b \in Bounds |->
     CASE b = "daemons" -> daemons [] b = "reconnects" -> reconnects
       [] b = "panics" -> panics [] b = "overruns" -> overruns
       [] b = "deaf" -> deaf [] b = "timeouts" -> timeouts]

Some == {Bound(3, 1, 0, 0, 0, 0), Bound(2, 0, 1, 0, 1, 0),
         Bound(2, 1, 0, 1, 0, 0), Bound(1, 2, 0, 0, 1, 0),
         Bound(2, 0, 0, 0, 1, 2), Bound(1, 1, 0, 0, 1, 1)}
=============================================================================
