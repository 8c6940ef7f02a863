------------------------------ MODULE MCQemuBt ------------------------------
(***************************************************************************)
(* Two controllers, one that first connects and one that first advertises. *)
(***************************************************************************)
EXTENDS QemuBt

CONSTANTS central, peripheral

MCControllers == {central, peripheral}
MCFlow == {peripheral}
\* Both may come to advertise and to initiate.
MCPrograms ==
    (central :> <<{"ScanOn", "Create"}, {"Cancel", "Disconnect", "Reset", "AdvertiseOn"}, {"Create", "Disconnect"}>>)
    @@ (peripheral :> <<{"AdvertiseOn"}, {"AdvertiseOn", "Create", "HostBufferSize"}>>)
MCMaxAcl == (central :> 2) @@ (peripheral :> 0)
MCRemovable == {central}

\* For the liveness run: the peripheral, waiting for credits, advertises again to the scanning
\* central, which has room for one packet.
MCLiveFlow == {central}
MCLivePrograms ==
    (central :> <<{"ScanOn"}, {"Create"}, {"ReadRemote", "ScanOff"}>>)
    @@ (peripheral :> <<{"AdvertiseOn"}, {"AdvertiseOn"}>>)
MCLiveMaxAcl == (central :> 0) @@ (peripheral :> 2)
MCLiveRemovable == {}
=============================================================================
