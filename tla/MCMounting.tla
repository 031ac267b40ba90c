----------------------------- MODULE MCMounting -----------------------------
(* Instances of Mounting for TLC: an app that heeds SIGTERM, one that nothing ends, *)
(* and the FUSE daemon; devices with sdcardfs, with app data isolation, with BPF.   *)
EXTENDS Mounting, TLC

CONSTANTS app, hung, daemon

MCNerve == (app :> 2) @@ (hung :> 4) @@ (daemon :> 3)
MCLayouts == {{"owner", "clone"}, {"public"}, {"private", "obb"}}
MCDevices == {{"sdcardfs"}, {"isolation"}, {"isolation", "bpf"}}
=============================================================================
