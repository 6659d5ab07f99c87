---------------------------- MODULE MCUrbTracking ----------------------------
(* Constants of UrbTracking for TLC: negative numbers and sets of addresses. *)
EXTENDS UrbTracking, TLC

MCStatuses == {0, -2}
MCErrors == {-19}
\* Unreadable, below, in, and just behind __usb_hcd_giveback_urb.
MCCallers == {0, GivebackStart - 1, GivebackStart, GivebackEnd}
AnyUrb == Permutations(Urbs)

=============================================================================
