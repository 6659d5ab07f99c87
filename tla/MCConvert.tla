----------------------------- MODULE MCConvert -----------------------------
(* Command lines and inputs for Convert.  A second has four nanoseconds.     *)
EXTENDS Convert

Usb(interface, ticks, type, in, wire_len, payload_len) ==
    [kind |-> "packet", interface |-> interface, ticks |-> ticks, cut |-> FALSE,
     urb_id |-> 1, event_type |-> type, in |-> in, iso |-> FALSE,
     wire_len |-> wire_len, has_data |-> payload_len # 0, payload_len |-> payload_len,
     frames |-> <<>>, content |-> 0]

Iso(interface, ticks, type, wire_len, frames, payload_len) ==
    [Usb(interface, ticks, type, TRUE, wire_len, payload_len) EXCEPT
        !.iso = TRUE, !.frames = frames]

Frame(offset, length) == [offset |-> offset, length |-> length]

\* One block of each kind; clocks in micro- and nanoseconds, one set back.
Blocks ==
    {Section, OutputInterface, [kind |-> "other"], [kind |-> "legacy"],
     [kind |-> "malformed"], Interface(USB_LINUX_MMAPPED, NsPerSecond, 0),
     Interface(USB_LINUX_MMAPPED, UsPerSecond, -1), Interface(1, UsPerSecond, 0),
     Usb(0, 5, "S", FALSE, 1, 1), Usb(1, 3, "C", TRUE, 0, 0),
     [Usb(0, 2, "E", TRUE, 0, 0) EXCEPT !.frames = <<Frame(0, 0)>>]}

\* One URB id in two interfaces and several sections; packets cut, without the
\* buffer, with a part of it.
PairingPackets ==
    {Section, OutputInterface,
     Usb(0, 2, "S", FALSE, 1, 1), Usb(0, 4, "S", FALSE, 2, 0), Usb(0, 3, "C", FALSE, 2, 0),
     [Usb(0, 5, "C", FALSE, 1, 0) EXCEPT !.cut = TRUE], Usb(1, 6, "E", FALSE, 0, 0)}

UnmatchedPackets ==
    {Section, OutputInterface, Usb(0, 1, "S", TRUE, 2, 0), Usb(0, 2, "C", TRUE, 2, 1),
     [Usb(0, 3, "S", FALSE, 1, 1) EXCEPT !.urb_id = 2], Usb(1, 3, "S", FALSE, 1, 1),
     Usb(1, 4, "C", FALSE, 1, 0)}

IsoPackets ==
    {Iso(0, 0, "S", 2, <<Frame(0, 1), Frame(1, 1)>>, 0),
     Iso(0, 2, "C", 1, <<Frame(0, 1), Frame(1, 0)>>, 1),
     Iso(0, 7, "C", 2, <<Frame(1, 2)>>, 3), Iso(1, 1, "C", 2, <<Frame(1, 2)>>, 3),
     Iso(0, 1, "C", 2, <<Frame(1, 2)>>, 0), Iso(0, 1, "C", 2, <<Frame(1, 2)>>, 2)}

\* Packets of two sources at times that cross and recross a second.
RotationPackets ==
    {Usb(0, 0, "S", TRUE, 1, 0), Usb(1, 1, "S", FALSE, 3, 3),
     Usb(0, 3, "E", TRUE, 0, 0), Iso(1, 4, "C", 1, <<Frame(0, 1)>>, 1)}

\* Complete events as the reassembler returns them.
Event(urb, type, in, timestamp, requested_len, actual_len, payload_len) ==
    [source_id |-> 0, urb_id |-> urb, event_type |-> type, in |-> in, iso |-> FALSE,
     timestamp |-> timestamp, requested_len |-> requested_len, actual_len |-> actual_len,
     has_data |-> payload_len # 0, payload_len |-> payload_len, frames |-> <<>>,
     content |-> 0, identity_known |-> TRUE, requested_known |-> TRUE]

Events ==
    {Event(1, "S", FALSE, 1, 3, 0, 3), Event(2, "S", TRUE, 3, 2, 0, 0),
     Event(2, "C", TRUE, 7, 2, 1, 1), Event(1, "C", FALSE, 0, 3, 3, 0),
     [Event(3, "C", TRUE, 2, 3, 1, 3) EXCEPT !.iso = TRUE, !.frames = <<Frame(2, 1)>>]}

TwoInterfaces == <<Section, OutputInterface, OutputInterface>>

\* No limits, everything written.
Options(mode, header, inputs, length) ==
    [mode |-> mode, header |-> header, inputs |-> inputs, length |-> length,
     needs_latency |-> FALSE, iso_stats |-> TRUE, write |-> TRUE, count |-> <<>>,
     size |-> <<>>, seconds |-> <<>>, max_files |-> <<>>, taken |-> {}]

Rotation == Options("pcapng", TwoInterfaces, RotationPackets, 8)

AllScenarios ==
    {[Options("pcapng", <<>>, Blocks, 5) EXCEPT !.needs_latency = TRUE],
     [Options("pcapng", TwoInterfaces, PairingPackets, 8) EXCEPT
         !.needs_latency = TRUE, !.write = FALSE],
     [Options("pcapng", TwoInterfaces, UnmatchedPackets, 7) EXCEPT
         !.needs_latency = TRUE],
     Options("pcapng", TwoInterfaces, IsoPackets, 7),
     [Options("pcapng", TwoInterfaces, IsoPackets, 7) EXCEPT !.count = <<2>>],
     [Options("raw", <<>>, Events, 4) EXCEPT !.count = <<3>>, !.size = <<150>>, !.taken = {2}],
     [Options("live", <<>>, Events, 4) EXCEPT !.size = <<1>>, !.max_files = <<2>>,
         !.needs_latency = TRUE],
     [Options("live", <<>>, Events, 3) EXCEPT !.count = <<1>>, !.taken = {0}],
     [Options("raw", <<>>, Events, 2) EXCEPT !.seconds = <<1>>, !.taken = {0}],
     [Rotation EXCEPT !.size = <<264>>],
     [Rotation EXCEPT !.seconds = <<1>>, !.count = <<4>>],
     [Rotation EXCEPT !.size = <<280>>, !.seconds = <<2>>, !.max_files = <<2>>]}

\* Three OUT transfers, one after the other, as the kernel reports them.
OutTransfers ==
    [i \in 1 .. 6 |->
        [Event((i + 1) \div 2, IF i % 2 = 1 THEN "S" ELSE "C", FALSE, i, 1,
               IF i % 2 = 1 THEN 0 ELSE 1, IF i % 2 = 1 THEN 1 ELSE 0) EXCEPT !.content = i]]

OneSided == {Options("live", OutTransfers, {}, 6)}

=============================================================================
