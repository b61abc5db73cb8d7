----------------------------- MODULE CaptureFile -----------------------------
(***************************************************************************)
(* The capture reader of packetsage-core/src/reader.rs: how each block of  *)
(* a legacy pcap or pcapng file changes the interface table and the        *)
(* counters, and which item it hands to the pipeline.  Parsing of block    *)
(* bytes is the external crate pcap-parser; a block is [kind, ...] with    *)
(* the fields that matter: iface, ts and frame.                            *)
(***************************************************************************)
EXTENDS Decoder

IsBlock(b) ==
  /\ b.kind \in {"LegacyHeader", "Legacy", "SectionHeader", "InterfaceDescription",
                 "EnhancedPacket", "SimplePacket", "Statistics", "Custom"}
  /\ b.kind \in {"Legacy", "EnhancedPacket"} => b.ts \in Int
  /\ b.kind = "EnhancedPacket" => b.iface \in Nat
  /\ b.kind \in {"Legacy", "EnhancedPacket", "SimplePacket"} => IsFrame(b.frame)

\* ifaces: per declared interface, the time of its last packet.
NewReader == [ifaces |-> <<>>, nextIndex |-> 0, nonfatal |-> 0, packets |-> 0, bytes |-> 0]

Packet(r, iface, ts, frame) ==
  [type |-> "Packet", idx |-> r.nextIndex, iface |-> iface, ts |-> ts, frame |-> frame]

Counted(r, frame) ==
  [r EXCEPT !.nextIndex = @ + 1, !.packets = @ + 1, !.bytes = @ + frame.cap]

Nothing == [type |-> "None"]

NonFatal == [type |-> "NonFatal"]

Read(reader, item) == [reader |-> reader, item |-> item]

\* A block that is skipped, with or without telling the pipeline.
Skip(r, item) == Read([r EXCEPT !.nonfatal = @ + 1], item)

\* Regression: a new section keeps the interfaces of the one before.
SectionHeaderKeeping(r) == Read(r, Nothing)

SectionHeader(r) == Read([r EXCEPT !.ifaces = <<>>], Nothing)

LegacyHeader(r) == Read([r EXCEPT !.ifaces = <<0>>], Nothing)

InterfaceDescription(r) == Read([r EXCEPT !.ifaces = Append(@, 0)], Nothing)

\* legacy_record: without a header the record is dropped in silence.
LegacyRecord(r, b) ==
  IF r.ifaces = <<>> THEN Read(r, Nothing)
  ELSE Read(Counted(r, b.frame), Packet(r, 0, b.ts, b.frame))

\* An enhanced packet block names its interface, by number from 0.
EnhancedPacket(r, b) ==
  IF b.iface + 1 \notin DOMAIN r.ifaces THEN Skip(r, NonFatal)
  ELSE Read([Counted(r, b.frame) EXCEPT !.ifaces[b.iface + 1] = b.ts],
            Packet(r, b.iface, b.ts, b.frame))

\* A simple packet block has no time: it takes the last one of interface 0.
SimplePacket(r, b) ==
  IF r.ifaces = <<>> THEN Skip(r, NonFatal)
  ELSE Read(Counted(r, b.frame), Packet(r, 0, r.ifaces[1], b.frame))

HandleBlock(r, b) ==
  CASE b.kind = "LegacyHeader"         -> LegacyHeader(r)
    [] b.kind = "Legacy"               -> LegacyRecord(r, b)
    [] b.kind = "SectionHeader"        -> SectionHeader(r)
    [] b.kind = "InterfaceDescription" -> InterfaceDescription(r)
    [] b.kind = "EnhancedPacket"       -> EnhancedPacket(r, b)
    [] b.kind = "SimplePacket"         -> SimplePacket(r, b)
    [] b.kind = "Statistics"           -> Skip(r, Nothing)
    [] b.kind = "Custom"               -> Skip(r, NonFatal)

\* The reader at the end of a file and the packets it read, in order: what drive
\* gives a callback that keeps the packets and never fails.
Driven(blocks) ==
  LET after[i \in 0 .. Len(blocks)] ==
        IF i = 0 THEN [reader |-> NewReader, packets |-> <<>>]
        ELSE LET next == HandleBlock(after[i - 1].reader, blocks[i])
             IN  [reader  |-> next.reader,
                  packets |-> IF next.item.type # "Packet" THEN after[i - 1].packets
                              ELSE Append(after[i - 1].packets, next.item)]
  IN  after[Len(blocks)]
=============================================================================
