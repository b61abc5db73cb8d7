------------------------------ MODULE MCEngine ------------------------------
(* An instance of Engine for TLC: two small captures, and the requests and  *)
(* drafts an agent makes of them.                                           *)
EXTENDS Engine

Net(proto, src, dst) == [proto |-> proto, src |-> src, dst |-> dst, version |-> 4, frag |-> FALSE]

Frame(net, sport, dport, flags, seq, len) ==
  [linktype |-> "ethernet", fault |-> None, net |-> net,
   tr |-> [proto |-> net.proto, sport |-> sport, dport |-> dport, flags |-> flags, seq |-> seq],
   len |-> len, content |-> None, cap |-> len + 1, orig |-> len + 1]

Legacy(ts, frame) == [kind |-> "Legacy", ts |-> ts, frame |-> frame]

Ack == Frame(Net("tcp", 1, 2), 9, 80, {"ACK"}, 1, 2)
Dns == Frame(Net("udp", 1, 2), 9, 53, {}, None, 3)

MCFiles ==
  [c1 |-> [blocks |-> <<[kind |-> "LegacyHeader"], Legacy(1, Dns), Legacy(2, Ack), Legacy(3, Ack)>>,
           raised |-> <<[rule |-> "R1", session |-> 2]>>]]

AnySession == [protocol |-> None, ip |-> None, minBytes |-> None, minPackets |-> None]

Listing == [filter |-> AnySession, sortBy |-> "packets", limit |-> 0]

AnyPacket ==
  [srcIp |-> None, dstIp |-> None, srcPort |-> None, dstPort |-> None, protocol |-> "tcp",
   flags |-> {"ACK"}, from |-> 2, to |-> None, errorsOnly |-> FALSE]

MCRequests ==
  [get_conversations  |-> {Listing},
   reconstruct_stream |-> {[session |-> 2, dir |-> "c2s", limit |-> 9], [session |-> 1, dir |-> "c2s", limit |-> 9]},
   filter_packets     |-> {[filter |-> AnyPacket, limit |-> 9]},
   inspect_packets    |-> {{1, 7}},
   check_alerts       |-> {"R1"},
   query_history      |-> {[kind |-> "findings", limit |-> 9]}]

MCFewRequests == [get_conversations |-> {Listing}]

Cites(anchor, ref) == <<[anchor |-> anchor, ref |-> ref]>>

\* A finding on session 2, with its packet count, on whichever call listed it,
\* a submission of two findings, one a hypothesis for its number, around a draft
\* that must be refused.  A recovery reads one finding and one call of a task.
Finding(title, value) ==
  [title |-> title, basis |-> "direct_observation", evidence |-> Cites(1, <<"session", 2>>),
   claims |-> {[anchor |-> 1, field |-> <<2, "packets">>, value |-> value]}]

MCDrafts ==
  {<<Finding("x", 2)>>, <<Finding("x", 3), [Finding("y", 2) EXCEPT !.evidence = <<>>], Finding("y", 2)>>}

TaskRunSymmetry == Permutations(Tasks) \cup Permutations(Runs)

-----------------------------------------------------------------------------
(* The queries agree with each other on the instance's file.                *)

T1 == FileTables["c1"]

\* The packets between the ends of a session, found by address in the index,
\* are the packets counted in the session; a limit cuts the list short.
ASSUME IndexAgreesWithSessions ==
  \A n \in DOMAIN T1.sessions :
    LET e == T1.sessions[n]
        Between(src, dst) ==
          ToSet(FilterPackets(T1, [AnyPacket EXCEPT !.srcIp = src.ip, !.srcPort = src.port,
            !.dstIp = dst.ip, !.dstPort = dst.port, !.protocol = e.key.proto, !.flags = {},
            !.from = None], 9))
    IN  Cardinality(Between(e.key.a, e.key.b) \cup Between(e.key.b, e.key.a)) = e.packets

\* Every packet is in one row of its layer, and every session in the listing
\* once, the one with the most packets first.
ASSUME ListingsComplete ==
  /\ ProtocolStats([content |-> "c1"], [layer |-> "transport", top |-> 0]).numbers
       = (<<"tcp", "packets">> :> 2) @@ (<<"udp", "packets">> :> 1)
  /\ Conversations(T1, Listing) = <<2, 1>>
  /\ Conversations(T1, [Listing EXCEPT !.sortBy = "bytes", !.limit = 1]) = <<2>>
  /\ Conversations(T1, [Listing EXCEPT !.filter.protocol = "udp"]) = <<1>>
  /\ CaptureSummary([content |-> "c1", alerts |-> <<>>]).numbers[<<"packets">>] = 3

\* A result that repeats the ledger, or counts what a task has, cites it.
ASSUME CountsAgree ==
  LET store == [content |-> "c1", alerts |-> <<>>, findings |-> <<>>,
                ledger |-> Issue(EmptyLedger, 4, [task |-> 1])]
  IN  /\ History(store, [kind |-> "trace"]).refs = {<<"anchor", 4>>}
      /\ History(store, [kind |-> "sessions", listing |-> Listing]).numbers[<<"count">>]
           = Artifacts(store).numbers[<<"session_count">>]
      /\ History(store, [kind |-> "other"]) = None
=============================================================================
