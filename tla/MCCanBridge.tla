---------------------------- MODULE MCCanBridge ----------------------------
(* An instance of CanBridge for TLC. *)
EXTENDS CanBridge

NoList == [white |-> {}, black |-> {}]

MCKinds == {<<"udp", "udp">>, <<"udp", "loopback">>, <<"udp", "ixxat">>,
            <<"ixxat", "loopback">>}

MCLists == {NoList, [white |-> {1}, black |-> {1}], [white |-> {}, black |-> {1}]}

(* A peer whose datagrams are sound, and one that sends something else. *)
MCPeer == {[uid |-> <<0, 0>>, valid |-> TRUE], [uid |-> <<0, 0>>, valid |-> FALSE]}

(* The lists of one adapter, and an identifier of controller 1 that is     *)
(* read back as another one, where they make a difference.                 *)
MCInit ==
  /\ Init
  /\ m_uid \in {<< <<1, 0>>, <<1, 0>> >>, << <<1, 1>>, <<1, 0>> >>}
  /\ lists[1] = NoList
  /\ kind # <<"udp", "udp">> => lists[2] = NoList
  /\ "ixxat" \in {kind[1], kind[2]} => U!Readable(m_uid[1])

MCSpec == MCInit /\ [][Next]_vars /\ Fairness
=============================================================================
