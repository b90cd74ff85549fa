------------------------------ MODULE MCCodecs ------------------------------
(* An instance of Codecs for TLC: bytes of one bit, and what fits or does not. *)
EXTENDS Codecs, SequencesExt

SmallSockets(ip) == [name : {<< >>, <<1, 0>>}, ip : {ip}, port : {1, 4}]

SmallInfos == UNION {
  [nodeID : {<<1, 0>>}, infoID : {0, 9, 16}, name : {<<1>>, <<0, 0, 0, 1>>}, ip : {ip},
   topics : BoundedSeq(SmallSockets(ip), 2), services : BoundedSeq(SmallSockets(ip), 1)] :
  ip \in {<<0>>, <<1, 1, 0>>}}

SmallHeartbeats ==
  [zlc_version : {<<1, 0, 7>>, <<-8, 2, 0>>}, node_id : {<<1, 0>>}, info_id : {-1, 0, 7, 8},
   service_port : {0, 5}, group_name : {<<1>>, <<0, 1, 1>>}]
=============================================================================
