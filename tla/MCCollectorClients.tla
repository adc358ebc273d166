-------------------------- MODULE MCCollectorClients --------------------------
(* Backend lists without TLS: up to two entries of any kind, or three of   *)
(* which one at most is a hostname; one backend with every combination of  *)
(* the TLS settings; both HTTP clients with all of them.                   *)
EXTENDS CollectorClients, TLC

Entries == Host \cup Ip \cup {Malformed}

MCBackends ==
  UNION {[1 .. n -> Entries] : n \in 0 .. 2}
  \cup {b \in [1 .. 3 -> Entries] : Cardinality({i \in 1 .. 3 : b[i] \in Host}) <= 1}

MCConfiguration ==
  [protocol : {"grpc"}, force : {FALSE}, paths : {{}}, trusted : {FALSE}, backends : MCBackends]
  \cup [protocol : {"grpc"}, force : BOOLEAN, paths : SUBSET PemFile, trusted : {FALSE},
        backends : [1 .. 1 -> V4]]
  \cup [protocol : {"http"}, force : BOOLEAN, paths : SUBSET PemFile, trusted : {FALSE},
        backends : {<<>>}]
  \cup [protocol : {"http_aio"}, force : BOOLEAN, paths : SUBSET PemFile, trusted : BOOLEAN,
        backends : {<<>>}]
=============================================================================
