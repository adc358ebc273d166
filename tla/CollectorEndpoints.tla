-------------------------- MODULE CollectorEndpoints --------------------------
(***************************************************************************)
(* From SW_AGENT_COLLECTOR_BACKEND_SERVICES to the target and the default  *)
(* authority of the gRPC channel. An entry of the list is a hostname, an   *)
(* address of one of the two families, or text that cannot be parsed; the  *)
(* port is part of the entry.                                              *)
(***************************************************************************)
EXTENDS Integers, Sequences, FiniteSets, SequencesExt

CONSTANTS Host,  \* hostnames
          V4,    \* IPv4 addresses
          V6     \* IPv6 addresses

(* No entry is the None of Python.                                         *)
ASSUME FamiliesAssumption ==
  /\ Host \cap V4 = {} /\ Host \cap V6 = {} /\ V4 \cap V6 = {}
  /\ "none" \notin Host \cup V4 \cup V6

Ip == V4 \cup V6
Malformed == "malformed"
Raw == "raw"                  \* the configured text as it is
Placeholder == "localhost:1"  \* where nobody listens

(* A target: its resolver scheme and the endpoints as they are written.    *)
PlainTarget(e) == [resolver |-> "plain", at |-> <<[form |-> "as is", to |-> e]>>]

(* parse_backend_addresses: entries that cannot be parsed are skipped.     *)
Parsed(raw) ==
  FoldLeft(LAMBDA acc, e : IF e = Malformed THEN acc ELSE Append(acc, e), <<>>, raw)

(* What getaddrinfo may answer: addresses in any order, perhaps several    *)
(* times, or nothing (an error, five seconds without an answer).           *)
Answers == UNION {[1 .. n -> Ip] : n \in 0 .. 2}

(* What was seen before is skipped.                                        *)
WithNew(seq, more) ==
  FoldLeft(LAMBDA acc, x : IF Contains(acc, x) THEN acc ELSE Append(acc, x), seq, more)

(* _lookup_hostname                                                        *)
Lookup(answer) == WithNew(<<>>, answer)

(* What an entry stands for.                                               *)
Candidates(e, answer) == IF e \in Host THEN Lookup(answer) ELSE <<e>>

-----------------------------------------------------------------------------
(* Faulty variants for the mutation runs.                                  *)

AuthorityLast(authority, e, candidates) == IF candidates # <<>> THEN e ELSE authority

-----------------------------------------------------------------------------
(* The authority is the first entry that has an address.                   *)
AuthorityAfter(authority, e, candidates) ==
  IF authority = "none" /\ candidates # <<>> THEN e ELSE authority

(* The loop of prepare_grpc_channel_endpoints; answers[i] is what the      *)
(* lookup of the i-th entry gives.                                         *)
Expanded(addresses, answers) ==
  FoldLeft(LAMBDA acc, i :
             LET candidates == Candidates(addresses[i], answers[i])
             IN [encode |-> WithNew(acc.encode, candidates),
                 authority |-> AuthorityAfter(acc.authority, addresses[i], candidates)],
           [encode |-> <<>>, authority |-> "none"],
           [i \in DOMAIN addresses |-> i])

(* encode_sw_static_for_c_core: one family as it is, a mixed list through  *)
(* the ipv6 resolver with the IPv4 addresses mapped.                       *)
Encoded(ips) ==
  LET Written(ip) == CASE ip \in V6 -> "v6"
                       [] ip \in V4 /\ ToSet(ips) \subseteq V4 -> "v4"
                       [] OTHER -> "mapped"
  IN [resolver |-> IF ToSet(ips) \subseteq V4 THEN "ipv4" ELSE "ipv6",
      at |-> [i \in DOMAIN ips |-> [form |-> Written(ips[i]), to |-> ips[i]]]]

(* _resolve_channel_target_and_authority: a single entry is left to        *)
(* grpcio; without a usable one the first entry, without any entry the     *)
(* configured text, and without that the placeholder.                      *)
Resolved(raw, answers) ==
  LET addresses == Parsed(raw)
      x == Expanded(addresses, answers)
      Plain(e) == [target |-> PlainTarget(e), authority |-> e]
  IN CASE Len(addresses) > 1 /\ x.encode # <<>> ->
            [target |-> Encoded(x.encode), authority |-> x.authority]
       [] addresses # <<>> /\ (Len(addresses) = 1 \/ x.encode = <<>>) -> Plain(Head(addresses))
       [] addresses = <<>> /\ raw # <<>> -> Plain(Raw)
       [] OTHER -> Plain(Placeholder)

-----------------------------------------------------------------------------
(* The same said of the result: every address of every entry, each once    *)
(* and in a form its resolver takes. The authority is a configured entry,  *)
(* the first one if that has an address. A list that cannot be used is     *)
(* passed on: its first entry is the target and the authority.             *)
DialsUsable(raw, answers, r) ==
  LET addresses == Parsed(raw)
      AddressesOf(i) == IF addresses[i] \in Host THEN ToSet(answers[i]) ELSE {addresses[i]}
      usable == {i \in DOMAIN addresses : AddressesOf(i) # {}}
      dialled == r.target.at
      forms == {dialled[i].form : i \in DOMAIN dialled}
  IN IF Len(addresses) > 1 /\ usable # {}
     THEN /\ {dialled[i].to : i \in DOMAIN dialled} = UNION {AddressesOf(i) : i \in usable}
          /\ \A i, j \in DOMAIN dialled : i # j => dialled[i].to # dialled[j].to
          /\ forms \subseteq (IF r.target.resolver = "ipv4" THEN {"v4"} ELSE {"v6", "mapped"})
          /\ r.authority \in ToSet(addresses)
          /\ 1 \in usable => r.authority = addresses[1]
     ELSE /\ Len(dialled) = 1 /\ r.authority = dialled[1].to
          /\ addresses # <<>> => r.authority = addresses[1]
=============================================================================
