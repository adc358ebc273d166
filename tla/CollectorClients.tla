--------------------------- MODULE CollectorClients ---------------------------
(***************************************************************************)
(* How the clients of the collector are built: the PEM files are read, the *)
(* TLS material is decided, and a gRPC channel, a requests session or an   *)
(* aiohttp session is set up with it, in a process that may fork and exit. *)
(* requests and ssl want paths, so the PEM texts are kept in temporary     *)
(* files that belong to one process. Meanwhile somebody rotates, breaks or *)
(* deletes the configured files, temporary files cannot be written, and    *)
(* the TLS libraries refuse what they are given.                           *)
(***************************************************************************)
EXTENDS CollectorEndpoints

CONSTANTS Proc,          \* processes
          First,         \* the one that is started
          Configuration, \* configurations of the agent
          MaxChanges,    \* bound: changes of the configured files
          MaxClients     \* bound: sessions at a time

PemFile == {"ca", "cert", "key"}
Version == {"v1", "v2"}       \* a readable PEM; cert and key match by version
Content == Version \cup {"bad", "absent"}

(* The CA bundle holds TRUSTED CERTIFICATE blocks or not.                  *)
ASSUME ClientsAssumption ==
  /\ First \in Proc /\ MaxChanges \in Nat /\ MaxClients \in Nat
  /\ \A c \in Configuration :
       /\ c.protocol \in {"grpc", "http", "http_aio"}
       /\ c.force \in BOOLEAN /\ c.trusted \in BOOLEAN /\ c.paths \subseteq PemFile
       /\ c.backends \in Seq(Host \cup Ip \cup {Malformed})

VARIABLES
  conf,       \* the configuration
  disk,       \* content of the configured PEM files
  changes,    \* number of changes so far
  temps,      \* temporary files on disk: [id, data]
  proc,       \* the processes
  clients,    \* clients that were built in processes that still run
  published   \* history: temporary files that ever were in a cache

tlsVars == <<conf, disk, changes, temps, proc, clients, published>>

None == "none"
NoPair == <<>>                \* no client certificate

(***************************************************************************)
(* The thread that builds a client. Material: "plain" for none at all, the *)
(* version of the CA, the certificate that was read and the identity made  *)
(* of it. Set up so far: the way the collector is verified and the file    *)
(* used for that, the files of the identity. Histories: failed library     *)
(* calls, whether the CA that was loaded is not what the collector is      *)
(* verified with, whether an exception came from where none is expected,   *)
(* and the DNS answers.                                                    *)
(***************************************************************************)
Idle == [pc |-> "idle", plain |-> FALSE, root |-> None, cert |-> None, id |-> NoPair,
         verify |-> "system", ca |-> None, files |-> <<>>, fails |-> 0, lostCa |-> FALSE,
         raised |-> FALSE, answers |-> <<>>, dial |-> None]

(* A process: _mtls_temp_files and the two caches of paths; how many files *)
(* it has written, which makes their names.                                *)
NoCache == [data |-> NoPair, files |-> <<>>]
NewProcess == [up |-> TRUE, files |-> {}, written |-> 0, mtls |-> NoCache, ca |-> NoCache, job |-> Idle]

Init ==
  /\ conf \in Configuration
  /\ disk = [f \in PemFile |-> "v1"] /\ changes = 0
  /\ temps = {} /\ clients = {} /\ published = {}
  /\ proc = [p \in Proc |-> [NewProcess EXCEPT !.up = p = First]]

Job(p) == proc[p].job
At(p, pc) == proc[p].up /\ Job(p).pc = pc

(* The thread goes on without touching temporary files.                    *)
Goes(p, job) ==
  /\ proc' = [proc EXCEPT ![p].job = job]
  /\ UNCHANGED <<conf, disk, changes, temps, clients, published>>

ClientsOf(p) == {c \in clients : c.proc = p}

(* The client is ready; kind says what it is.                              *)
Built(p, kind, job) ==
  /\ clients' = clients \cup {[proc |-> p, no |-> Cardinality(ClientsOf(p)), kind |-> kind,
                               by |-> [job EXCEPT !.pc = "done", !.cert = None]]}
  /\ proc' = [proc EXCEPT ![p].job = Idle]
  /\ UNCHANGED <<conf, disk, changes, temps, published>>

(* Whatever goes wrong with a channel: an insecure one to localhost:1, the *)
(* authority unchanged.                                                    *)
PlaceholderChannel(p) ==
  Built(p, "placeholder", [Job(p) EXCEPT !.id = NoPair, !.dial.target = PlainTarget(Placeholder)])

(* _aiohttp_session without an SSLContext: the URLs are https:// all the   *)
(* same, and aiohttp verifies the collector with its default context.      *)
DefaultContext(p, job) ==
  Built(p, "tls", [job EXCEPT !.id = NoPair, !.verify = "default", !.fails = 1])

-----------------------------------------------------------------------------
(* Faulty variants for the mutation runs.                                  *)

ForkedAll(p) == proc[p]
MatchesAny(cert, key) == cert \in Version /\ key \in Version
NoTlsWithoutCa(ca) == ca = None

-----------------------------------------------------------------------------
(* tls_pem_material                                                        *)

Exists(f) == f \in conf.paths /\ disk[f] # "absent"

(* _load_trusted_ca reads and parses; what fails leaves no CA.             *)
LoadedCa == IF Exists("ca") /\ disk["ca"] \in Version THEN disk["ca"] ELSE None

(* A channel, one for the process, starts with its backends; each of the   *)
(* sessions starts with the CA.                                            *)
BeginClient(p) ==
  /\ At(p, "idle")
  /\ IF conf.protocol = "grpc" THEN ClientsOf(p) = {}
     ELSE Cardinality(clients) + Cardinality({q \in Proc : Job(q).pc \notin {"idle", "gone"}}) < MaxClients
  /\ LET entries == Parsed(conf.backends)
         hosts == {i \in DOMAIN entries : entries[i] \in Host}
     IN IF conf.protocol = "grpc"
        THEN \E answers \in [hosts -> Answers] :
               Goes(p, [Idle EXCEPT !.pc = "ca", !.answers = answers,
                                    !.dial = Resolved(conf.backends, answers)])
        ELSE Goes(p, [Idle EXCEPT !.pc = "ca"])

NoTls(ca) == ~conf.force /\ ca = None

(* A usable CA and both paths are needed for an identity.                  *)
ReadCa(p) ==
  /\ At(p, "ca")
  /\ Goes(p, [Job(p) EXCEPT
       !.root = LoadedCa,
       !.plain = NoTls(LoadedCa),
       !.pc = IF LoadedCa # None /\ {"cert", "key"} \subseteq conf.paths THEN "cert" ELSE "build"])

ReadCert(p) ==
  /\ At(p, "cert")
  /\ Goes(p, [Job(p) EXCEPT !.cert = disk["cert"],
                            !.pc = IF Exists("cert") THEN "key" ELSE "build"])

(* _validate_client_cert_key: OpenSSL loads the two together.              *)
Matches(cert, key) == cert \in Version /\ cert = key

(* The validation needs temporary files too, which may fail.               *)
ReadKey(p) ==
  /\ At(p, "key")
  /\ \E io \in BOOLEAN :
       Goes(p, [Job(p) EXCEPT
         !.pc = "build",
         !.id = IF io /\ Exists("key") /\ Matches(Job(p).cert, disk["key"])
                THEN <<Job(p).cert, disk["key"]>> ELSE NoPair])

(* Any other exception: safe_tls_pem_material gives system trust or none;  *)
(* a gRPC channel ends as the placeholder.                                 *)
MaterialRaises(p) ==
  /\ At(p, "ca") \/ At(p, "cert") \/ At(p, "key")
  /\ IF conf.protocol = "grpc"
     THEN PlaceholderChannel(p)
     ELSE Goes(p, [Idle EXCEPT !.pc = "build", !.plain = ~conf.force])

-----------------------------------------------------------------------------
(* grpc_ssl_credentials and the channel: an identity is given up first,    *)
(* then the CA if FORCE_TLS is set, then TLS.                              *)

GrpcPlain(p) ==
  /\ At(p, "build") /\ conf.protocol = "grpc" /\ Job(p).plain
  /\ Built(p, "plain", Job(p)) \/ PlaceholderChannel(p)

GrpcSecure(p) ==
  /\ At(p, "build") /\ conf.protocol = "grpc" /\ ~Job(p).plain
  /\ LET job == Job(p)
         full == [job EXCEPT !.verify = IF job.root = None THEN "system" ELSE "memory"]
     IN \/ Built(p, "tls", full)
        \/ /\ job.id # NoPair
           /\ \/ Built(p, "tls", [full EXCEPT !.id = NoPair, !.fails = 1])
              \/ Built(p, "plain", [full EXCEPT !.id = NoPair, !.fails = 2])
        \/ /\ job.id = NoPair /\ conf.force
           /\ \/ Built(p, "tls", [job EXCEPT !.root = None, !.fails = 1])
              \/ Built(p, "plain", [job EXCEPT !.fails = 2])
        \/ /\ job.id = NoPair /\ ~conf.force
           /\ Built(p, "plain", [job EXCEPT !.fails = 1])
        \/ PlaceholderChannel(p)   \* the channel itself cannot be made

-----------------------------------------------------------------------------
(* Temporary files                                                         *)

(* _pem_bytes_to_temp_file: written as a whole and listed, or not there.   *)
NewName(p) == <<p, proc[p].written + 1>>
Written(p, data, process) ==
  /\ temps' = temps \cup {[id |-> NewName(p), data |-> data]}
  /\ proc' = [proc EXCEPT ![p] = [process EXCEPT !.files = @ \cup {NewName(p)}, !.written = @ + 1]]
  /\ UNCHANGED <<conf, disk, changes, clients>>

OnDisk(ids) == ids \subseteq {f.id : f \in temps}
Unlinked(ids) == {f \in temps : f.id \notin ids}

(* The session of a plaintext collector.                                   *)
SessionPlain(p) ==
  /\ At(p, "build") /\ conf.protocol # "grpc" /\ Job(p).plain
  /\ Built(p, "plain", Job(p))

(* requests always takes the CA from a file. An SSLContext takes it from   *)
(* memory, unless it has TRUSTED CERTIFICATE blocks or that fails.         *)
SessionBegin(p) ==
  /\ At(p, "build") /\ conf.protocol # "grpc" /\ ~Job(p).plain
  /\ \/ Job(p).root = None /\ Goes(p, [Job(p) EXCEPT !.pc = "identity"])
     \/ Job(p).root # None /\ Goes(p, [Job(p) EXCEPT !.pc = "ca file"])
     \/ /\ Job(p).root # None /\ conf.protocol = "http_aio" /\ ~conf.trusted
        /\ Goes(p, [Job(p) EXCEPT !.pc = "identity", !.verify = "memory"])
     \/ /\ Job(p).root = None /\ conf.protocol = "http_aio"  \* the trust store cannot be loaded
        /\ DefaultContext(p, Job(p))

(* _ca_verify_temp_file finds the snapshot of this CA or writes it.        *)
CaCached(p) ==
  LET c == proc[p].ca IN c.data = <<Job(p).root>> /\ OnDisk(ToSet(c.files))

CaFile(p) ==
  /\ At(p, "ca file")
  /\ LET job == [Job(p) EXCEPT !.pc = IF conf.protocol = "http" THEN "identity" ELSE "load",
                               !.verify = "temp"]
     IN \/ CaCached(p) /\ Goes(p, [job EXCEPT !.ca = proc[p].ca.files[1]])
        \/ /\ ~CaCached(p)
           /\ Written(p, Job(p).root,
                [proc[p] EXCEPT !.ca = [data |-> <<Job(p).root>>, files |-> <<NewName(p)>>],
                                !.job = [job EXCEPT !.ca = NewName(p)]])
           /\ published' = published \cup {NewName(p)}

(* An SSLContext is made of the snapshot.                                  *)
CaLoads(p) == At(p, "load") /\ Goes(p, [Job(p) EXCEPT !.pc = "identity"])

(* The snapshot cannot be written or loaded: the configured path takes its *)
(* place if there still is a file, which requests does not look into and   *)
(* an SSLContext may refuse too. Without the CA an SSLContext is made of   *)
(* the process trust store if FORCE_TLS is set and that can be loaded;     *)
(* otherwise there is none.                                                *)
CaFileFails(p) ==
  /\ (At(p, "ca file") /\ ~CaCached(p)) \/ At(p, "load")
  /\ LET job == [Job(p) EXCEPT !.pc = "identity", !.verify = "system", !.ca = None, !.fails = 1]
         lost == [job EXCEPT !.lostCa = TRUE]
     IN \/ /\ Exists("ca") /\ (conf.protocol = "http" \/ disk["ca"] \in Version)
           /\ Goes(p, [job EXCEPT !.verify = "path"])
        \/ ~Exists("ca") /\ conf.protocol = "http" /\ Goes(p, lost)
        \/ /\ conf.protocol = "http_aio"
           /\ \/ conf.force /\ Goes(p, [lost EXCEPT !.id = NoPair])
              \/ DefaultContext(p, lost)

(* An exception that is no OSError: configure_requests_session keeps the   *)
(* configured CA when it can, and no identity.                             *)
SessionRaises(p) ==
  /\ conf.protocol = "http" /\ (At(p, "ca file") \/ At(p, "identity") \/ At(p, "key file"))
  /\ Built(p, "tls", [Job(p) EXCEPT !.id = NoPair, !.files = <<>>, !.ca = None, !.raised = TRUE,
                        !.lostCa = Job(p).root # None /\ ~Exists("ca"),
                        !.verify = IF Exists("ca") THEN "path" ELSE "system"])

-----------------------------------------------------------------------------
(* _mtls_cert_key_files                                                    *)

IdentityCached(p) == proc[p].mtls.data = Job(p).id

(* Nothing to present, or the files are there; an SSLContext may refuse    *)
(* to load them.                                                           *)
Identity(p) ==
  /\ At(p, "identity")
  /\ \/ Job(p).id = NoPair /\ Built(p, "tls", Job(p))
     \/ /\ Job(p).id # NoPair /\ IdentityCached(p)
        /\ \/ Built(p, "tls", [Job(p) EXCEPT !.files = proc[p].mtls.files])
           \/ /\ conf.protocol = "http_aio"
              /\ Built(p, "tls", [Job(p) EXCEPT !.id = NoPair, !.files = <<>>])

CertFile(p) ==
  /\ At(p, "identity") /\ Job(p).id # NoPair /\ ~IdentityCached(p)
  /\ \/ /\ Written(p, Job(p).id[1], [proc[p] EXCEPT !.job.pc = "key file", !.job.files = <<NewName(p)>>])
        /\ UNCHANGED published
     \/ Built(p, "tls", [Job(p) EXCEPT !.id = NoPair])

KeyFile(p) ==
  /\ At(p, "key file")
  /\ LET pair == Append(Job(p).files, NewName(p))
     IN /\ Written(p, Job(p).id[2], [proc[p] EXCEPT !.mtls = [data |-> Job(p).id, files |-> pair],
                                                    !.job.pc = "identity"])
        /\ published' = published \cup ToSet(pair)

(* _discard_mtls_temp_path                                                 *)
Discard(p, ids) ==
  /\ temps' = Unlinked(ids)
  /\ proc' = [proc EXCEPT ![p].files = @ \ ids,
                          ![p].job = [@ EXCEPT !.pc = "identity", !.id = NoPair, !.files = <<>>]]

KeyFileFails(p) ==
  /\ At(p, "key file")
  /\ Discard(p, ToSet(Job(p).files))
  /\ UNCHANGED <<conf, disk, changes, clients, published>>

-----------------------------------------------------------------------------
(* Processes and the files that are configured                             *)

(* _after_fork_in_child: the list and the caches are left to the parent.   *)
Forked(p) == NewProcess

Fork(p, q) ==
  /\ proc[p].up /\ q # First /\ proc[q] = [NewProcess EXCEPT !.up = FALSE]
  /\ proc' = [proc EXCEPT ![q] = [Forked(p) EXCEPT !.job = Idle]]
  /\ UNCHANGED <<conf, disk, changes, temps, clients, published>>

(* atexit: _cleanup_mtls_temp_files                                        *)
Exit(p) ==
  /\ At(p, "idle")
  /\ temps' = Unlinked(proc[p].files)
  /\ proc' = [proc EXCEPT ![p] = [NewProcess EXCEPT !.up = FALSE, !.job.pc = "gone"]]
  /\ clients' = {c \in clients : c.proc # p}
  /\ published' = {f \in published : f[1] # p}
  /\ UNCHANGED <<conf, disk, changes>>

Change(f, content) ==
  /\ changes < MaxChanges /\ f \in conf.paths /\ disk[f] # content
  /\ disk' = [disk EXCEPT ![f] = content]
  /\ changes' = changes + 1
  /\ UNCHANGED <<conf, temps, proc, clients, published>>

Next ==
  \/ \E p \in Proc :
       \/ BeginClient(p) \/ ReadCa(p) \/ ReadCert(p) \/ ReadKey(p) \/ MaterialRaises(p)
       \/ GrpcPlain(p) \/ GrpcSecure(p)
       \/ SessionPlain(p) \/ SessionBegin(p) \/ CaFile(p) \/ CaLoads(p) \/ CaFileFails(p)
       \/ SessionRaises(p)
       \/ Identity(p) \/ CertFile(p) \/ KeyFile(p) \/ KeyFileFails(p)
       \/ Exit(p) \/ \E q \in Proc : Fork(p, q)
  \/ \E f \in PemFile, content \in Content : Change(f, content)

Spec == Init /\ [][Next]_tlsVars

-----------------------------------------------------------------------------
(* Properties.                                                             *)

(* Every temporary file with a key or a certificate has an owner. The ones *)
(* behind a session stay, with the text they were made for, as long as its *)
(* process runs, whatever forked children write and clean up; and none     *)
(* lies about: each is on the list of a running process, which removes it  *)
(* at exit, and each is or was in use: the certificate of a pair whose key *)
(* could not be written is gone at once. Only a process that met an        *)
(* exception other than OSError while it set up a requests session may     *)
(* keep such a certificate until it exits.                                 *)
TempsOwned ==
  /\ \A c \in clients :
       /\ c.by.verify = "temp" => [id |-> c.by.ca, data |-> c.by.root] \in temps
       /\ \A i \in DOMAIN c.by.files : [id |-> c.by.files[i], data |-> c.by.id[i]] \in temps
  /\ \A f \in temps : \E p \in Proc : proc[p].up /\ f.id \in proc[p].files
  /\ \A p \in Proc : (\A c \in ClientsOf(p) : ~c.by.raised) =>
       {f \in proc[p].files : f[1] = p} \subseteq published \cup ToSet(Job(p).files)

ByCustomCa == {"memory", "temp", "path"}

(* Over every rotation between two reads and every failure: an identity is *)
(* a certificate and a key of the same version, it goes with a TLS client  *)
(* for which a custom CA was loaded, and is presented to a collector that  *)
(* is verified with that CA. The one exception is a requests session whose *)
(* CA snapshot could not be written and whose CA file went away meanwhile: *)
(* it keeps its identity under the process trust store.                    *)
IdentityUnderCa ==
  \A c \in clients : c.by.id # NoPair =>
    /\ c.kind = "tls" /\ c.by.id[1] = c.by.id[2] /\ c.by.root # None
    /\ c.by.verify \in ByCustomCa \/ (conf.protocol = "http" /\ c.by.lostCa)

(* Without a failure of the TLS library a client is plaintext only when    *)
(* FORCE_TLS is off and no CA was loaded: missing, rotated or broken       *)
(* client certificates and keys, and temporary files that cannot be        *)
(* written, never cost the encryption. An exception that the reading of    *)
(* the files does not expect counts as no CA. When plaintext may follow a  *)
(* failure of the library is left open: the code and the documents         *)
(* disagree there.                                                         *)
PlaintextHasCause ==
  \A c \in clients : c.kind = "plain" /\ c.by.fails = 0 => ~conf.force /\ c.by.root = None

(* A channel that could be made dials every usable address of the          *)
(* configured backends once, in a form its resolver accepts; a single      *)
(* backend, and a list in which DNS finds nothing usable, are left to      *)
(* grpcio with the first entry as the target. Of the entries that can be   *)
(* parsed the authority is one, and the first of them whenever that can be *)
(* dialled or none can. A placeholder channel dials localhost:1.           *)
BackendsDialled ==
  \A c \in clients : conf.protocol = "grpc" /\ c.kind # "placeholder" =>
    DialsUsable(conf.backends, c.by.answers, c.by.dial)

(* Not true of this code, see the README:                                  *)
(* "it does not silently fall back to the system trust store".             *)
SystemTrustOnlyForced ==
  \A c \in clients : c.kind = "tls" /\ c.by.verify \notin ByCustomCa => conf.force

(* Not true of this code, see the README:                                  *)
(* ":authority ... the first configured endpoint".                         *)
AuthorityIsFirstConfigured ==
  \A c \in clients : conf.protocol = "grpc" /\ Parsed(conf.backends) # <<>> =>
    c.by.dial.authority = Head(Parsed(conf.backends))
=============================================================================
