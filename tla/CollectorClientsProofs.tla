------------------------ MODULE CollectorClientsProofs -----------------------
(***************************************************************************)
(* Proofs about CollectorClients, for every set of processes and           *)
(* configurations and every number of changes and clients.                 *)
(***************************************************************************)
EXTENDS CollectorClients, SequenceTheorems, WellFoundedInduction, NaturalsInduction, TLAPS

JobField == {"pc", "plain", "root", "cert", "id", "verify", "ca", "files", "fails", "lostCa",
             "raised", "answers", "dial"}
ProcField == {"up", "files", "written", "mtls", "ca", "job"}

(* The records have these fields, whatever they hold.                      *)
Shapes ==
  /\ DOMAIN proc = Proc
  /\ \A p \in Proc : DOMAIN proc[p] = ProcField /\ DOMAIN proc[p].job = JobField

(***************************************************************************)
(* What a thread that builds a client knows at each of its steps: TLS is   *)
(* given up only without FORCE_TLS and without a CA, an identity goes with *)
(* a CA, and a session with an identity is verified with the CA, unless    *)
(* requests lost it.                                                       *)
(***************************************************************************)
SessionPc == {"ca file", "load", "identity", "key file"}

Verified(j, cf) == j.verify \in ByCustomCa \/ (cf.protocol = "http" /\ j.lostCa)

JobOK(j, cf) ==
  /\ j.plain => ~cf.force /\ j.root = None
  /\ j.id # NoPair => j.id[1] = j.id[2] /\ j.root # None
  /\ j.pc \in {"cert", "key", "ca file", "load"} => j.root # None
  /\ j.pc \in {"ca", "cert", "key"} => j.id = NoPair
  /\ j.pc = "load" => j.verify = "temp"
  /\ j.pc \in {"identity", "key file"} /\ j.id # NoPair => Verified(j, cf)

ClientOK(kind, j, cf) ==
  /\ j.id # NoPair => kind = "tls" /\ j.id[1] = j.id[2] /\ j.root # None /\ Verified(j, cf)
  /\ kind = "plain" /\ j.fails = 0 => ~cf.force /\ j.root = None

TrustInv ==
  /\ conf \in Configuration
  /\ Shapes
  /\ \A p \in Proc : JobOK(proc[p].job, conf)
  /\ \A c \in clients : ClientOK(c.kind, c.by, conf)

-----------------------------------------------------------------------------

LEMMA IdleOK == DOMAIN Idle = JobField /\ JobOK(Idle, conf) /\ Idle.plain = FALSE /\ Idle.root = None
                /\ Idle.id = NoPair /\ Idle.pc = "idle" /\ Idle.verify = "system" /\ Idle.fails = 0
                /\ Idle.files = <<>>
BY SMT DEF Idle, JobField, JobOK

LEMMA TrustInit == Init => TrustInv
<1>1. SUFFICES ASSUME Init PROVE TrustInv
  OBVIOUS
<1>2. DOMAIN NewProcess = ProcField /\ NewProcess.job = Idle
  BY DEF NewProcess, ProcField
<1>3. \A p \in Proc : proc[p] = [NewProcess EXCEPT !.up = p = First]
  BY <1>1 DEF Init
<1>4. \A p \in Proc : DOMAIN proc[p] = ProcField /\ proc[p].job = Idle
  BY <1>2, <1>3 DEF ProcField
<1> QED
  BY <1>1, <1>4, IdleOK DEF Init, TrustInv, Shapes

(* The thread goes on with a job that is in order.                         *)
LEMMA GoesTrust ==
  ASSUME TrustInv, NEW p \in Proc, NEW job, Goes(p, job), DOMAIN job = JobField, JobOK(job, conf)
  PROVE  TrustInv'
<1>1. conf' = conf /\ clients' = clients /\ DOMAIN proc' = Proc
  BY DEF Goes, TrustInv, Shapes
<1>2. /\ DOMAIN proc'[p] = ProcField /\ proc'[p].job = job
      /\ \A q \in Proc : q # p => proc'[q] = proc[q]
  BY DEF Goes, TrustInv, Shapes, ProcField
<1>3. JobOK(job, conf)'
  BY <1>1
<1>4. \A q \in Proc : JobOK(proc[q].job, conf)'
  BY <1>1, <1>2, <1>3 DEF TrustInv
<1>5. \A c \in clients' : ClientOK(c.kind, c.by, conf)'
  BY <1>1 DEF TrustInv
<1>6. Shapes'
  BY <1>1, <1>2 DEF Shapes, TrustInv
<1> QED
  BY <1>1, <1>4, <1>5, <1>6 DEF TrustInv

(* A client is built of a job that warrants it.                            *)
LEMMA BuiltTrust ==
  ASSUME TrustInv, NEW p \in Proc, NEW kind, NEW job, Built(p, kind, job), DOMAIN job = JobField,
         ClientOK(kind, job, conf)
  PROVE  TrustInv'
<1> DEFINE by == [job EXCEPT !.pc = "done", !.cert = None]
           new == [proc |-> p, no |-> Cardinality(ClientsOf(p)), kind |-> kind, by |-> by]
<1>1. conf' = conf /\ clients' = clients \cup {new} /\ DOMAIN proc' = Proc
  BY DEF Built, TrustInv, Shapes
<1>2. /\ DOMAIN proc'[p] = ProcField /\ proc'[p].job = Idle
      /\ \A q \in Proc : q # p => proc'[q] = proc[q]
  BY DEF Built, TrustInv, Shapes, ProcField
<1>3. by.id = job.id /\ by.root = job.root /\ by.verify = job.verify /\ by.lostCa = job.lostCa
      /\ by.fails = job.fails
  BY DEF JobField
<1>4. new.kind = kind /\ new.by = by
  OBVIOUS
<1> HIDE DEF by, new
<1>5. ClientOK(new.kind, new.by, conf')
  BY <1>1, <1>3, <1>4 DEF ClientOK, Verified
<1>6. \A c \in clients' : ClientOK(c.kind, c.by, conf')
  BY <1>1, <1>5 DEF TrustInv
<1>7. JobOK(Idle, conf)'
  BY IdleOK, <1>1
<1>8. \A q \in Proc : JobOK(proc[q].job, conf)'
  BY <1>1, <1>2, <1>7 DEF TrustInv
<1>9. Shapes'
  BY <1>1, <1>2, IdleOK DEF Shapes, TrustInv
<1> QED
  BY <1>1, <1>6, <1>8, <1>9 DEF TrustInv

(* The thread's process is replaced as a whole, by one whose job is in     *)
(* order; clients may go.                                                  *)
LEMMA ReplacedTrust ==
  ASSUME TrustInv, NEW p \in Proc, NEW process, proc' = [proc EXCEPT ![p] = process],
         DOMAIN process = ProcField, DOMAIN process.job = JobField, JobOK(process.job, conf),
         conf' = conf, clients' \subseteq clients
  PROVE  TrustInv'
<1>2. /\ proc'[p] = process /\ DOMAIN proc' = Proc
      /\ \A q \in Proc : q # p => proc'[q] = proc[q]
  BY DEF TrustInv, Shapes
<1>3. JobOK(process.job, conf)'
  OBVIOUS
<1>4. \A q \in Proc : JobOK(proc[q].job, conf)'
  BY <1>2, <1>3 DEF TrustInv
<1>5. \A c \in clients' : ClientOK(c.kind, c.by, conf)'
  BY DEF TrustInv
<1>6. Shapes'
  BY <1>2 DEF Shapes, TrustInv
<1> QED
  BY <1>4, <1>5, <1>6 DEF TrustInv

(* What the thread of a process may rely on.                               *)
LEMMA JobFacts ==
  ASSUME TrustInv, NEW p \in Proc
  PROVE  /\ DOMAIN Job(p) = JobField /\ JobOK(Job(p), conf)
         /\ conf.force \in BOOLEAN /\ conf.protocol \in {"grpc", "http", "http_aio"}
BY ClientsAssumption DEF TrustInv, Shapes, Job

(* A placeholder channel has no identity, nor has aiohttp's own context.   *)
LEMMA PlaceholderTrust == ASSUME TrustInv, NEW p \in Proc, PlaceholderChannel(p) PROVE TrustInv'
<1>1. PICK dial : Built(p, "placeholder", [Job(p) EXCEPT !.id = NoPair, !.dial = dial])
  BY DEF PlaceholderChannel
<1>2. PICK job : job = [Job(p) EXCEPT !.id = NoPair, !.dial = dial]
  OBVIOUS
<1>3. DOMAIN job = JobField /\ job.id = NoPair
  BY <1>2, JobFacts DEF JobField
<1>4. ClientOK("placeholder", job, conf)
  BY <1>3 DEF ClientOK
<1> QED BY <1>1, <1>2, <1>3, <1>4, BuiltTrust

LEMMA DefaultTrust ==
  ASSUME TrustInv, NEW p \in Proc, NEW old, DOMAIN old = JobField, DefaultContext(p, old)
  PROVE  TrustInv'
<1>1. PICK job : job = [old EXCEPT !.id = NoPair, !.verify = "default", !.fails = 1]
  OBVIOUS
<1>2. DOMAIN job = JobField /\ job.id = NoPair
  BY <1>1 DEF JobField
<1>3. ClientOK("tls", job, conf)
  BY <1>2 DEF ClientOK
<1>4. Built(p, "tls", job)
  BY <1>1 DEF DefaultContext
<1> QED BY <1>2, <1>3, <1>4, BuiltTrust

LEMMA BeginClientTrust == ASSUME TrustInv, NEW p \in Proc, BeginClient(p) PROVE TrustInv'
<1>1. CASE conf.protocol = "grpc"
  <2>1. PICK answers, dial : Goes(p, [Idle EXCEPT !.pc = "ca", !.answers = answers, !.dial = dial])
    BY <1>1 DEF BeginClient
  <2> DEFINE job == [Idle EXCEPT !.pc = "ca", !.answers = answers, !.dial = dial]
  <2>2. DOMAIN job = JobField /\ JobOK(job, conf)
    BY IdleOK, SMT DEF JobOK, SessionPc, Verified, ByCustomCa, JobField
  <2> QED BY <2>1, <2>2, GoesTrust
<1>2. CASE conf.protocol # "grpc"
  <2> DEFINE job == [Idle EXCEPT !.pc = "ca"]
  <2>1. Goes(p, job)
    BY <1>2 DEF BeginClient
  <2>2. DOMAIN job = JobField /\ JobOK(job, conf)
    BY IdleOK, SMT DEF JobOK, SessionPc, Verified, ByCustomCa, JobField
  <2> QED BY <2>1, <2>2, GoesTrust
<1> QED BY <1>1, <1>2

LEMMA ReadTrust ==
  ASSUME TrustInv, NEW p \in Proc, ReadCa(p) \/ ReadCert(p) \/ ReadKey(p) PROVE TrustInv'
<1>0. /\ DOMAIN Job(p) = JobField /\ JobOK(Job(p), conf)
      /\ conf.force \in BOOLEAN
  BY JobFacts
<1>1. CASE ReadCa(p)
  <2> DEFINE to == IF LoadedCa # None /\ {"cert", "key"} \subseteq conf.paths THEN "cert" ELSE "build"
             none == NoTls(LoadedCa)
             ca == LoadedCa
             job == [Job(p) EXCEPT !.root = ca, !.plain = none, !.pc = to]
  <2>1. Goes(p, job) /\ Job(p).pc = "ca"
    BY <1>1 DEF ReadCa, At
  <2>2. /\ to = "cert" => ca # None
        /\ to \in {"cert", "build"}
        /\ none = (~conf.force /\ ca = None)
    BY DEF NoTls
  <2> HIDE DEF to, none, ca
  <2>3. /\ DOMAIN job = JobField /\ job.root = ca /\ job.plain = none /\ job.pc = to
        /\ job.id = Job(p).id
    BY <1>0 DEF JobField
  <2> HIDE DEF job
  <2>4. JobOK(job, conf)
    BY <1>0, <2>1, <2>2, <2>3 DEF JobOK, SessionPc, Verified, ByCustomCa
  <2> QED BY <2>1, <2>3, <2>4, GoesTrust
<1>2. CASE ReadCert(p)
  <2> DEFINE to == IF Exists("cert") THEN "key" ELSE "build"
             job == [Job(p) EXCEPT !.cert = disk["cert"], !.pc = to]
  <2>1. Goes(p, job) /\ Job(p).pc = "cert" /\ to \in {"key", "build"}
    BY <1>2 DEF ReadCert, At
  <2> HIDE DEF to
  <2>2. /\ DOMAIN job = JobField /\ job.root = Job(p).root /\ job.plain = Job(p).plain
        /\ job.id = Job(p).id /\ job.pc = to
    BY <1>0 DEF JobField
  <2> HIDE DEF job
  <2>3. JobOK(job, conf)
    BY <1>0, <2>1, <2>2 DEF JobOK, SessionPc, Verified, ByCustomCa
  <2> QED BY <2>1, <2>2, <2>3, GoesTrust
<1>3. CASE ReadKey(p)
  <2>1. PICK id : /\ Goes(p, [Job(p) EXCEPT !.pc = "build", !.id = id])
                  /\ id # NoPair => id[1] = id[2]
    <3>1. PICK io \in BOOLEAN : Goes(p, [Job(p) EXCEPT !.pc = "build",
             !.id = IF io /\ Exists("key") /\ Matches(Job(p).cert, disk["key"])
                    THEN <<Job(p).cert, disk["key"]>> ELSE NoPair])
      BY <1>3 DEF ReadKey
    <3> DEFINE id == IF io /\ Exists("key") /\ Matches(Job(p).cert, disk["key"])
                     THEN <<Job(p).cert, disk["key"]>> ELSE NoPair
    <3>2. id # NoPair => id[1] = id[2]
      BY DEF Matches
    <3> QED BY <3>1, <3>2
  <2> DEFINE job == [Job(p) EXCEPT !.pc = "build", !.id = id]
  <2>2. Job(p).pc = "key"
    BY <1>3 DEF ReadKey, At
  <2>3. DOMAIN job = JobField /\ JobOK(job, conf)
    BY <1>0, <2>1, <2>2, SMT DEF JobOK, SessionPc, Verified, ByCustomCa, JobField
  <2> QED BY <2>1, <2>3, GoesTrust
<1> QED BY <1>1, <1>2, <1>3

LEMMA MaterialRaisesTrust == ASSUME TrustInv, NEW p \in Proc, MaterialRaises(p) PROVE TrustInv'
<1>0. /\ DOMAIN Job(p) = JobField /\ JobOK(Job(p), conf)
      /\ conf.force \in BOOLEAN
  BY JobFacts
<1>1. CASE conf.protocol = "grpc"
  BY <1>1, PlaceholderTrust DEF MaterialRaises
<1>2. CASE conf.protocol # "grpc"
  <2> DEFINE job == [Idle EXCEPT !.pc = "build", !.plain = ~conf.force]
  <2>1. Goes(p, job)
    BY <1>2 DEF MaterialRaises
  <2>2. /\ DOMAIN job = JobField /\ job.root = None /\ job.plain = ~conf.force
        /\ job.id = NoPair /\ job.pc = "build"
    BY IdleOK DEF JobField
  <2> HIDE DEF job
  <2>3. JobOK(job, conf)
    BY <1>0, <2>2 DEF JobOK, SessionPc, Verified, ByCustomCa
  <2> QED BY <2>1, <2>2, <2>3, GoesTrust
<1> QED BY <1>1, <1>2

LEMMA PlainTrust ==
  ASSUME TrustInv, NEW p \in Proc, GrpcPlain(p) \/ SessionPlain(p) PROVE TrustInv'
<1>0. /\ DOMAIN Job(p) = JobField /\ JobOK(Job(p), conf)
  BY JobFacts
<1>1. Job(p).plain /\ (Built(p, "plain", Job(p)) \/ PlaceholderChannel(p))
  BY DEF GrpcPlain, SessionPlain
<1>2. ClientOK("plain", Job(p), conf)
  BY <1>0, <1>1 DEF ClientOK, JobOK
<1> QED BY <1>0, <1>1, <1>2, BuiltTrust, PlaceholderTrust

LEMMA GrpcSecureTrust == ASSUME TrustInv, NEW p \in Proc, GrpcSecure(p) PROVE TrustInv'
<1> DEFINE job == Job(p)
           full == [job EXCEPT !.verify = IF job.root = None THEN "system" ELSE "memory"]
<1>0. /\ DOMAIN job = JobField /\ JobOK(job, conf)
      /\ conf.force \in BOOLEAN
  BY JobFacts
<1>1. job.pc = "build" /\ ~job.plain /\ conf.protocol = "grpc"
  BY DEF GrpcSecure, At
<1>2. \/ Built(p, "tls", full)
      \/ job.id # NoPair /\ Built(p, "tls", [full EXCEPT !.id = NoPair, !.fails = 1])
      \/ job.id # NoPair /\ Built(p, "plain", [full EXCEPT !.id = NoPair, !.fails = 2])
      \/ conf.force /\ job.id = NoPair /\ Built(p, "tls", [job EXCEPT !.root = None, !.fails = 1])
      \/ job.id = NoPair /\ Built(p, "plain", [job EXCEPT !.fails = 2])
      \/ job.id = NoPair /\ Built(p, "plain", [job EXCEPT !.fails = 1])
      \/ PlaceholderChannel(p)
  BY Zenon DEF GrpcSecure
<1> HIDE DEF job
<1>3. /\ full.id = job.id /\ full.root = job.root /\ full.fails = job.fails /\ full.lostCa = job.lostCa
      /\ job.root # None => full.verify = "memory"
      /\ DOMAIN full = JobField
  BY <1>0 DEF JobField
<1> HIDE DEF full
<1>4. CASE Built(p, "tls", full)
  <2>1. ClientOK("tls", full, conf)
    BY <1>0, <1>1, <1>3 DEF ClientOK, JobOK, Verified, ByCustomCa
  <2> QED BY <1>3, <1>4, <2>1, BuiltTrust
<1>5. ASSUME NEW kind, NEW n, n \in {1, 2}, Built(p, kind, [full EXCEPT !.id = NoPair, !.fails = n])
      PROVE  TrustInv'
  <2> DEFINE given == [full EXCEPT !.id = NoPair, !.fails = n]
  <2>1. DOMAIN given = JobField /\ given.id = NoPair /\ given.fails = n
    BY <1>3 DEF JobField
  <2> HIDE DEF given
  <2>2. ClientOK(kind, given, conf)
    BY <1>5, <2>1 DEF ClientOK
  <2> QED BY <1>5, <2>1, <2>2, BuiltTrust DEF given
<1>6. ASSUME job.id = NoPair, NEW n, n \in {1, 2}, Built(p, "plain", [job EXCEPT !.fails = n])
      PROVE  TrustInv'
  <2> DEFINE given == [job EXCEPT !.fails = n]
  <2>1. DOMAIN given = JobField /\ given.id = NoPair /\ given.fails = n
    BY <1>0, <1>6 DEF JobField
  <2> HIDE DEF given
  <2>2. ClientOK("plain", given, conf)
    BY <1>6, <2>1 DEF ClientOK
  <2> QED BY <1>6, <2>1, <2>2, BuiltTrust DEF given
<1>7. CASE conf.force /\ job.id = NoPair /\ Built(p, "tls", [job EXCEPT !.root = None, !.fails = 1])
  <2> DEFINE given == [job EXCEPT !.root = None, !.fails = 1]
  <2>1. DOMAIN given = JobField /\ given.id = NoPair
    BY <1>0, <1>7 DEF JobField
  <2> HIDE DEF given
  <2>2. ClientOK("tls", given, conf)
    BY <2>1 DEF ClientOK
  <2> QED BY <1>7, <2>1, <2>2, BuiltTrust DEF given
<1> QED
  BY <1>2, <1>4, <1>5, <1>6, <1>7, PlaceholderTrust

LEMMA SessionBeginTrust == ASSUME TrustInv, NEW p \in Proc, SessionBegin(p) PROVE TrustInv'
<1> DEFINE old == Job(p)
<1>0. /\ DOMAIN old = JobField /\ JobOK(old, conf)
  BY JobFacts
<1>1. old.pc = "build" /\ ~old.plain
  BY DEF SessionBegin, At
<1>2. \/ old.root = None /\ Goes(p, [old EXCEPT !.pc = "identity"])
      \/ old.root # None /\ Goes(p, [old EXCEPT !.pc = "ca file"])
      \/ old.root # None /\ Goes(p, [old EXCEPT !.pc = "identity", !.verify = "memory"])
      \/ DefaultContext(p, old)
  BY Zenon DEF SessionBegin
<1> HIDE DEF old
<1>3. CASE old.root = None /\ Goes(p, [old EXCEPT !.pc = "identity"])
  <2> DEFINE job == [old EXCEPT !.pc = "identity"]
  <2>1. /\ DOMAIN job = JobField /\ job.root = old.root /\ job.plain = old.plain /\ job.id = old.id
        /\ job.pc = "identity"
    BY <1>0 DEF JobField
  <2> HIDE DEF job
  <2>2. JobOK(job, conf)
    BY <1>0, <1>1, <1>3, <2>1 DEF JobOK, SessionPc, Verified, ByCustomCa
  <2> QED BY <1>3, <2>1, <2>2, GoesTrust DEF job
<1>4. CASE old.root # None /\ Goes(p, [old EXCEPT !.pc = "ca file"])
  <2> DEFINE job == [old EXCEPT !.pc = "ca file"]
  <2>1. /\ DOMAIN job = JobField /\ job.root = old.root /\ job.plain = old.plain /\ job.id = old.id
        /\ job.pc = "ca file"
    BY <1>0 DEF JobField
  <2> HIDE DEF job
  <2>2. JobOK(job, conf)
    BY <1>0, <1>1, <1>4, <2>1 DEF JobOK, SessionPc, Verified, ByCustomCa
  <2> QED BY <1>4, <2>1, <2>2, GoesTrust DEF job
<1>5. CASE old.root # None /\ Goes(p, [old EXCEPT !.pc = "identity", !.verify = "memory"])
  <2> DEFINE job == [old EXCEPT !.pc = "identity", !.verify = "memory"]
  <2>1. /\ DOMAIN job = JobField /\ job.root = old.root /\ job.plain = old.plain /\ job.id = old.id
        /\ job.pc = "identity" /\ job.verify = "memory"
    BY <1>0 DEF JobField
  <2> HIDE DEF job
  <2>2. JobOK(job, conf)
    BY <1>0, <1>1, <1>5, <2>1 DEF JobOK, SessionPc, Verified, ByCustomCa
  <2> QED BY <1>5, <2>1, <2>2, GoesTrust DEF job
<1> QED
  BY <1>0, <1>2, <1>3, <1>4, <1>5, DefaultTrust

(* A step of Written that leaves the thread with a job in order.           *)
LEMMA WrittenTrust ==
  ASSUME TrustInv, NEW p \in Proc, NEW data, NEW process, Written(p, data, process),
         DOMAIN process = ProcField, DOMAIN process.job = JobField, JobOK(process.job, conf)
  PROVE  TrustInv'
<1> DEFINE now == [process EXCEPT !.files = @ \cup {NewName(p)}, !.written = @ + 1]
<1>1. DOMAIN now = ProcField /\ now.job = process.job
  BY DEF ProcField
<1>2. proc' = [proc EXCEPT ![p] = now] /\ conf' = conf /\ clients' = clients
  BY DEF Written
<1> HIDE DEF now
<1> QED BY <1>1, <1>2, ReplacedTrust

LEMMA CaFileTrust == ASSUME TrustInv, NEW p \in Proc, CaFile(p) PROVE TrustInv'
<1> DEFINE old == Job(p)
           to == IF conf.protocol = "http" THEN "identity" ELSE "load"
           base == [old EXCEPT !.pc = to, !.verify = "temp"]
<1>0. /\ DOMAIN old = JobField /\ JobOK(old, conf) /\ DOMAIN proc[p] = ProcField
  BY JobFacts DEF TrustInv, Shapes
<1>1. old.pc = "ca file" /\ to \in {"identity", "load"}
  BY DEF CaFile, At
<1>2. \/ \E f : Goes(p, [base EXCEPT !.ca = f])
      \/ \E f, c, d : Written(p, d, [proc[p] EXCEPT !.ca = c, !.job = [base EXCEPT !.ca = f]])
  BY DEF CaFile
<1> HIDE DEF old, to
<1>3. /\ DOMAIN base = JobField /\ base.root = old.root /\ base.plain = old.plain /\ base.id = old.id
      /\ base.pc = to /\ base.verify = "temp"
  BY <1>0 DEF JobField
<1> HIDE DEF base
<1>4. ASSUME NEW f PROVE DOMAIN [base EXCEPT !.ca = f] = JobField /\ JobOK([base EXCEPT !.ca = f], conf)
  <2> DEFINE job == [base EXCEPT !.ca = f]
  <2>1. /\ DOMAIN job = JobField /\ job.root = old.root /\ job.plain = old.plain /\ job.id = old.id
        /\ job.pc = to /\ job.verify = "temp"
    BY <1>3 DEF JobField
  <2> HIDE DEF job
  <2>2. JobOK(job, conf)
    BY <1>0, <1>1, <2>1 DEF JobOK, SessionPc, Verified, ByCustomCa
  <2> QED BY <2>1, <2>2 DEF job
<1>5. ASSUME NEW f, Goes(p, [base EXCEPT !.ca = f]) PROVE TrustInv'
  BY <1>4, <1>5, GoesTrust
<1>6. ASSUME NEW f, NEW c, NEW d, Written(p, d, [proc[p] EXCEPT !.ca = c, !.job = [base EXCEPT !.ca = f]])
      PROVE TrustInv'
  <2> DEFINE job == [base EXCEPT !.ca = f]
             process == [proc[p] EXCEPT !.ca = c, !.job = job]
  <2>1. DOMAIN job = JobField /\ JobOK(job, conf)
    BY <1>4
  <2> HIDE DEF job
  <2>2. DOMAIN process = ProcField /\ process.job = job
    BY <1>0 DEF ProcField
  <2>3. Written(p, d, process)
    BY <1>6 DEF job
  <2> HIDE DEF process
  <2> QED BY <2>1, <2>2, <2>3, WrittenTrust
<1> QED
  BY <1>2, <1>5, <1>6

LEMMA CaLoadsTrust == ASSUME TrustInv, NEW p \in Proc, CaLoads(p) PROVE TrustInv'
<1> DEFINE old == Job(p)
           job == [old EXCEPT !.pc = "identity"]
<1>0. /\ DOMAIN old = JobField /\ JobOK(old, conf)
  BY JobFacts
<1>1. old.pc = "load" /\ Goes(p, job)
  BY DEF CaLoads, At
<1> HIDE DEF old
<1>2. /\ DOMAIN job = JobField /\ job.root = old.root /\ job.plain = old.plain /\ job.id = old.id
      /\ job.pc = "identity" /\ job.verify = old.verify
  BY <1>0 DEF JobField
<1> HIDE DEF job
<1>3. JobOK(job, conf)
  BY <1>0, <1>1, <1>2 DEF JobOK, SessionPc, Verified, ByCustomCa
<1> QED BY <1>1, <1>2, <1>3, GoesTrust

LEMMA CaFileFailsTrust == ASSUME TrustInv, NEW p \in Proc, CaFileFails(p) PROVE TrustInv'
<1> DEFINE old == Job(p)
           job == [old EXCEPT !.pc = "identity", !.verify = "system", !.ca = None, !.fails = 1]
           lost == [job EXCEPT !.lostCa = TRUE]
<1>0. /\ DOMAIN old = JobField /\ JobOK(old, conf)
  BY JobFacts
<1>1. old.pc \in {"ca file", "load"}
  BY DEF CaFileFails, At
<1>2. \/ Goes(p, [job EXCEPT !.verify = "path"]) \/ (conf.protocol = "http" /\ Goes(p, lost))
      \/ Goes(p, [lost EXCEPT !.id = NoPair]) \/ DefaultContext(p, lost)
  BY Zenon DEF CaFileFails
<1> HIDE DEF old
<1>3. /\ DOMAIN job = JobField /\ job.root = old.root /\ job.plain = old.plain /\ job.id = old.id
      /\ job.pc = "identity"
  BY <1>0 DEF JobField
<1> HIDE DEF job
<1>4. /\ DOMAIN lost = JobField /\ lost.root = old.root /\ lost.plain = old.plain /\ lost.id = old.id
      /\ lost.pc = "identity" /\ lost.lostCa = TRUE
  BY <1>3 DEF JobField
<1> HIDE DEF lost
<1>5. CASE Goes(p, [job EXCEPT !.verify = "path"])
  <2> DEFINE next == [job EXCEPT !.verify = "path"]
  <2>1. /\ DOMAIN next = JobField /\ next.root = old.root /\ next.plain = old.plain /\ next.id = old.id
        /\ next.pc = "identity" /\ next.verify = "path"
    BY <1>3 DEF JobField
  <2> HIDE DEF next
  <2>2. JobOK(next, conf)
    BY <1>0, <1>1, <2>1 DEF JobOK, SessionPc, Verified, ByCustomCa
  <2> QED BY <1>5, <2>1, <2>2, GoesTrust DEF next
<1>6. CASE conf.protocol = "http" /\ Goes(p, lost)
  <2>1. JobOK(lost, conf)
    BY <1>0, <1>1, <1>4, <1>6 DEF JobOK, SessionPc, Verified, ByCustomCa
  <2> QED BY <1>4, <1>6, <2>1, GoesTrust
<1>7. CASE Goes(p, [lost EXCEPT !.id = NoPair])
  <2> DEFINE next == [lost EXCEPT !.id = NoPair]
  <2>1. /\ DOMAIN next = JobField /\ next.root = old.root /\ next.plain = old.plain /\ next.id = NoPair
        /\ next.pc = "identity" /\ next.lostCa = TRUE
    BY <1>4 DEF JobField
  <2> HIDE DEF next
  <2>2. JobOK(next, conf)
    BY <1>0, <1>1, <2>1 DEF JobOK, SessionPc, Verified, ByCustomCa
  <2> QED BY <1>7, <2>1, <2>2, GoesTrust DEF next
<1> QED
  BY <1>2, <1>4, <1>5, <1>6, <1>7, DefaultTrust

LEMMA SessionRaisesTrust == ASSUME TrustInv, NEW p \in Proc, SessionRaises(p) PROVE TrustInv'
<1> DEFINE old == Job(p)
           gone == old.root # None /\ ~Exists("ca")
           how == IF Exists("ca") THEN "path" ELSE "system"
           job == [old EXCEPT !.id = NoPair, !.files = <<>>, !.ca = None, !.raised = TRUE,
                              !.lostCa = gone, !.verify = how]
<1>0. /\ DOMAIN old = JobField /\ JobOK(old, conf)
  BY JobFacts
<1>1. Built(p, "tls", job)
  BY DEF SessionRaises
<1> HIDE DEF old, gone, how
<1>2. DOMAIN job = JobField /\ job.id = NoPair
  BY <1>0 DEF JobField
<1> HIDE DEF job
<1>3. ClientOK("tls", job, conf)
  BY <1>2 DEF ClientOK
<1> QED BY <1>1, <1>2, <1>3, BuiltTrust

LEMMA IdentityTrust == ASSUME TrustInv, NEW p \in Proc, Identity(p) PROVE TrustInv'
<1> DEFINE old == Job(p)
<1>0. /\ DOMAIN old = JobField /\ JobOK(old, conf)
  BY JobFacts
<1>1. old.pc = "identity"
  BY DEF Identity, At
<1>2. \/ Built(p, "tls", old)
      \/ \E files : Built(p, "tls", [old EXCEPT !.files = files])
      \/ Built(p, "tls", [old EXCEPT !.id = NoPair, !.files = <<>>])
  BY Zenon DEF Identity
<1> HIDE DEF old
<1>3. ClientOK("tls", old, conf)
  BY <1>0, <1>1 DEF ClientOK, JobOK, Verified, ByCustomCa
<1>4. ASSUME NEW files, Built(p, "tls", [old EXCEPT !.files = files]) PROVE TrustInv'
  <2> DEFINE job == [old EXCEPT !.files = files]
  <2>1. /\ DOMAIN job = JobField /\ job.id = old.id /\ job.root = old.root /\ job.verify = old.verify
        /\ job.lostCa = old.lostCa
    BY <1>0 DEF JobField
  <2> HIDE DEF job
  <2>2. ClientOK("tls", job, conf)
    BY <1>3, <2>1 DEF ClientOK, Verified
  <2> QED BY <1>4, <2>1, <2>2, BuiltTrust DEF job
<1>5. CASE Built(p, "tls", [old EXCEPT !.id = NoPair, !.files = <<>>])
  <2> DEFINE job == [old EXCEPT !.id = NoPair, !.files = <<>>]
  <2>1. /\ DOMAIN job = JobField /\ job.id = NoPair /\ job.verify = old.verify /\ job.lostCa = old.lostCa
    BY <1>0 DEF JobField
  <2> HIDE DEF job
  <2>2. ClientOK("tls", job, conf)
    BY <1>3, <2>1 DEF ClientOK, Verified
  <2> QED BY <1>5, <2>1, <2>2, BuiltTrust DEF job
<1> QED
  BY <1>0, <1>2, <1>3, <1>4, <1>5, BuiltTrust

LEMMA CertFileTrust == ASSUME TrustInv, NEW p \in Proc, CertFile(p) PROVE TrustInv'
<1> DEFINE old == Job(p)
<1>0. /\ DOMAIN old = JobField /\ JobOK(old, conf) /\ DOMAIN proc[p] = ProcField /\ proc[p].job = old
  BY JobFacts DEF TrustInv, Shapes, Job
<1>1. old.pc = "identity"
  BY DEF CertFile, At
<1>2. \/ \E d, f : Written(p, d, [proc[p] EXCEPT !.job.pc = "key file", !.job.files = f])
      \/ Built(p, "tls", [old EXCEPT !.id = NoPair])
  BY Zenon DEF CertFile
<1> HIDE DEF old
<1>3. ASSUME NEW d, NEW f, Written(p, d, [proc[p] EXCEPT !.job.pc = "key file", !.job.files = f])
      PROVE TrustInv'
  <2> DEFINE process == [proc[p] EXCEPT !.job.pc = "key file", !.job.files = f]
             job == process.job
  <2>1. DOMAIN process = ProcField
    BY <1>0 DEF ProcField
  <2>2. job = [old EXCEPT !.pc = "key file", !.files = f]
    BY <1>0 DEF ProcField, JobField
  <2> HIDE DEF process, job
  <2>3. /\ DOMAIN job = JobField /\ job.id = old.id /\ job.root = old.root /\ job.verify = old.verify
        /\ job.lostCa = old.lostCa /\ job.plain = old.plain /\ job.pc = "key file"
    BY <1>0, <2>2 DEF JobField
  <2>4. JobOK(job, conf)
    BY <1>0, <1>1, <2>3 DEF JobOK, SessionPc, Verified, ByCustomCa
  <2>5. Written(p, d, process)
    BY <1>3 DEF process
  <2> QED BY <2>1, <2>3, <2>4, <2>5, WrittenTrust DEF job
<1>4. CASE Built(p, "tls", [old EXCEPT !.id = NoPair])
  <2> DEFINE job == [old EXCEPT !.id = NoPair]
  <2>1. DOMAIN job = JobField /\ job.id = NoPair /\ job.verify = old.verify /\ job.lostCa = old.lostCa
    BY <1>0 DEF JobField
  <2> HIDE DEF job
  <2>2. ClientOK("tls", job, conf)
    BY <1>0, <1>1, <2>1 DEF ClientOK, JobOK, Verified, ByCustomCa
  <2> QED BY <1>4, <2>1, <2>2, BuiltTrust DEF job
<1> QED
  BY <1>2, <1>3, <1>4

LEMMA KeyFileTrust == ASSUME TrustInv, NEW p \in Proc, KeyFile(p) PROVE TrustInv'
<1> DEFINE old == Job(p)
<1>0. /\ DOMAIN old = JobField /\ JobOK(old, conf) /\ DOMAIN proc[p] = ProcField /\ proc[p].job = old
  BY JobFacts DEF TrustInv, Shapes, Job
<1>1. old.pc = "key file"
  BY DEF KeyFile, At
<1>2. PICK d, m : Written(p, d, [proc[p] EXCEPT !.mtls = m, !.job.pc = "identity"])
  BY Zenon DEF KeyFile
<1> HIDE DEF old
<1> DEFINE process == [proc[p] EXCEPT !.mtls = m, !.job.pc = "identity"]
           job == process.job
<1>3. DOMAIN process = ProcField
  BY <1>0 DEF ProcField
<1>4. job = [old EXCEPT !.pc = "identity"]
  BY <1>0 DEF ProcField, JobField
<1> HIDE DEF process, job
<1>5. /\ DOMAIN job = JobField /\ job.id = old.id /\ job.root = old.root /\ job.verify = old.verify
      /\ job.lostCa = old.lostCa /\ job.plain = old.plain /\ job.pc = "identity"
  BY <1>0, <1>4 DEF JobField
<1>6. JobOK(job, conf)
  BY <1>0, <1>1, <1>5 DEF JobOK, SessionPc, Verified, ByCustomCa
<1>7. Written(p, d, process)
  BY <1>2 DEF process
<1> QED BY <1>3, <1>5, <1>6, <1>7, WrittenTrust DEF job

LEMMA KeyFileFailsTrust == ASSUME TrustInv, NEW p \in Proc, KeyFileFails(p) PROVE TrustInv'
<1> DEFINE old == Job(p)
           ids == ToSet(Job(p).files)
           job == [old EXCEPT !.pc = "identity", !.id = NoPair, !.files = <<>>]
           process == [proc[p] EXCEPT !.files = @ \ ids, !.job = job]
<1>0. /\ DOMAIN old = JobField /\ JobOK(old, conf) /\ DOMAIN proc[p] = ProcField /\ proc[p].job = old
      /\ DOMAIN proc = Proc
  BY JobFacts DEF TrustInv, Shapes, Job
<1>1. old.pc = "key file" /\ conf' = conf /\ clients' = clients
  BY DEF KeyFileFails, At
<1>2. proc' = [proc EXCEPT ![p].files = @ \ ids,
                           ![p].job = [@ EXCEPT !.pc = "identity", !.id = NoPair, !.files = <<>>]]
  BY DEF KeyFileFails, Discard
<1> HIDE DEF ids, old
<1>3. proc' = [proc EXCEPT ![p] = process]
  BY <1>0, <1>2 DEF ProcField
<1>4. /\ DOMAIN job = JobField /\ job.id = NoPair /\ job.root = old.root /\ job.verify = old.verify
      /\ job.lostCa = old.lostCa /\ job.plain = old.plain /\ job.pc = "identity"
  BY <1>0 DEF JobField
<1> HIDE DEF job
<1>5. DOMAIN process = ProcField /\ process.job = job
  BY <1>0 DEF ProcField
<1> HIDE DEF process
<1>6. JobOK(job, conf)
  BY <1>0, <1>1, <1>4 DEF JobOK, SessionPc, Verified, ByCustomCa
<1> QED BY <1>1, <1>3, <1>4, <1>5, <1>6, ReplacedTrust

LEMMA ForkTrust == ASSUME TrustInv, NEW p \in Proc, NEW q \in Proc, Fork(p, q) PROVE TrustInv'
<1> DEFINE process == [NewProcess EXCEPT !.job = Idle]
<1>1. proc' = [proc EXCEPT ![q] = process] /\ conf' = conf /\ clients' = clients
  BY DEF Fork, Forked
<1>2. DOMAIN process = ProcField /\ process.job = Idle
  BY DEF NewProcess, ProcField
<1> HIDE DEF process
<1> QED BY <1>1, <1>2, IdleOK, ReplacedTrust

LEMMA ExitTrust == ASSUME TrustInv, NEW p \in Proc, Exit(p) PROVE TrustInv'
<1> DEFINE process == [NewProcess EXCEPT !.up = FALSE, !.job.pc = "gone"]
           job == [Idle EXCEPT !.pc = "gone"]
<1>1. proc' = [proc EXCEPT ![p] = process] /\ conf' = conf /\ clients' \subseteq clients
  BY DEF Exit
<1>2. DOMAIN process = ProcField /\ process.job = job
  BY DEF NewProcess, ProcField
<1>3. DOMAIN job = JobField /\ JobOK(job, conf)
  BY IdleOK, SMT DEF JobOK, SessionPc, Verified, ByCustomCa, JobField
<1> HIDE DEF process, job
<1> QED BY <1>1, <1>2, <1>3, ReplacedTrust

LEMMA TrustStep == TrustInv /\ [Next]_tlsVars => TrustInv'
<1>1. SUFFICES ASSUME TrustInv, [Next]_tlsVars PROVE TrustInv'
  OBVIOUS
<1>2. CASE UNCHANGED tlsVars
  BY <1>1, <1>2 DEF tlsVars, TrustInv, Shapes
<1>3. ASSUME NEW f, NEW content, Change(f, content) PROVE TrustInv'
  BY <1>1, <1>3 DEF Change, TrustInv, Shapes
<1>4. ASSUME NEW p \in Proc,
             BeginClient(p) \/ ReadCa(p) \/ ReadCert(p) \/ ReadKey(p) \/ MaterialRaises(p)
      PROVE TrustInv'
  BY <1>1, <1>4, BeginClientTrust, ReadTrust, MaterialRaisesTrust
<1>5. ASSUME NEW p \in Proc,
             \/ GrpcPlain(p) \/ GrpcSecure(p)
             \/ SessionPlain(p) \/ SessionBegin(p) \/ CaFile(p) \/ CaLoads(p) \/ CaFileFails(p)
      PROVE TrustInv'
  BY <1>1, <1>5, PlainTrust, GrpcSecureTrust, SessionBeginTrust, CaFileTrust, CaLoadsTrust, CaFileFailsTrust
<1>6. ASSUME NEW p \in Proc,
             \/ SessionRaises(p) \/ Identity(p) \/ CertFile(p) \/ KeyFile(p) \/ KeyFileFails(p)
             \/ Exit(p)
      PROVE TrustInv'
  BY <1>1, <1>6, SessionRaisesTrust, IdentityTrust, CertFileTrust, KeyFileTrust, KeyFileFailsTrust, ExitTrust
<1>7. ASSUME NEW p \in Proc, NEW q \in Proc, Fork(p, q) PROVE TrustInv'
  BY <1>1, <1>7, ForkTrust
<1> QED
  BY <1>1, <1>2, <1>3, <1>4, <1>5, <1>6, <1>7 DEF Next

(***************************************************************************)
(* Whatever the TLS libraries refuse and however the configured files      *)
(* change while a client is built: a client certificate goes with its own  *)
(* key into a TLS client for which a custom CA was loaded, and that CA     *)
(* verifies the collector, except for a requests session that could not    *)
(* write its snapshot of the CA and then found the CA file gone (tls.py).  *)
(***************************************************************************)
THEOREM IdentityIsUnderCa == Spec => []IdentityUnderCa
<1>1. TrustInv => IdentityUnderCa
  BY DEF TrustInv, IdentityUnderCa, ClientOK, Verified
<1> QED
  BY TrustInit, TrustStep, <1>1, PTL DEF Spec

(***************************************************************************)
(* As long as the TLS library refuses nothing, a client is plaintext only  *)
(* if FORCE_TLS is off and no CA could be loaded (tls_pem_material,        *)
(* grpc_ssl_credentials, ssl_context_for_collector).                       *)
(***************************************************************************)
THEOREM PlaintextIsCaused == Spec => []PlaintextHasCause
<1>1. TrustInv => PlaintextHasCause
  BY DEF TrustInv, PlaintextHasCause, ClientOK
<1> QED
  BY TrustInit, TrustStep, <1>1, PTL DEF Spec

-----------------------------------------------------------------------------
(***************************************************************************)
(* Who owns the temporary files. A name begins with its process; a file is *)
(* held for process p when it is p's, was published and has its text.      *)
(***************************************************************************)
Held(p, name, data, ts, pub) ==
  name[1] = p /\ name \in pub /\ [id |-> name, data |-> data] \in ts

AllHeld(p, names, texts, ts, pub) ==
  \A i \in DOMAIN names : Held(p, names[i], texts[i], ts, pub)

CacheHeld(p, cache, ts, pub) ==
  DOMAIN cache.files = DOMAIN cache.data /\ AllHeld(p, cache.files, cache.data, ts, pub)

(* The certificate of a pair whose key is not written yet.                 *)
HalfPair(j, P, ts, pub) ==
  /\ j.files = <<j.files[1]>> /\ j.files[1] \in P.files \ pub
  /\ [id |-> j.files[1], data |-> j.id[1]] \in ts

JobHeld(p, j, P, ts, pub) ==
  /\ j.verify = "temp" => j.pc \in SessionPc /\ Held(p, j.ca, j.root, ts, pub)
  /\ j.files # <<>> => j.pc \in {"identity", "key file"} /\ j.id # NoPair
  /\ j.pc = "identity" /\ j.files # <<>> => P.mtls.data = j.id /\ ToSet(j.files) \subseteq pub \cap P.files
  /\ j.pc = "key file" => j.id # NoPair /\ HalfPair(j, P, ts, pub)
  /\ j.id # NoPair => j.id = <<j.id[1], j.id[2]>>

ProcessOwns(p, P, ts, pub) ==
  /\ P.written \in Nat
  /\ \A f \in P.files : f = <<p, f[2]>> /\ f[2] \in 1..P.written
  /\ CacheHeld(p, P.ca, ts, pub) /\ CacheHeld(p, P.mtls, ts, pub)
  /\ JobHeld(p, P.job, P, ts, pub)

ClientHeld(p, by, ts, pub) ==
  /\ by.verify = "temp" => Held(p, by.ca, by.root, ts, pub)
  /\ AllHeld(p, by.files, by.id, ts, pub)

(* Nothing that is listed lies about, unless an exception came from where  *)
(* none is expected.                                                       *)
NothingLiesAbout(p) ==
  (\A c \in clients : c.proc = p => ~c.by.raised) =>
    proc[p].files \subseteq published \cup ToSet(proc[p].job.files)

OwnInv ==
  /\ Shapes
  /\ \A p \in Proc : ProcessOwns(p, proc[p], temps, published)
  /\ \A f \in published : f[1] \in Proc /\ f \in proc[f[1]].files
  /\ \A t \in temps : t.id[1] \in Proc /\ proc[t.id[1]].up /\ t.id \in proc[t.id[1]].files
  /\ \A c \in clients :
       c.proc \in Proc /\ proc[c.proc].up /\ ClientHeld(c.proc, c.by, temps, published)
  /\ \A p \in Proc : NothingLiesAbout(p)

(* Nothing changes for process p.                                          *)
SameFor(p, ts1, ts2, pub1, pub2) ==
  /\ \A t \in ts1 : t.id[1] = p => t \in ts2
  /\ \A f \in pub1 : f[1] = p => f \in pub2
  /\ \A f \in pub2 : f[1] = p => f \in pub1

-----------------------------------------------------------------------------

LEMMA HeldFrame ==
  ASSUME NEW p, NEW name, NEW data, NEW ts1, NEW ts2, NEW pub1, NEW pub2,
         SameFor(p, ts1, ts2, pub1, pub2), Held(p, name, data, ts1, pub1)
  PROVE  Held(p, name, data, ts2, pub2)
BY DEF Held, SameFor

LEMMA AllHeldFrame ==
  ASSUME NEW p, NEW names, NEW texts, NEW ts1, NEW ts2, NEW pub1, NEW pub2,
         SameFor(p, ts1, ts2, pub1, pub2), AllHeld(p, names, texts, ts1, pub1)
  PROVE  AllHeld(p, names, texts, ts2, pub2)
BY HeldFrame DEF AllHeld

LEMMA ClientFrame ==
  ASSUME NEW p, NEW by, NEW ts1, NEW ts2, NEW pub1, NEW pub2,
         SameFor(p, ts1, ts2, pub1, pub2), ClientHeld(p, by, ts1, pub1)
  PROVE  ClientHeld(p, by, ts2, pub2)
BY HeldFrame, AllHeldFrame DEF ClientHeld

LEMMA ProcessFrame ==
  ASSUME NEW p, NEW P, NEW ts1, NEW ts2, NEW pub1, NEW pub2,
         SameFor(p, ts1, ts2, pub1, pub2), ProcessOwns(p, P, ts1, pub1)
  PROVE  ProcessOwns(p, P, ts2, pub2)
<1>1. CacheHeld(p, P.ca, ts2, pub2) /\ CacheHeld(p, P.mtls, ts2, pub2)
  BY AllHeldFrame DEF ProcessOwns, CacheHeld
<1>2. \A f \in P.files : f[1] = p
  BY DEF ProcessOwns
<1>3. P.job.pc = "key file" => P.job.id # NoPair /\ HalfPair(P.job, P, ts2, pub2)
  <2>1. SUFFICES ASSUME P.job.pc = "key file" PROVE P.job.id # NoPair /\ HalfPair(P.job, P, ts2, pub2)
    OBVIOUS
  <2>2. P.job.id # NoPair /\ HalfPair(P.job, P, ts1, pub1)
    BY <2>1 DEF ProcessOwns, JobHeld
  <2> QED BY <1>2, <2>2 DEF HalfPair, SameFor
<1>4. P.job.verify = "temp" => P.job.pc \in SessionPc /\ Held(p, P.job.ca, P.job.root, ts2, pub2)
  BY HeldFrame DEF ProcessOwns, JobHeld
<1>5. P.job.pc = "identity" /\ P.job.files # <<>> =>
        P.mtls.data = P.job.id /\ ToSet(P.job.files) \subseteq pub2 \cap P.files
  BY <1>2 DEF ProcessOwns, JobHeld, SameFor
<1>6. JobHeld(p, P.job, P, ts2, pub2)
  BY <1>3, <1>4, <1>5 DEF ProcessOwns, JobHeld
<1> QED
  BY <1>1, <1>6 DEF ProcessOwns

(***************************************************************************)
(* A step of process p: it keeps its own files and leaves the files of the *)
(* others alone.                                                           *)
(***************************************************************************)
LEMMA OwnStep ==
  ASSUME OwnInv, NEW p \in Proc, NEW P, proc' = [proc EXCEPT ![p] = P],
         DOMAIN P = ProcField, DOMAIN P.job = JobField,
         ProcessOwns(p, P, temps', published'),
         \A q \in Proc \ {p} : SameFor(q, temps, temps', published, published'),
         \A f \in published' : IF f[1] = p THEN f \in P.files ELSE f \in published,
         \A t \in temps' : IF t.id[1] = p THEN P.up /\ t.id \in P.files ELSE t \in temps,
         \A c \in clients' : IF c.proc = p THEN P.up /\ ClientHeld(p, c.by, temps', published')
                              ELSE c \in clients,
         \A c \in clients : c.proc # p => c \in clients',
         (\A c \in clients' : c.proc = p => ~c.by.raised) =>
            P.files \subseteq published' \cup ToSet(P.job.files)
  PROVE  OwnInv'
<1>1. /\ proc'[p] = P /\ DOMAIN proc' = Proc
      /\ \A q \in Proc : q # p => proc'[q] = proc[q]
  BY DEF OwnInv, Shapes
<1>2. Shapes'
  BY <1>1 DEF OwnInv, Shapes
<1>3. \A q \in Proc : ProcessOwns(q, proc'[q], temps', published')
  <2>1. ASSUME NEW q \in Proc, q # p PROVE ProcessOwns(q, proc[q], temps', published')
    <3>1. ProcessOwns(q, proc[q], temps, published) /\ SameFor(q, temps, temps', published, published')
      BY <2>1 DEF OwnInv
    <3> QED BY <3>1, ProcessFrame
  <2> QED BY <1>1, <2>1
<1>4. \A f \in published' : f[1] \in Proc /\ f \in proc'[f[1]].files
  BY <1>1 DEF OwnInv
<1>5. \A t \in temps' : t.id[1] \in Proc /\ proc'[t.id[1]].up /\ t.id \in proc'[t.id[1]].files
  BY <1>1 DEF OwnInv
<1>6. \A c \in clients' :
        c.proc \in Proc /\ proc'[c.proc].up /\ ClientHeld(c.proc, c.by, temps', published')
  <2>1. ASSUME NEW c \in clients', c.proc # p
        PROVE  c.proc \in Proc /\ proc'[c.proc].up /\ ClientHeld(c.proc, c.by, temps', published')
    <3>1. c.proc \in Proc /\ proc[c.proc].up /\ ClientHeld(c.proc, c.by, temps, published)
      BY <2>1 DEF OwnInv
    <3>2. SameFor(c.proc, temps, temps', published, published')
      BY <2>1, <3>1
    <3> QED BY <1>1, <2>1, <3>1, <3>2, ClientFrame
  <2> QED BY <1>1, <2>1
<1>7. ASSUME NEW q \in Proc, q # p PROVE NothingLiesAbout(q)'
  <2>1. SUFFICES ASSUME \A c \in clients' : c.proc = q => ~c.by.raised
                 PROVE  proc'[q].files \subseteq published' \cup ToSet(proc'[q].job.files)
    BY DEF NothingLiesAbout
  <2>2. proc[q].files \subseteq published \cup ToSet(proc[q].job.files)
    BY <1>7, <2>1 DEF OwnInv, NothingLiesAbout
  <2>3. \A f \in proc[q].files : f[1] = q
    BY DEF OwnInv, ProcessOwns
  <2> QED BY <1>1, <1>7, <2>2, <2>3 DEF SameFor
<1>8. NothingLiesAbout(p)'
  BY <1>1 DEF NothingLiesAbout
<1> QED
  BY <1>2, <1>3, <1>4, <1>5, <1>6, <1>7, <1>8 DEF OwnInv

LEMMA AllHeldGrow ==
  ASSUME NEW p, NEW names, NEW texts, NEW ts1, NEW ts2, NEW pub1, NEW pub2,
         ts1 \subseteq ts2, pub1 \subseteq pub2, AllHeld(p, names, texts, ts1, pub1)
  PROVE  AllHeld(p, names, texts, ts2, pub2)
BY DEF AllHeld, Held

LEMMA ClientGrow ==
  ASSUME NEW p, NEW by, NEW ts1, NEW ts2, NEW pub1, NEW pub2,
         ts1 \subseteq ts2, pub1 \subseteq pub2, ClientHeld(p, by, ts1, pub1)
  PROVE  ClientHeld(p, by, ts2, pub2)
BY AllHeldGrow DEF ClientHeld, Held

LEMMA OwnFacts ==
  ASSUME OwnInv, NEW p \in Proc
  PROVE  /\ DOMAIN proc = Proc /\ DOMAIN proc[p] = ProcField
         /\ proc[p].job = Job(p) /\ DOMAIN Job(p) = JobField
         /\ ProcessOwns(p, proc[p], temps, published)
         /\ JobHeld(p, Job(p), proc[p], temps, published)
         /\ \A f \in published : f[1] = p => f \in proc[p].files
         /\ \A t \in temps : t.id[1] = p => proc[p].up /\ t.id \in proc[p].files
         /\ \A c \in clients : c.proc = p => proc[p].up /\ ClientHeld(p, c.by, temps, published)
         /\ NothingLiesAbout(p)
BY DEF OwnInv, Shapes, Job, ProcessOwns

(* The thread goes on with a job whose files are held.                     *)
LEMMA GoesOwn ==
  ASSUME OwnInv, NEW p \in Proc, NEW job, Goes(p, job), DOMAIN job = JobField,
         JobHeld(p, job, proc[p], temps, published),
         ToSet(Job(p).files) \subseteq published \cup ToSet(job.files)
  PROVE  OwnInv'
<1> DEFINE P == [proc[p] EXCEPT !.job = job]
<1>0. /\ DOMAIN proc = Proc /\ DOMAIN proc[p] = ProcField /\ proc[p].job = Job(p)
      /\ ProcessOwns(p, proc[p], temps, published)
      /\ \A f \in published : f[1] = p => f \in proc[p].files
      /\ \A t \in temps : t.id[1] = p => proc[p].up /\ t.id \in proc[p].files
      /\ \A c \in clients : c.proc = p => proc[p].up /\ ClientHeld(p, c.by, temps, published)
      /\ NothingLiesAbout(p)
  BY OwnFacts
<1>1. /\ proc' = [proc EXCEPT ![p] = P] /\ temps' = temps /\ published' = published
      /\ clients' = clients
  BY <1>0 DEF Goes, ProcField
<1>2. /\ DOMAIN P = ProcField /\ P.job = job /\ P.up = proc[p].up /\ P.files = proc[p].files
      /\ P.written = proc[p].written /\ P.ca = proc[p].ca /\ P.mtls = proc[p].mtls
  BY <1>0 DEF ProcField
<1> HIDE DEF P
<1>3. JobHeld(p, job, P, temps, published)
  BY <1>2 DEF JobHeld, HalfPair
<1>4. ProcessOwns(p, P, temps', published')
  BY <1>0, <1>1, <1>2, <1>3 DEF ProcessOwns
<1>5. (\A c \in clients' : c.proc = p => ~c.by.raised) =>
        P.files \subseteq published' \cup ToSet(P.job.files)
  BY <1>0, <1>1, <1>2 DEF NothingLiesAbout
<1>6. \A q \in Proc \ {p} : SameFor(q, temps, temps', published, published')
  BY <1>1 DEF SameFor
<1>7. \A c \in clients' : IF c.proc = p THEN P.up /\ ClientHeld(p, c.by, temps', published')
                           ELSE c \in clients
  BY <1>0, <1>1, <1>2
<1>8. /\ \A f \in published' : IF f[1] = p THEN f \in P.files ELSE f \in published
      /\ \A t \in temps' : IF t.id[1] = p THEN P.up /\ t.id \in P.files ELSE t \in temps
      /\ \A c \in clients : c.proc # p => c \in clients'
  BY <1>0, <1>1, <1>2
<1>9. DOMAIN P.job = JobField
  BY <1>2
<1> QED
  BY <1>1, <1>2, <1>4, <1>5, <1>6, <1>7, <1>8, <1>9, OwnStep

(* A client is built of files that are held, and the thread leaves none    *)
(* behind that nobody holds.                                               *)
LEMMA BuiltOwn ==
  ASSUME OwnInv, NEW p \in Proc, NEW kind, NEW job, Built(p, kind, job), proc[p].up,
         DOMAIN job = JobField, ClientHeld(p, job, temps, published),
         job.raised = TRUE \/ ToSet(Job(p).files) \subseteq published
  PROVE  OwnInv'
<1> DEFINE P == [proc[p] EXCEPT !.job = Idle]
           by == [job EXCEPT !.pc = "done", !.cert = None]
           new == [proc |-> p, no |-> Cardinality(ClientsOf(p)), kind |-> kind, by |-> by]
<1>0. /\ DOMAIN proc = Proc /\ DOMAIN proc[p] = ProcField /\ proc[p].job = Job(p)
      /\ ProcessOwns(p, proc[p], temps, published)
      /\ \A f \in published : f[1] = p => f \in proc[p].files
      /\ \A t \in temps : t.id[1] = p => proc[p].up /\ t.id \in proc[p].files
      /\ \A c \in clients : c.proc = p => proc[p].up /\ ClientHeld(p, c.by, temps, published)
      /\ NothingLiesAbout(p)
  BY OwnFacts
<1>1. /\ proc' = [proc EXCEPT ![p] = P] /\ temps' = temps /\ published' = published
      /\ clients' = clients \cup {new}
  BY <1>0 DEF Built, ProcField
<1>2. /\ DOMAIN P = ProcField /\ P.job = Idle /\ P.up = proc[p].up /\ P.files = proc[p].files
      /\ P.written = proc[p].written /\ P.ca = proc[p].ca /\ P.mtls = proc[p].mtls
  BY <1>0 DEF ProcField
<1>3. by.verify = job.verify /\ by.ca = job.ca /\ by.root = job.root /\ by.files = job.files
      /\ by.id = job.id /\ by.raised = job.raised
  BY DEF JobField
<1> HIDE DEF P, by
<1>4. new.proc = p /\ new.by = by
  OBVIOUS
<1> HIDE DEF new
<1>5. ClientHeld(p, new.by, temps, published)
  BY <1>3, <1>4 DEF ClientHeld
<1>6. JobHeld(p, Idle, P, temps, published)
  BY IdleOK DEF JobHeld
<1>7. ProcessOwns(p, P, temps', published')
  BY <1>0, <1>1, <1>2, <1>6 DEF ProcessOwns
<1>8. (\A c \in clients' : c.proc = p => ~c.by.raised) =>
        P.files \subseteq published' \cup ToSet(P.job.files)
  <2>1. SUFFICES ASSUME \A c \in clients' : c.proc = p => ~c.by.raised
                 PROVE  P.files \subseteq published' \cup ToSet(P.job.files)
    OBVIOUS
  <2>2. ~new.by.raised
    BY <1>1, <1>4, <2>1
  <2>3. ToSet(Job(p).files) \subseteq published
    BY <1>3, <1>4, <2>2
  <2>4. proc[p].files \subseteq published \cup ToSet(Job(p).files)
    BY <1>0, <1>1, <2>1 DEF NothingLiesAbout
  <2> QED BY <1>1, <1>2, <2>3, <2>4
<1>9. \A q \in Proc \ {p} : SameFor(q, temps, temps', published, published')
  BY <1>1 DEF SameFor
<1>10. \A c \in clients' : IF c.proc = p THEN P.up /\ ClientHeld(p, c.by, temps', published')
                            ELSE c \in clients
  BY <1>0, <1>1, <1>2, <1>4, <1>5
<1>11. /\ \A f \in published' : IF f[1] = p THEN f \in P.files ELSE f \in published
       /\ \A t \in temps' : IF t.id[1] = p THEN P.up /\ t.id \in P.files ELSE t \in temps
       /\ \A c \in clients : c.proc # p => c \in clients'
  BY <1>0, <1>1, <1>2
<1>12. DOMAIN P.job = JobField
  BY <1>2, IdleOK
<1> QED
  BY <1>1, <1>2, <1>7, <1>8, <1>9, <1>10, <1>11, <1>12, OwnStep

(* A name nobody has.                                                      *)
LEMMA NewNameFresh ==
  ASSUME OwnInv, NEW p \in Proc
  PROVE  NewName(p)[1] = p /\ NewName(p) \notin published /\ NewName(p) \notin proc[p].files
<1> DEFINE n == NewName(p)
<1>1. n[1] = p /\ n[2] = proc[p].written + 1
  BY DEF NewName
<1>2. proc[p].written \in Nat /\ \A f \in proc[p].files : f[2] \in 1..proc[p].written
  BY OwnFacts DEF ProcessOwns
<1> HIDE DEF n
<1>3. n \notin proc[p].files
  BY <1>1, <1>2
<1>4. n \notin published
  BY <1>1, <1>3, OwnFacts
<1> QED BY <1>1, <1>3, <1>4 DEF n

(* A file is written by a process that then has its own in order; what it  *)
(* publishes is its own.                                                   *)
LEMMA WrittenOwn ==
  ASSUME OwnInv, NEW p \in Proc, NEW data, NEW process, Written(p, data, process), proc[p].up,
         NEW P, P = [process EXCEPT !.files = @ \cup {NewName(p)}, !.written = @ + 1],
         DOMAIN process = ProcField, DOMAIN process.job = JobField,
         process.up = proc[p].up, process.files = proc[p].files, process.written = proc[p].written,
         published \subseteq published', \A f \in published' \ published : f[1] = p /\ f \in P.files,
         ToSet(Job(p).files) \cup {NewName(p)} \subseteq published' \cup ToSet(process.job.files),
         CacheHeld(p, process.ca, temps', published'), CacheHeld(p, process.mtls, temps', published'),
         JobHeld(p, process.job, P, temps', published')
  PROVE  OwnInv'
<1> DEFINE n == NewName(p)
           t == [id |-> n, data |-> data]
<1>0. /\ DOMAIN proc = Proc /\ DOMAIN proc[p] = ProcField /\ proc[p].job = Job(p)
      /\ ProcessOwns(p, proc[p], temps, published)
      /\ \A f \in published : f[1] = p => f \in proc[p].files
      /\ \A u \in temps : u.id[1] = p => proc[p].up /\ u.id \in proc[p].files
      /\ \A c \in clients : c.proc = p => proc[p].up /\ ClientHeld(p, c.by, temps, published)
      /\ NothingLiesAbout(p)
  BY OwnFacts
<1>1. proc' = [proc EXCEPT ![p] = P] /\ clients' = clients /\ temps' = temps \cup {t}
  BY DEF Written
<1>2. /\ DOMAIN P = ProcField /\ P.job = process.job /\ P.up = proc[p].up
      /\ P.files = proc[p].files \cup {n} /\ P.written = proc[p].written + 1
      /\ P.ca = process.ca /\ P.mtls = process.mtls
  BY DEF ProcField
<1>3. t.id = n /\ n = <<p, proc[p].written + 1>> /\ n[1] = p /\ n[2] = proc[p].written + 1
  BY DEF NewName
<1> HIDE DEF n, t
<1>4. P.written \in Nat /\ \A f \in P.files : f = <<p, f[2]>> /\ f[2] \in 1..P.written
  BY <1>0, <1>2, <1>3 DEF ProcessOwns
<1>5. ProcessOwns(p, P, temps', published')
  BY <1>2, <1>4 DEF ProcessOwns
<1>6. (\A c \in clients' : c.proc = p => ~c.by.raised) =>
        P.files \subseteq published' \cup ToSet(P.job.files)
  BY <1>0, <1>1, <1>2 DEF NothingLiesAbout, n
<1>7. \A q \in Proc \ {p} : SameFor(q, temps, temps', published, published')
  BY <1>1 DEF SameFor
<1>8. \A c \in clients' : IF c.proc = p THEN P.up /\ ClientHeld(p, c.by, temps', published')
                           ELSE c \in clients
  <2>1. ASSUME NEW c \in clients, c.proc = p PROVE ClientHeld(p, c.by, temps', published')
    <3>1. ClientHeld(p, c.by, temps, published)
      BY <1>0, <2>1
    <3> QED BY <1>1, <3>1, ClientGrow
  <2> QED BY <1>1, <1>2, <2>1
<1>9. /\ \A f \in published' : IF f[1] = p THEN f \in P.files ELSE f \in published
      /\ \A u \in temps' : IF u.id[1] = p THEN P.up /\ u.id \in P.files ELSE u \in temps
      /\ \A c \in clients : c.proc # p => c \in clients'
  BY <1>0, <1>1, <1>2, <1>3
<1>10. DOMAIN P.job = JobField
  BY <1>2
<1> QED
  BY <1>1, <1>2, <1>5, <1>6, <1>7, <1>8, <1>9, <1>10, OwnStep

(* A job that uses no temporary file.                                      *)
NoFiles(j) ==
  /\ j.verify # "temp" /\ j.files = <<>>
  /\ j.id # NoPair => j.id = <<j.id[1], j.id[2]>>

Early == {"idle", "ca", "cert", "key", "build"}

LEMMA NoElements == DOMAIN <<>> = {} /\ ToSet(<<>>) = {}
<1>1. <<>> \in Seq({}) /\ Len(<<>>) = 0
  OBVIOUS
<1>2. DOMAIN <<>> = {}
  BY <1>1, SMT
<1> QED BY <1>2 DEF ToSet

LEMMA OneElement ==
  ASSUME NEW x PROVE <<x>>[1] = x /\ DOMAIN <<x>> = {1} /\ ToSet(<<x>>) = {x}
<1>1. <<x>>[1] = x
  OBVIOUS
<1>2. DOMAIN <<x>> = {1}
  OBVIOUS
<1> QED BY <1>1, <1>2 DEF ToSet

LEMMA EarlyFacts ==
  ASSUME OwnInv, NEW p \in Proc, Job(p).pc \in Early \cup {"ca file", "load"}
  PROVE  /\ DOMAIN Job(p) = JobField /\ Job(p).files = <<>> /\ ToSet(Job(p).files) = {}
         /\ Job(p).id # NoPair => Job(p).id = <<Job(p).id[1], Job(p).id[2]>>
         /\ Job(p).pc \in Early => NoFiles(Job(p))
<1>1. DOMAIN Job(p) = JobField /\ JobHeld(p, Job(p), proc[p], temps, published)
  BY OwnFacts
<1>2. Job(p).files = <<>>
  BY <1>1 DEF JobHeld, Early
<1>3. Job(p).id # NoPair => Job(p).id = <<Job(p).id[1], Job(p).id[2]>>
  BY <1>1 DEF JobHeld
<1>4. ToSet(Job(p).files) = {}
  BY <1>2, NoElements
<1>5. Job(p).pc \in Early => Job(p).verify # "temp"
  BY <1>1 DEF JobHeld, Early, SessionPc
<1> QED BY <1>1, <1>2, <1>3, <1>4, <1>5 DEF NoFiles

LEMMA GoesNoFiles ==
  ASSUME OwnInv, NEW p \in Proc, NEW job, Goes(p, job), DOMAIN job = JobField, NoFiles(job),
         job.pc # "key file", ToSet(Job(p).files) = {}
  PROVE  OwnInv'
<1>1. JobHeld(p, job, proc[p], temps, published)
  BY DEF JobHeld, NoFiles
<1> QED BY <1>1, GoesOwn

LEMMA BuiltNoFiles ==
  ASSUME OwnInv, NEW p \in Proc, NEW kind, NEW job, Built(p, kind, job), proc[p].up,
         DOMAIN job = JobField, NoFiles(job),
         job.raised = TRUE \/ ToSet(Job(p).files) \subseteq published
  PROVE  OwnInv'
<1>1. ClientHeld(p, job, temps, published)
  BY DEF ClientHeld, AllHeld, NoFiles
<1> QED BY <1>1, BuiltOwn

LEMMA PlaceholderOwn ==
  ASSUME OwnInv, NEW p \in Proc, PlaceholderChannel(p), proc[p].up, DOMAIN Job(p) = JobField,
         NoFiles(Job(p)), ToSet(Job(p).files) = {}
  PROVE  OwnInv'
<1>1. PICK dial : Built(p, "placeholder", [Job(p) EXCEPT !.id = NoPair, !.dial = dial])
  BY DEF PlaceholderChannel
<1>2. PICK job : job = [Job(p) EXCEPT !.id = NoPair, !.dial = dial]
  OBVIOUS
<1>3. /\ DOMAIN job = JobField /\ job.id = NoPair /\ job.files = Job(p).files
      /\ job.verify = Job(p).verify
  BY <1>2 DEF JobField
<1>4. NoFiles(job)
  BY <1>3 DEF NoFiles
<1> QED BY <1>1, <1>2, <1>3, <1>4, BuiltNoFiles

LEMMA DefaultOwn ==
  ASSUME OwnInv, NEW p \in Proc, NEW old, DefaultContext(p, old), proc[p].up,
         DOMAIN old = JobField, old.files = <<>>, ToSet(Job(p).files) = {}
  PROVE  OwnInv'
<1>1. PICK job : job = [old EXCEPT !.id = NoPair, !.verify = "default", !.fails = 1]
  OBVIOUS
<1>2. DOMAIN job = JobField /\ job.id = NoPair /\ job.files = <<>> /\ job.verify = "default"
  BY <1>1 DEF JobField
<1>3. NoFiles(job)
  BY <1>2 DEF NoFiles
<1>4. Built(p, "tls", job)
  BY <1>1 DEF DefaultContext
<1> QED BY <1>2, <1>3, <1>4, BuiltNoFiles

LEMMA BeginClientOwn == ASSUME OwnInv, NEW p \in Proc, BeginClient(p) PROVE OwnInv'
<1>0. ToSet(Job(p).files) = {}
  BY EarlyFacts DEF BeginClient, At, Early
<1>1. CASE conf.protocol = "grpc"
  <2>1. PICK answers, dial : Goes(p, [Idle EXCEPT !.pc = "ca", !.answers = answers, !.dial = dial])
    BY <1>1 DEF BeginClient
  <2> DEFINE job == [Idle EXCEPT !.pc = "ca", !.answers = answers, !.dial = dial]
  <2>2. DOMAIN job = JobField /\ NoFiles(job) /\ job.pc = "ca"
    BY IdleOK DEF NoFiles, JobField
  <2> HIDE DEF job
  <2> QED BY <1>0, <2>1, <2>2, GoesNoFiles DEF job
<1>2. CASE conf.protocol # "grpc"
  <2> DEFINE job == [Idle EXCEPT !.pc = "ca"]
  <2>1. Goes(p, job)
    BY <1>2 DEF BeginClient
  <2>2. DOMAIN job = JobField /\ NoFiles(job) /\ job.pc = "ca"
    BY IdleOK DEF NoFiles, JobField
  <2> HIDE DEF job
  <2> QED BY <1>0, <2>1, <2>2, GoesNoFiles DEF job
<1> QED BY <1>1, <1>2

LEMMA ReadOwn ==
  ASSUME OwnInv, NEW p \in Proc, ReadCa(p) \/ ReadCert(p) \/ ReadKey(p) PROVE OwnInv'
<1>0. DOMAIN Job(p) = JobField /\ ToSet(Job(p).files) = {} /\ NoFiles(Job(p))
  BY EarlyFacts DEF ReadCa, ReadCert, ReadKey, At, Early
<1>1. CASE ReadCa(p)
  <2>1. PICK ca, none, to : /\ Goes(p, [Job(p) EXCEPT !.root = ca, !.plain = none, !.pc = to])
                           /\ to \in {"cert", "build"}
    <3> DEFINE to == IF LoadedCa # None /\ {"cert", "key"} \subseteq conf.paths THEN "cert" ELSE "build"
    <3>1. /\ Goes(p, [Job(p) EXCEPT !.root = LoadedCa, !.plain = NoTls(LoadedCa), !.pc = to])
          /\ to \in {"cert", "build"}
      BY <1>1 DEF ReadCa
    <3> HIDE DEF to
    <3> QED BY <3>1
  <2> DEFINE job == [Job(p) EXCEPT !.root = ca, !.plain = none, !.pc = to]
  <2>2. /\ DOMAIN job = JobField /\ job.pc = to /\ job.verify = Job(p).verify
        /\ job.files = Job(p).files /\ job.id = Job(p).id
    BY <1>0 DEF JobField
  <2> HIDE DEF job
  <2>3. NoFiles(job)
    BY <1>0, <2>2 DEF NoFiles
  <2> QED BY <1>0, <2>1, <2>2, <2>3, GoesNoFiles DEF job
<1>2. CASE ReadCert(p)
  <2>1. PICK cert, to : Goes(p, [Job(p) EXCEPT !.cert = cert, !.pc = to]) /\ to \in {"key", "build"}
    <3> DEFINE to == IF Exists("cert") THEN "key" ELSE "build"
    <3>1. Goes(p, [Job(p) EXCEPT !.cert = disk["cert"], !.pc = to]) /\ to \in {"key", "build"}
      BY <1>2 DEF ReadCert
    <3> HIDE DEF to
    <3> QED BY <3>1
  <2> DEFINE job == [Job(p) EXCEPT !.cert = cert, !.pc = to]
  <2>2. /\ DOMAIN job = JobField /\ job.pc = to /\ job.verify = Job(p).verify
        /\ job.files = Job(p).files /\ job.id = Job(p).id
    BY <1>0 DEF JobField
  <2> HIDE DEF job
  <2>3. NoFiles(job)
    BY <1>0, <2>2 DEF NoFiles
  <2> QED BY <1>0, <2>1, <2>2, <2>3, GoesNoFiles DEF job
<1>3. CASE ReadKey(p)
  <2>1. PICK id : /\ Goes(p, [Job(p) EXCEPT !.pc = "build", !.id = id])
                  /\ id # NoPair => id = <<id[1], id[2]>>
    <3>1. PICK io \in BOOLEAN : Goes(p, [Job(p) EXCEPT !.pc = "build",
             !.id = IF io /\ Exists("key") /\ Matches(Job(p).cert, disk["key"])
                    THEN <<Job(p).cert, disk["key"]>> ELSE NoPair])
      BY <1>3 DEF ReadKey
    <3> DEFINE id == IF io /\ Exists("key") /\ Matches(Job(p).cert, disk["key"])
                     THEN <<Job(p).cert, disk["key"]>> ELSE NoPair
    <3>2. id # NoPair => id = <<id[1], id[2]>>
      OBVIOUS
    <3> QED BY <3>1, <3>2
  <2> DEFINE job == [Job(p) EXCEPT !.pc = "build", !.id = id]
  <2>2. /\ DOMAIN job = JobField /\ job.pc = "build" /\ job.verify = Job(p).verify
        /\ job.files = Job(p).files /\ job.id = id
    BY <1>0 DEF JobField
  <2> HIDE DEF job
  <2>3. NoFiles(job)
    BY <1>0, <2>1, <2>2 DEF NoFiles
  <2> QED BY <1>0, <2>1, <2>2, <2>3, GoesNoFiles DEF job
<1> QED BY <1>1, <1>2, <1>3

LEMMA MaterialRaisesOwn == ASSUME OwnInv, NEW p \in Proc, MaterialRaises(p) PROVE OwnInv'
<1>0. DOMAIN Job(p) = JobField /\ ToSet(Job(p).files) = {} /\ NoFiles(Job(p)) /\ proc[p].up
  BY EarlyFacts DEF MaterialRaises, At, Early
<1>1. CASE conf.protocol = "grpc"
  BY <1>0, <1>1, PlaceholderOwn DEF MaterialRaises
<1>2. CASE conf.protocol # "grpc"
  <2> DEFINE job == [Idle EXCEPT !.pc = "build", !.plain = ~conf.force]
  <2>1. Goes(p, job)
    BY <1>2 DEF MaterialRaises
  <2>2. DOMAIN job = JobField /\ job.verify = "system" /\ job.files = <<>> /\ job.id = NoPair /\ job.pc = "build"
    BY IdleOK DEF JobField
  <2> HIDE DEF job
  <2>3. NoFiles(job)
    BY <2>2 DEF NoFiles
  <2> QED BY <1>0, <2>1, <2>2, <2>3, GoesNoFiles
<1> QED BY <1>1, <1>2

LEMMA PlainOwn ==
  ASSUME OwnInv, NEW p \in Proc, GrpcPlain(p) \/ SessionPlain(p) PROVE OwnInv'
<1>0. DOMAIN Job(p) = JobField /\ ToSet(Job(p).files) = {} /\ NoFiles(Job(p)) /\ proc[p].up
  BY EarlyFacts DEF GrpcPlain, SessionPlain, At, Early
<1>1. Built(p, "plain", Job(p)) \/ PlaceholderChannel(p)
  BY DEF GrpcPlain, SessionPlain
<1> QED BY <1>0, <1>1, BuiltNoFiles, PlaceholderOwn

LEMMA GrpcSecureOwn == ASSUME OwnInv, NEW p \in Proc, GrpcSecure(p) PROVE OwnInv'
<1> DEFINE job == Job(p)
           full == [job EXCEPT !.verify = IF job.root = None THEN "system" ELSE "memory"]
<1>0. DOMAIN job = JobField /\ ToSet(job.files) = {} /\ NoFiles(job) /\ proc[p].up
  BY EarlyFacts DEF GrpcSecure, At, Early
<1>1. \/ Built(p, "tls", full)
      \/ \E kind, n : Built(p, kind, [full EXCEPT !.id = NoPair, !.fails = n])
      \/ Built(p, "tls", [job EXCEPT !.root = None, !.fails = 1])
      \/ \E n : Built(p, "plain", [job EXCEPT !.fails = n])
      \/ PlaceholderChannel(p)
  BY Zenon DEF GrpcSecure
<1>8. PlaceholderChannel(p) => OwnInv'
  BY <1>0, PlaceholderOwn
<1>2. ToSet(Job(p).files) \subseteq published
  BY <1>0
<1> HIDE DEF job
<1>3. /\ DOMAIN full = JobField /\ full.verify \in {"system", "memory"} /\ full.files = job.files
      /\ full.id = job.id
  BY <1>0 DEF JobField
<1> HIDE DEF full
<1>4. NoFiles(full)
  BY <1>0, <1>3 DEF NoFiles
<1>5. ASSUME NEW kind, NEW n, Built(p, kind, [full EXCEPT !.id = NoPair, !.fails = n]) PROVE OwnInv'
  <2> DEFINE given == [full EXCEPT !.id = NoPair, !.fails = n]
  <2>1. DOMAIN given = JobField /\ given.verify = full.verify /\ given.files = full.files /\ given.id = NoPair
    BY <1>3 DEF JobField
  <2> HIDE DEF given
  <2>2. NoFiles(given)
    BY <1>4, <2>1 DEF NoFiles
  <2> QED BY <1>0, <1>2, <1>5, <2>1, <2>2, BuiltNoFiles DEF given
<1>6. ASSUME Built(p, "tls", [job EXCEPT !.root = None, !.fails = 1]) PROVE OwnInv'
  <2> DEFINE given == [job EXCEPT !.root = None, !.fails = 1]
  <2>1. DOMAIN given = JobField /\ given.verify = job.verify /\ given.files = job.files /\ given.id = job.id
    BY <1>0 DEF JobField
  <2> HIDE DEF given
  <2>2. NoFiles(given)
    BY <1>0, <2>1 DEF NoFiles
  <2> QED BY <1>0, <1>2, <1>6, <2>1, <2>2, BuiltNoFiles DEF given
<1>7. ASSUME NEW n, Built(p, "plain", [job EXCEPT !.fails = n]) PROVE OwnInv'
  <2> DEFINE given == [job EXCEPT !.fails = n]
  <2>1. DOMAIN given = JobField /\ given.verify = job.verify /\ given.files = job.files /\ given.id = job.id
    BY <1>0 DEF JobField
  <2> HIDE DEF given
  <2>2. NoFiles(given)
    BY <1>0, <2>1 DEF NoFiles
  <2> QED BY <1>0, <1>2, <1>7, <2>1, <2>2, BuiltNoFiles DEF given
<1> QED
  BY <1>0, <1>1, <1>8, <1>2, <1>3, <1>4, <1>5, <1>6, <1>7, BuiltNoFiles

LEMMA SessionBeginOwn == ASSUME OwnInv, NEW p \in Proc, SessionBegin(p) PROVE OwnInv'
<1> DEFINE old == Job(p)
<1>0. DOMAIN old = JobField /\ ToSet(old.files) = {} /\ NoFiles(old) /\ proc[p].up
  BY EarlyFacts DEF SessionBegin, At, Early
<1>1. \/ \E to \in {"identity", "ca file"} : Goes(p, [old EXCEPT !.pc = to])
      \/ Goes(p, [old EXCEPT !.pc = "identity", !.verify = "memory"])
      \/ DefaultContext(p, old)
  BY Zenon DEF SessionBegin
<1>2. ToSet(Job(p).files) = {}
  BY <1>0
<1> HIDE DEF old
<1>3. ASSUME NEW to \in {"identity", "ca file"}, Goes(p, [old EXCEPT !.pc = to]) PROVE OwnInv'
  <2> DEFINE job == [old EXCEPT !.pc = to]
  <2>1. /\ DOMAIN job = JobField /\ job.verify = old.verify /\ job.files = old.files /\ job.id = old.id
        /\ job.pc = to
    BY <1>0 DEF JobField
  <2> HIDE DEF job
  <2>2. NoFiles(job)
    BY <1>0, <2>1 DEF NoFiles
  <2> QED BY <1>2, <1>3, <2>1, <2>2, GoesNoFiles DEF job
<1>4. CASE Goes(p, [old EXCEPT !.pc = "identity", !.verify = "memory"])
  <2> DEFINE job == [old EXCEPT !.pc = "identity", !.verify = "memory"]
  <2>1. /\ DOMAIN job = JobField /\ job.verify = "memory" /\ job.files = old.files /\ job.id = old.id
        /\ job.pc = "identity"
    BY <1>0 DEF JobField
  <2> HIDE DEF job
  <2>2. NoFiles(job)
    BY <1>0, <2>1 DEF NoFiles
  <2> QED BY <1>2, <1>4, <2>1, <2>2, GoesNoFiles DEF job
<1>5. CASE DefaultContext(p, old)
  BY <1>0, <1>2, <1>5, DefaultOwn DEF NoFiles
<1> QED
  BY <1>1, <1>3, <1>4, <1>5

LEMMA CaFileOwn == ASSUME OwnInv, NEW p \in Proc, CaFile(p) PROVE OwnInv'
<1> DEFINE old == Job(p)
           to == IF conf.protocol = "http" THEN "identity" ELSE "load"
           base == [old EXCEPT !.pc = to, !.verify = "temp"]
           n == NewName(p)
<1>0. /\ DOMAIN proc[p] = ProcField /\ DOMAIN old = JobField /\ old.files = <<>> /\ ToSet(old.files) = {}
      /\ old.id # NoPair => old.id = <<old.id[1], old.id[2]>>
      /\ CacheHeld(p, proc[p].ca, temps, published) /\ CacheHeld(p, proc[p].mtls, temps, published)
  BY EarlyFacts, OwnFacts DEF CaFile, At, ProcessOwns
<1>1. proc[p].up /\ to \in {"identity", "load"} /\ ToSet(Job(p).files) = {}
  BY <1>0 DEF CaFile, At
<1>2. \/ CaCached(p) /\ Goes(p, [base EXCEPT !.ca = proc[p].ca.files[1]])
      \/ /\ Written(p, old.root, [proc[p] EXCEPT !.ca = [data |-> <<old.root>>, files |-> <<n>>],
                                               !.job = [base EXCEPT !.ca = n]])
         /\ published' = published \cup {n}
  BY Zenon DEF CaFile
<1>3. CaCached(p) => proc[p].ca.data = <<old.root>>
  BY DEF CaCached
<1> HIDE DEF old, to
<1>4. /\ DOMAIN base = JobField /\ base.root = old.root /\ base.id = old.id /\ base.files = old.files
      /\ base.pc = to /\ base.verify = "temp"
  BY <1>0 DEF JobField
<1> HIDE DEF base
<1>5. ASSUME NEW f PROVE
        LET job == [base EXCEPT !.ca = f]
        IN /\ DOMAIN job = JobField /\ job.root = old.root /\ job.id = old.id /\ job.files = <<>>
           /\ job.pc = to /\ job.verify = "temp" /\ job.ca = f
  BY <1>0, <1>4 DEF JobField
<1>6. CASE CaCached(p) /\ Goes(p, [base EXCEPT !.ca = proc[p].ca.files[1]])
  <2> DEFINE f == proc[p].ca.files[1]
             job == [base EXCEPT !.ca = f]
  <2>1. 1 \in DOMAIN <<old.root>> /\ <<old.root>>[1] = old.root
    OBVIOUS
  <2>2. Held(p, f, old.root, temps, published)
    BY <1>0, <1>3, <1>6, <2>1 DEF CacheHeld, AllHeld
  <2>3. Goes(p, job)
    BY <1>6
  <2> HIDE DEF f
  <2>4. /\ DOMAIN job = JobField /\ job.root = old.root /\ job.id = old.id /\ job.files = <<>>
        /\ job.pc = to /\ job.verify = "temp" /\ job.ca = f
    BY <1>5
  <2> HIDE DEF job
  <2>5. JobHeld(p, job, proc[p], temps, published)
    BY <1>0, <1>1, <2>2, <2>4 DEF JobHeld, SessionPc
  <2> QED BY <1>1, <2>3, <2>4, <2>5, GoesOwn
<1>7. CASE /\ Written(p, old.root, [proc[p] EXCEPT !.ca = [data |-> <<old.root>>, files |-> <<n>>],
                                                 !.job = [base EXCEPT !.ca = n]])
           /\ published' = published \cup {n}
  <2> DEFINE job == [base EXCEPT !.ca = n]
             cache == [data |-> <<old.root>>, files |-> <<n>>]
             process == [proc[p] EXCEPT !.ca = cache, !.job = job]
             P == [process EXCEPT !.files = @ \cup {NewName(p)}, !.written = @ + 1]
  <2>1. Written(p, old.root, process) /\ published' = published \cup {n}
    BY <1>7
  <2>2. temps' = temps \cup {[id |-> n, data |-> old.root]}
    BY <2>1 DEF Written
  <2>3. n[1] = p
    BY NewNameFresh
  <2>4. cache.files = <<n>> /\ cache.data = <<old.root>>
    OBVIOUS
  <2>5. /\ DOMAIN job = JobField /\ job.root = old.root /\ job.id = old.id /\ job.files = <<>>
        /\ job.pc = to /\ job.verify = "temp" /\ job.ca = n
    BY <1>5
  <2> HIDE DEF job, cache
  <2>6. /\ DOMAIN process = ProcField /\ process.job = job /\ process.ca = cache
        /\ process.mtls = proc[p].mtls /\ process.up = proc[p].up /\ process.files = proc[p].files
        /\ process.written = proc[p].written
    BY <1>0 DEF ProcField
  <2> HIDE DEF process
  <2>7. n \in P.files
    BY <2>6 DEF ProcField
  <2>8. Held(p, n, old.root, temps', published')
    BY <2>1, <2>2, <2>3 DEF Held
  <2> HIDE DEF n
  <2>9. CacheHeld(p, cache, temps', published')
    <3>1. DOMAIN cache.files = {1} /\ DOMAIN cache.data = {1} /\ cache.files[1] = n /\ cache.data[1] = old.root
      BY <2>4
    <3> QED BY <2>8, <3>1 DEF CacheHeld, AllHeld
  <2>10. CacheHeld(p, proc[p].mtls, temps', published')
    <3>1. temps \subseteq temps' /\ published \subseteq published'
      BY <2>1, <2>2
    <3> QED BY <1>0, <3>1, AllHeldGrow DEF CacheHeld
  <2>11. JobHeld(p, job, P, temps', published')
    BY <1>0, <1>1, <2>5, <2>8 DEF JobHeld, SessionPc
  <2>12. /\ DOMAIN process.job = JobField
         /\ CacheHeld(p, process.ca, temps', published') /\ CacheHeld(p, process.mtls, temps', published')
         /\ JobHeld(p, process.job, P, temps', published')
    BY <2>5, <2>6, <2>9, <2>10, <2>11
  <2>13. /\ published \subseteq published'
         /\ \A f \in published' \ published : f[1] = p /\ f \in P.files
         /\ ToSet(Job(p).files) \cup {NewName(p)} \subseteq published' \cup ToSet(process.job.files)
    BY <1>1, <2>1, <2>3, <2>7 DEF n
  <2> HIDE DEF P
  <2>14. P = [process EXCEPT !.files = @ \cup {NewName(p)}, !.written = @ + 1]
    BY DEF P
  <2>15. /\ Written(p, old.root, process) /\ proc[p].up /\ DOMAIN process = ProcField
         /\ process.up = proc[p].up /\ process.files = proc[p].files
         /\ process.written = proc[p].written
    BY <1>1, <2>1, <2>6
  <2> QED
    BY ZenonT(60), <2>12, <2>13, <2>14, <2>15, WrittenOwn
<1> QED
  BY <1>2, <1>6, <1>7

LEMMA CaLoadsOwn == ASSUME OwnInv, NEW p \in Proc, CaLoads(p) PROVE OwnInv'
<1> DEFINE old == Job(p)
           job == [old EXCEPT !.pc = "identity"]
<1>0. /\ DOMAIN old = JobField /\ old.files = <<>> /\ ToSet(Job(p).files) = {}
      /\ JobHeld(p, old, proc[p], temps, published)
  BY EarlyFacts, OwnFacts DEF CaLoads, At
<1>1. Goes(p, job)
  BY DEF CaLoads
<1> HIDE DEF old
<1>2. /\ DOMAIN job = JobField /\ job.root = old.root /\ job.id = old.id /\ job.files = <<>>
      /\ job.pc = "identity" /\ job.verify = old.verify /\ job.ca = old.ca
  BY <1>0 DEF JobField
<1> HIDE DEF job
<1>3. JobHeld(p, job, proc[p], temps, published)
  BY <1>0, <1>2 DEF JobHeld, SessionPc
<1> QED BY <1>0, <1>1, <1>2, <1>3, GoesOwn

LEMMA CaFileFailsOwn == ASSUME OwnInv, NEW p \in Proc, CaFileFails(p) PROVE OwnInv'
<1> DEFINE old == Job(p)
           job == [old EXCEPT !.pc = "identity", !.verify = "system", !.ca = None, !.fails = 1]
           lost == [job EXCEPT !.lostCa = TRUE]
<1>0. /\ DOMAIN old = JobField /\ old.files = <<>> /\ ToSet(Job(p).files) = {} /\ proc[p].up
      /\ old.id # NoPair => old.id = <<old.id[1], old.id[2]>>
  BY EarlyFacts DEF CaFileFails, At
<1>1. \/ Goes(p, [job EXCEPT !.verify = "path"]) \/ Goes(p, lost)
      \/ Goes(p, [lost EXCEPT !.id = NoPair]) \/ DefaultContext(p, lost)
  BY Zenon DEF CaFileFails
<1> HIDE DEF old
<1>2. /\ DOMAIN job = JobField /\ job.id = old.id /\ job.files = <<>> /\ job.verify = "system"
      /\ job.pc = "identity"
  BY <1>0 DEF JobField
<1> HIDE DEF job
<1>3. /\ DOMAIN lost = JobField /\ lost.id = old.id /\ lost.files = <<>> /\ lost.verify = "system"
      /\ lost.pc = "identity"
  BY <1>2 DEF JobField
<1> HIDE DEF lost
<1>4. NoFiles(lost)
  BY <1>0, <1>3 DEF NoFiles
<1>5. CASE Goes(p, [job EXCEPT !.verify = "path"])
  <2> DEFINE next == [job EXCEPT !.verify = "path"]
  <2>1. /\ DOMAIN next = JobField /\ next.id = old.id /\ next.files = <<>> /\ next.verify = "path"
        /\ next.pc = "identity"
    BY <1>2 DEF JobField
  <2> HIDE DEF next
  <2>2. NoFiles(next)
    BY <1>0, <2>1 DEF NoFiles
  <2> QED BY <1>0, <1>5, <2>1, <2>2, GoesNoFiles DEF next
<1>6. CASE Goes(p, [lost EXCEPT !.id = NoPair])
  <2> DEFINE next == [lost EXCEPT !.id = NoPair]
  <2>1. /\ DOMAIN next = JobField /\ next.id = NoPair /\ next.files = <<>> /\ next.verify = "system"
        /\ next.pc = "identity"
    BY <1>3 DEF JobField
  <2> HIDE DEF next
  <2>2. NoFiles(next)
    BY <2>1 DEF NoFiles
  <2> QED BY <1>0, <1>6, <2>1, <2>2, GoesNoFiles DEF next
<1> QED
  BY <1>0, <1>1, <1>3, <1>4, <1>5, <1>6, GoesNoFiles, DefaultOwn

LEMMA SessionRaisesOwn == ASSUME OwnInv, NEW p \in Proc, SessionRaises(p) PROVE OwnInv'
<1> DEFINE old == Job(p)
           gone == old.root # None /\ ~Exists("ca")
           how == IF Exists("ca") THEN "path" ELSE "system"
           job == [old EXCEPT !.id = NoPair, !.files = <<>>, !.ca = None, !.raised = TRUE,
                              !.lostCa = gone, !.verify = how]
<1>0. DOMAIN old = JobField /\ proc[p].up /\ Built(p, "tls", job) /\ how # "temp"
  BY OwnFacts DEF SessionRaises, At
<1> HIDE DEF old, gone, how
<1>1. DOMAIN job = JobField /\ job.id = NoPair /\ job.files = <<>> /\ job.verify = how /\ job.raised = TRUE
  BY <1>0 DEF JobField
<1> HIDE DEF job
<1>2. NoFiles(job)
  BY <1>0, <1>1 DEF NoFiles
<1> QED BY <1>0, <1>1, <1>2, BuiltNoFiles

LEMMA IdentityOwn == ASSUME OwnInv, NEW p \in Proc, Identity(p) PROVE OwnInv'
<1> DEFINE old == Job(p)
           cache == proc[p].mtls
<1>0. /\ DOMAIN old = JobField /\ JobHeld(p, old, proc[p], temps, published)
      /\ CacheHeld(p, cache, temps, published)
  BY OwnFacts DEF ProcessOwns
<1>1. proc[p].up /\ old.pc = "identity"
  BY DEF Identity, At
<1>2. \/ old.id = NoPair /\ Built(p, "tls", old)
      \/ cache.data = old.id /\ Built(p, "tls", [old EXCEPT !.files = cache.files])
      \/ Built(p, "tls", [old EXCEPT !.id = NoPair, !.files = <<>>])
  BY Zenon DEF Identity, IdentityCached
<1>3. ToSet(Job(p).files) \subseteq published
  <2>1. CASE old.files = <<>>
    BY <2>1, NoElements
  <2>2. CASE old.files # <<>>
    BY <1>0, <1>1, <2>2 DEF JobHeld
  <2> QED BY <2>1, <2>2
<1> HIDE DEF old, cache
<1>4. old.verify = "temp" => Held(p, old.ca, old.root, temps, published)
  BY <1>0 DEF JobHeld
<1>5. CASE old.id = NoPair /\ Built(p, "tls", old)
  <2>1. old.files = <<>>
    BY <1>0, <1>5 DEF JobHeld
  <2>2. ClientHeld(p, old, temps, published)
    BY <1>4, <2>1, NoElements DEF ClientHeld, AllHeld
  <2> QED BY <1>0, <1>1, <1>3, <1>5, <2>2, BuiltOwn
<1>6. CASE cache.data = old.id /\ Built(p, "tls", [old EXCEPT !.files = cache.files])
  <2> DEFINE job == [old EXCEPT !.files = cache.files]
  <2>1. /\ DOMAIN job = JobField /\ job.verify = old.verify /\ job.ca = old.ca /\ job.root = old.root
        /\ job.id = old.id /\ job.files = cache.files
    BY <1>0 DEF JobField
  <2> HIDE DEF job
  <2>2. ClientHeld(p, job, temps, published)
    BY <1>0, <1>4, <1>6, <2>1 DEF ClientHeld, CacheHeld
  <2> QED BY <1>1, <1>3, <1>6, <2>1, <2>2, BuiltOwn DEF job
<1>7. CASE Built(p, "tls", [old EXCEPT !.id = NoPair, !.files = <<>>])
  <2> DEFINE job == [old EXCEPT !.id = NoPair, !.files = <<>>]
  <2>1. /\ DOMAIN job = JobField /\ job.verify = old.verify /\ job.ca = old.ca /\ job.root = old.root
        /\ job.files = <<>>
    BY <1>0 DEF JobField
  <2> HIDE DEF job
  <2>2. ClientHeld(p, job, temps, published)
    BY <1>4, <2>1, NoElements DEF ClientHeld, AllHeld
  <2> QED BY <1>1, <1>3, <1>7, <2>1, <2>2, BuiltOwn DEF job
<1> QED
  BY <1>2, <1>5, <1>6, <1>7

LEMMA CertFileOwn == ASSUME OwnInv, NEW p \in Proc, CertFile(p) PROVE OwnInv'
<1> DEFINE old == Job(p)
           n == NewName(p)
<1>0. /\ DOMAIN old = JobField /\ JobHeld(p, old, proc[p], temps, published)
      /\ DOMAIN proc[p] = ProcField /\ proc[p].job = old
      /\ CacheHeld(p, proc[p].ca, temps, published) /\ CacheHeld(p, proc[p].mtls, temps, published)
  BY OwnFacts DEF ProcessOwns
<1>1. proc[p].up /\ old.pc = "identity" /\ old.id # NoPair /\ proc[p].mtls.data # old.id
  BY DEF CertFile, At, IdentityCached
<1>2. \/ /\ Written(p, old.id[1], [proc[p] EXCEPT !.job.pc = "key file", !.job.files = <<n>>])
         /\ published' = published
      \/ Built(p, "tls", [old EXCEPT !.id = NoPair])
  BY DEF CertFile
<1>3. old.files = <<>> /\ ToSet(Job(p).files) = {}
  BY <1>0, <1>1, NoElements DEF JobHeld
<1> HIDE DEF old
<1>4. CASE Built(p, "tls", [old EXCEPT !.id = NoPair])
  <2> DEFINE job == [old EXCEPT !.id = NoPair]
  <2>1. /\ DOMAIN job = JobField /\ job.verify = old.verify /\ job.ca = old.ca /\ job.root = old.root
        /\ job.files = <<>>
    BY <1>0, <1>3 DEF JobField
  <2> HIDE DEF job
  <2>2. ClientHeld(p, job, temps, published)
    BY <1>0, <2>1, NoElements DEF ClientHeld, AllHeld, JobHeld
  <2> QED BY <1>1, <1>3, <1>4, <2>1, <2>2, BuiltOwn DEF job
<1>5. CASE /\ Written(p, old.id[1], [proc[p] EXCEPT !.job.pc = "key file", !.job.files = <<n>>])
           /\ published' = published
  <2> DEFINE process == [proc[p] EXCEPT !.job.pc = "key file", !.job.files = <<n>>]
             job == process.job
             P == [process EXCEPT !.files = @ \cup {NewName(p)}, !.written = @ + 1]
  <2>1. Written(p, old.id[1], process) /\ published' = published
    BY <1>5
  <2>2. temps' = temps \cup {[id |-> n, data |-> old.id[1]]}
    BY <2>1 DEF Written
  <2>3. n[1] = p /\ n \notin published
    BY NewNameFresh
  <2>4. /\ DOMAIN process = ProcField /\ process.ca = proc[p].ca
        /\ process.mtls = proc[p].mtls /\ process.up = proc[p].up /\ process.files = proc[p].files
        /\ process.written = proc[p].written
    BY <1>0 DEF ProcField
  <2>5. job = [old EXCEPT !.pc = "key file", !.files = <<n>>]
    BY <1>0 DEF ProcField, JobField
  <2> HIDE DEF process, job
  <2>6. n \in P.files
    BY <2>4 DEF ProcField
  <2> HIDE DEF n
  <2>7. /\ DOMAIN job = JobField /\ job.root = old.root /\ job.id = old.id /\ job.files = <<n>>
        /\ job.pc = "key file" /\ job.verify = old.verify /\ job.ca = old.ca
    BY <1>0, <2>5 DEF JobField
  <2>8. temps \subseteq temps' /\ published \subseteq published'
    BY <2>1, <2>2
  <2>9. /\ CacheHeld(p, process.ca, temps', published') /\ CacheHeld(p, process.mtls, temps', published')
    BY <1>0, <2>4, <2>8, AllHeldGrow DEF CacheHeld
  <2>10. HalfPair(job, P, temps', published')
    <3>1. job.files[1] = n
      BY <2>7, OneElement
    <3> QED BY <2>1, <2>2, <2>3, <2>6, <2>7, <3>1 DEF HalfPair
  <2>11. job.verify = "temp" => Held(p, job.ca, job.root, temps', published')
    BY <1>0, <2>7, <2>8 DEF JobHeld, Held
  <2>12. JobHeld(p, job, P, temps', published')
    BY <1>0, <1>1, <2>7, <2>10, <2>11 DEF JobHeld, SessionPc
  <2>13. n \in ToSet(job.files)
    BY <2>7, OneElement
  <2>14. /\ \A f \in published' \ published : f[1] = p /\ f \in P.files
         /\ ToSet(Job(p).files) \cup {NewName(p)} \subseteq published' \cup ToSet(process.job.files)
         /\ DOMAIN process.job = JobField
         /\ JobHeld(p, process.job, P, temps', published')
    BY <1>3, <2>1, <2>7, <2>12, <2>13 DEF n, job
  <2> HIDE DEF P
  <2>15. P = [process EXCEPT !.files = @ \cup {NewName(p)}, !.written = @ + 1]
    BY DEF P
  <2> QED
    BY <1>1, <2>1, <2>4, <2>8, <2>9, <2>14, <2>15, WrittenOwn
<1> QED
  BY <1>2, <1>4, <1>5

LEMMA Appended ==
  ASSUME NEW x, NEW y
  PROVE  LET s == Append(<<x>>, y) IN DOMAIN s = {1, 2} /\ s[1] = x /\ s[2] = y
<1> DEFINE s == <<x>>
           a == Append(s, y)
<1>1. s \in Seq({x, y}) /\ Len(s) = 1 /\ s[1] = x
  OBVIOUS
<1> HIDE DEF s
<1> DEFINE S == {x, y}
<1>5. s \in Seq(S) /\ y \in S
  BY <1>1
<1> HIDE DEF S
<1>6. a \in Seq(S) /\ Len(a) = Len(s) + 1
  BY <1>5
<1>7. (\A i \in 1..Len(s) : a[i] = s[i]) /\ a[Len(s) + 1] = y
  BY <1>5, AppendProperties
<1>2. a \in Seq(S) /\ Len(a) = 2 /\ a[1] = x /\ a[2] = y
  BY <1>1, <1>6, <1>7
<1> HIDE DEF a
<1>3. DOMAIN a = 1..2
  BY <1>2
<1>4. DOMAIN a = {1, 2}
  BY <1>3
<1> QED BY <1>2, <1>4 DEF a, s

LEMMA KeyFileOwn == ASSUME OwnInv, NEW p \in Proc, KeyFile(p) PROVE OwnInv'
<1> DEFINE old == Job(p)
           n == NewName(p)
           m == old.files[1]
           pair == Append(old.files, n)
<1>0. /\ DOMAIN old = JobField /\ JobHeld(p, old, proc[p], temps, published)
      /\ DOMAIN proc[p] = ProcField /\ proc[p].job = old
      /\ CacheHeld(p, proc[p].ca, temps, published)
      /\ \A f \in proc[p].files : f[1] = p
  BY OwnFacts DEF ProcessOwns
<1>1. proc[p].up /\ old.pc = "key file"
  BY DEF KeyFile, At
<1>2. /\ Written(p, old.id[2], [proc[p] EXCEPT !.mtls = [data |-> old.id, files |-> pair],
                                              !.job.pc = "identity"])
      /\ published' = published \cup ToSet(pair)
  BY DEF KeyFile
<1>3. old.id # NoPair /\ HalfPair(old, proc[p], temps, published) /\ old.id = <<old.id[1], old.id[2]>>
  BY <1>0, <1>1 DEF JobHeld
<1>4. old.files = <<m>> /\ m \in proc[p].files /\ [id |-> m, data |-> old.id[1]] \in temps
  BY <1>3 DEF HalfPair
<1> HIDE DEF m
<1>5. /\ DOMAIN pair = {1, 2} /\ pair[1] = m /\ pair[2] = n
      /\ ToSet(pair) = {m, n}
  <2>1. DOMAIN pair = {1, 2} /\ pair[1] = m /\ pair[2] = n
    BY <1>4, Appended
  <2> HIDE DEF pair
  <2>2. ToSet(pair) = {m, n}
    BY <2>1 DEF ToSet
  <2> QED BY <2>1, <2>2
<1> HIDE DEF pair
<1>6. n[1] = p /\ m[1] = p
  BY <1>0, <1>4, NewNameFresh
<1> DEFINE cache == [data |-> old.id, files |-> pair]
           process == [proc[p] EXCEPT !.mtls = cache, !.job.pc = "identity"]
           job == process.job
           P == [process EXCEPT !.files = @ \cup {NewName(p)}, !.written = @ + 1]
<1>7. Written(p, old.id[2], process) /\ published' = published \cup {m, n}
  BY <1>2, <1>5
<1>8. temps' = temps \cup {[id |-> n, data |-> old.id[2]]}
  BY <1>7 DEF Written
<1>9. cache.data = old.id /\ cache.files = pair
  OBVIOUS
<1> HIDE DEF cache, old
<1>10. /\ DOMAIN process = ProcField /\ process.ca = proc[p].ca
       /\ process.mtls = cache /\ process.up = proc[p].up /\ process.files = proc[p].files
       /\ process.written = proc[p].written
  BY <1>0 DEF ProcField
<1>11. job = [old EXCEPT !.pc = "identity"]
  BY <1>0 DEF ProcField, JobField
<1> HIDE DEF process, job
<1>12. P.files = proc[p].files \cup {n} /\ P.mtls = cache
  BY <1>10 DEF ProcField
<1> HIDE DEF n
<1>13. /\ DOMAIN job = JobField /\ job.root = old.root /\ job.id = old.id /\ job.files = old.files
       /\ job.pc = "identity" /\ job.verify = old.verify /\ job.ca = old.ca
  BY <1>0, <1>11 DEF JobField
<1>14. temps \subseteq temps' /\ published \subseteq published'
  BY <1>7, <1>8
<1>15. CacheHeld(p, process.ca, temps', published')
  BY <1>0, <1>10, <1>14, AllHeldGrow DEF CacheHeld
<1>16. CacheHeld(p, process.mtls, temps', published')
  <2>1. Held(p, m, old.id[1], temps', published') /\ Held(p, n, old.id[2], temps', published')
    BY <1>4, <1>6, <1>7, <1>8 DEF Held
  <2>2. DOMAIN old.id = {1, 2}
    <3>1. DOMAIN <<old.id[1], old.id[2]>> = {1, 2}
      OBVIOUS
    <3> QED BY <1>3, <3>1
  <2>3. AllHeld(p, pair, old.id, temps', published')
    BY <1>5, <2>1 DEF AllHeld
  <2> QED BY <1>5, <1>9, <1>10, <2>2, <2>3 DEF CacheHeld
<1>17. job.verify = "temp" => Held(p, job.ca, job.root, temps', published')
  BY <1>0, <1>13, <1>14 DEF JobHeld, Held
<1>18. ToSet(job.files) = {m} /\ ToSet(Job(p).files) = {m}
  BY <1>4, <1>13, OneElement DEF old
<1>19. P.mtls.data = job.id /\ ToSet(job.files) \subseteq published' \cap P.files
  BY <1>4, <1>7, <1>9, <1>12, <1>13, <1>18
<1>20. JobHeld(p, job, P, temps', published')
  BY <1>3, <1>13, <1>17, <1>19 DEF JobHeld, SessionPc
<1>21. /\ \A f \in published' \ published : f[1] = p /\ f \in P.files
       /\ ToSet(Job(p).files) \cup {NewName(p)} \subseteq published' \cup ToSet(process.job.files)
       /\ DOMAIN process.job = JobField
       /\ JobHeld(p, process.job, P, temps', published')
  BY <1>4, <1>6, <1>7, <1>12, <1>13, <1>18, <1>20 DEF n, job
<1> HIDE DEF P
<1>22. P = [process EXCEPT !.files = @ \cup {NewName(p)}, !.written = @ + 1]
  BY DEF P
<1>23. Written(p, old.id[2], process)
  BY <1>7
<1> QED
  BY <1>1, <1>23, <1>10, <1>14, <1>15, <1>16, <1>21, <1>22, WrittenOwn

(* What is held survives the removal of files that nobody published.       *)
LEMMA HeldUnlinked ==
  ASSUME NEW p, NEW ids, NEW ts, NEW pub, ids \cap pub = {}
  PROVE  LET left == {t \in ts : t.id \notin ids}
         IN /\ \A name, data : Held(p, name, data, ts, pub) => Held(p, name, data, left, pub)
            /\ \A names, texts : AllHeld(p, names, texts, ts, pub) => AllHeld(p, names, texts, left, pub)
            /\ \A by : ClientHeld(p, by, ts, pub) => ClientHeld(p, by, left, pub)
<1> DEFINE left == {t \in ts : t.id \notin ids}
<1>1. ASSUME NEW name, NEW data, Held(p, name, data, ts, pub) PROVE Held(p, name, data, left, pub)
  <2>1. [id |-> name, data |-> data].id = name
    OBVIOUS
  <2> QED BY <1>1, <2>1 DEF Held
<1> HIDE DEF left
<1>2. ASSUME NEW names, NEW texts, AllHeld(p, names, texts, ts, pub) PROVE AllHeld(p, names, texts, left, pub)
  BY <1>1, <1>2 DEF AllHeld
<1>3. ASSUME NEW by, ClientHeld(p, by, ts, pub) PROVE ClientHeld(p, by, left, pub)
  BY <1>1, <1>2, <1>3 DEF ClientHeld
<1> QED BY <1>1, <1>2, <1>3 DEF left

LEMMA KeyFileFailsOwn == ASSUME OwnInv, NEW p \in Proc, KeyFileFails(p) PROVE OwnInv'
<1> DEFINE old == Job(p)
           m == old.files[1]
           job == [old EXCEPT !.pc = "identity", !.id = NoPair, !.files = <<>>]
           P == [proc[p] EXCEPT !.files = @ \ {m}, !.job = job]
<1>0. /\ DOMAIN proc = Proc /\ DOMAIN proc[p] = ProcField /\ proc[p].job = old /\ DOMAIN old = JobField
      /\ ProcessOwns(p, proc[p], temps, published)
      /\ JobHeld(p, old, proc[p], temps, published)
      /\ \A f \in published : f[1] = p => f \in proc[p].files
      /\ \A t \in temps : t.id[1] = p => proc[p].up /\ t.id \in proc[p].files
      /\ \A c \in clients : c.proc = p => proc[p].up /\ ClientHeld(p, c.by, temps, published)
      /\ NothingLiesAbout(p)
  BY OwnFacts
<1>1. HalfPair(old, proc[p], temps, published)
  BY <1>0 DEF JobHeld, KeyFileFails, At
<1>2. old.files = <<m>> /\ m \in proc[p].files /\ m \notin published
  BY <1>1 DEF HalfPair
<1>3. ToSet(old.files) = {m} /\ m[1] = p
  <2> HIDE DEF m
  <2>1. m[1] = p
    BY <1>0, <1>2 DEF ProcessOwns
  <2> QED BY <1>2, <2>1, OneElement
<1>4. /\ temps' = {t \in temps : t.id \notin {m}} /\ published' = published /\ clients' = clients
      /\ proc' = [proc EXCEPT ![p].files = @ \ {m},
                              ![p].job = [@ EXCEPT !.pc = "identity", !.id = NoPair, !.files = <<>>]]
  BY <1>3 DEF KeyFileFails, Discard, Unlinked
<1> HIDE DEF m, old
<1>5. proc' = [proc EXCEPT ![p] = P]
  BY <1>0, <1>4 DEF ProcField
<1>6. /\ DOMAIN job = JobField /\ job.id = NoPair /\ job.files = <<>> /\ job.pc = "identity"
      /\ job.verify = old.verify /\ job.ca = old.ca /\ job.root = old.root
  BY <1>0 DEF JobField
<1> HIDE DEF job
<1>7. /\ DOMAIN P = ProcField /\ P.job = job /\ P.files = proc[p].files \ {m} /\ P.up = proc[p].up
      /\ P.written = proc[p].written /\ P.ca = proc[p].ca /\ P.mtls = proc[p].mtls
  BY <1>0 DEF ProcField
<1> HIDE DEF P
<1>8. /\ \A name, data : Held(p, name, data, temps, published) => Held(p, name, data, temps', published)
      /\ \A names, texts : AllHeld(p, names, texts, temps, published) => AllHeld(p, names, texts, temps', published)
      /\ \A by : ClientHeld(p, by, temps, published) => ClientHeld(p, by, temps', published)
  <2> DEFINE ids == {m}
  <2>1. ids \cap published = {}
    BY <1>2
  <2>2. temps' = {t \in temps : t.id \notin ids}
    BY <1>4
  <2> HIDE DEF ids
  <2> QED BY <2>1, <2>2, HeldUnlinked
<1>9. JobHeld(p, job, P, temps', published')
  BY <1>0, <1>4, <1>6, <1>8 DEF JobHeld, SessionPc
<1>10. ProcessOwns(p, P, temps', published')
  BY <1>0, <1>4, <1>7, <1>8, <1>9 DEF ProcessOwns, CacheHeld
<1>11. \A q \in Proc \ {p} : SameFor(q, temps, temps', published, published')
  BY <1>3, <1>4 DEF SameFor
<1>12. /\ \A f \in published' : IF f[1] = p THEN f \in P.files ELSE f \in published
       /\ \A t \in temps' : IF t.id[1] = p THEN P.up /\ t.id \in P.files ELSE t \in temps
       /\ \A c \in clients' : IF c.proc = p THEN P.up /\ ClientHeld(p, c.by, temps', published')
                               ELSE c \in clients
       /\ \A c \in clients : c.proc # p => c \in clients'
  BY <1>0, <1>2, <1>4, <1>7, <1>8
<1>13. (\A c \in clients' : c.proc = p => ~c.by.raised) =>
         P.files \subseteq published' \cup ToSet(P.job.files)
  BY <1>0, <1>3, <1>4, <1>7 DEF NothingLiesAbout
<1>14. DOMAIN P.job = JobField
  BY <1>6, <1>7
<1> QED
  BY <1>5, <1>7, <1>10, <1>11, <1>12, <1>13, <1>14, OwnStep

(* A process that was not started or has just begun, or is gone, owns      *)
(* nothing.                                                                *)
LEMMA FreshOwns ==
  ASSUME NEW p, NEW P, NEW ts, NEW pub, P.files = {}, P.written = 0, P.ca = NoCache, P.mtls = NoCache,
         P.job.verify = "system", P.job.files = <<>>, P.job.id = NoPair, P.job.pc # "key file"
  PROVE  ProcessOwns(p, P, ts, pub)
<1>1. NoCache.files = <<>> /\ NoCache.data = <<>>
  BY DEF NoCache, NoPair
<1>2. CacheHeld(p, P.ca, ts, pub) /\ CacheHeld(p, P.mtls, ts, pub)
  BY <1>1, NoElements DEF CacheHeld, AllHeld
<1>3. JobHeld(p, P.job, P, ts, pub)
  BY DEF JobHeld
<1>4. P.written \in Nat
  <2>1. 0 \in Nat
    OBVIOUS
  <2> QED BY <2>1, Zenon
<1>5. \A f : f \notin P.files
  OBVIOUS
<1> QED BY ONLY <1>2, <1>3, <1>4, <1>5 DEF ProcessOwns

LEMMA NewProcessShape ==
  /\ DOMAIN NewProcess = ProcField /\ NewProcess.files = {} /\ NewProcess.written = 0
  /\ NewProcess.ca = NoCache /\ NewProcess.mtls = NoCache /\ NewProcess.job = Idle
  /\ NewProcess.up = TRUE
BY DEF NewProcess, ProcField

LEMMA OwnInit == Init => OwnInv
<1>1. SUFFICES ASSUME Init PROVE OwnInv
  OBVIOUS
<1>2. ASSUME NEW p \in Proc
      PROVE /\ DOMAIN proc[p] = ProcField /\ proc[p].files = {} /\ proc[p].written = 0
            /\ proc[p].ca = NoCache /\ proc[p].mtls = NoCache /\ proc[p].job = Idle
  <2>1. proc[p] = [NewProcess EXCEPT !.up = p = First]
    BY <1>1 DEF Init
  <2> QED BY <2>1, NewProcessShape DEF ProcField
<1>3. ASSUME NEW p \in Proc PROVE ProcessOwns(p, proc[p], temps, published) /\ DOMAIN proc[p].job = JobField
  <2> DEFINE P == proc[p]
  <2>1. /\ P.files = {} /\ P.written = 0 /\ P.ca = NoCache /\ P.mtls = NoCache
        /\ P.job.verify = "system" /\ P.job.files = <<>> /\ P.job.id = NoPair /\ P.job.pc # "key file"
        /\ DOMAIN P.job = JobField
    BY <1>2, IdleOK
  <2> HIDE DEF P
  <2>2. ProcessOwns(p, P, temps, published)
    BY <2>1, FreshOwns
  <2> QED BY <2>1, <2>2 DEF P
<1>4. Shapes
  BY <1>1, <1>2, <1>3 DEF Shapes, Init
<1>5. temps = {} /\ clients = {} /\ published = {}
  BY <1>1 DEF Init
<1>6. \A p \in Proc : NothingLiesAbout(p)
  BY <1>2 DEF NothingLiesAbout
<1> QED
  BY <1>3, <1>4, <1>5, <1>6 DEF OwnInv

LEMMA ForkOwn == ASSUME OwnInv, NEW p \in Proc, NEW q \in Proc, Fork(p, q) PROVE OwnInv'
<1> DEFINE P == [NewProcess EXCEPT !.job = Idle]
<1>0. /\ \A f \in published : f[1] = q => f \in proc[q].files
      /\ \A t \in temps : t.id[1] = q => proc[q].up /\ t.id \in proc[q].files
      /\ \A c \in clients : c.proc = q => proc[q].up
  BY OwnFacts
<1>1. /\ proc' = [proc EXCEPT ![q] = P] /\ temps' = temps /\ published' = published
      /\ clients' = clients /\ proc[q] = [NewProcess EXCEPT !.up = FALSE]
  BY DEF Fork, Forked
<1>2. ~proc[q].up /\ proc[q].files = {}
  BY <1>1, NewProcessShape DEF ProcField
<1>3. /\ DOMAIN P = ProcField /\ P.files = {} /\ P.written = 0 /\ P.ca = NoCache
      /\ P.mtls = NoCache /\ P.job = Idle
  BY NewProcessShape DEF ProcField
<1> HIDE DEF P
<1>4. /\ P.job.verify = "system" /\ P.job.files = <<>> /\ P.job.id = NoPair /\ P.job.pc # "key file"
      /\ DOMAIN P.job = JobField
  BY <1>3, IdleOK
<1>5. ProcessOwns(q, P, temps', published')
  BY <1>3, <1>4, FreshOwns
<1>6. \A r \in Proc \ {q} : SameFor(r, temps, temps', published, published')
  BY <1>1 DEF SameFor
<1>7. /\ \A f \in published' : IF f[1] = q THEN f \in P.files ELSE f \in published
      /\ \A t \in temps' : IF t.id[1] = q THEN P.up /\ t.id \in P.files ELSE t \in temps
      /\ \A c \in clients' : IF c.proc = q THEN P.up /\ ClientHeld(q, c.by, temps', published')
                              ELSE c \in clients
      /\ \A c \in clients : c.proc # q => c \in clients'
  BY <1>0, <1>1, <1>2
<1>8. (\A c \in clients' : c.proc = q => ~c.by.raised) =>
        P.files \subseteq published' \cup ToSet(P.job.files)
  BY <1>3
<1> QED
  BY <1>1, <1>3, <1>4, <1>5, <1>6, <1>7, <1>8, OwnStep

LEMMA ExitOwn == ASSUME OwnInv, NEW p \in Proc, Exit(p) PROVE OwnInv'
<1> DEFINE P == [NewProcess EXCEPT !.up = FALSE, !.job.pc = "gone"]
           job == [Idle EXCEPT !.pc = "gone"]
<1>0. /\ \A f \in proc[p].files : f[1] = p
      /\ \A t \in temps : t.id[1] = p => t.id \in proc[p].files
  BY OwnFacts DEF ProcessOwns
<1>1. /\ proc' = [proc EXCEPT ![p] = P] /\ temps' = {t \in temps : t.id \notin proc[p].files}
      /\ published' = {f \in published : f[1] # p} /\ clients' = {c \in clients : c.proc # p}
  BY DEF Exit, Unlinked
<1>2. /\ DOMAIN P = ProcField /\ P.files = {} /\ P.written = 0 /\ P.ca = NoCache
      /\ P.mtls = NoCache /\ P.job = job
  BY NewProcessShape DEF ProcField
<1>3. /\ job.verify = "system" /\ job.files = <<>> /\ job.id = NoPair /\ job.pc = "gone"
      /\ DOMAIN job = JobField
  BY IdleOK DEF JobField
<1> HIDE DEF P, job
<1>4. /\ P.job.verify = "system" /\ P.job.files = <<>> /\ P.job.id = NoPair /\ P.job.pc # "key file"
      /\ DOMAIN P.job = JobField
  BY <1>2, <1>3
<1>5. ProcessOwns(p, P, temps', published')
  BY <1>2, <1>4, FreshOwns
<1>6. \A r \in Proc \ {p} : SameFor(r, temps, temps', published, published')
  BY <1>0, <1>1 DEF SameFor
<1>7. /\ \A f \in published' : IF f[1] = p THEN f \in P.files ELSE f \in published
      /\ \A t \in temps' : IF t.id[1] = p THEN P.up /\ t.id \in P.files ELSE t \in temps
      /\ \A c \in clients' : IF c.proc = p THEN P.up /\ ClientHeld(p, c.by, temps', published')
                              ELSE c \in clients
      /\ \A c \in clients : c.proc # p => c \in clients'
  BY <1>0, <1>1
<1>8. (\A c \in clients' : c.proc = p => ~c.by.raised) =>
        P.files \subseteq published' \cup ToSet(P.job.files)
  BY <1>2
<1> QED
  BY <1>1, <1>2, <1>4, <1>5, <1>6, <1>7, <1>8, OwnStep

LEMMA OwnPreserved == OwnInv /\ [Next]_tlsVars => OwnInv'
<1>1. SUFFICES ASSUME OwnInv, [Next]_tlsVars PROVE OwnInv'
  OBVIOUS
<1>2. CASE UNCHANGED tlsVars
  BY <1>1, <1>2 DEF tlsVars, OwnInv, Shapes, NothingLiesAbout
<1>3. ASSUME NEW f, NEW content, Change(f, content) PROVE OwnInv'
  BY <1>1, <1>3 DEF Change, OwnInv, Shapes, NothingLiesAbout
<1>4. ASSUME NEW p \in Proc,
             BeginClient(p) \/ ReadCa(p) \/ ReadCert(p) \/ ReadKey(p) \/ MaterialRaises(p)
      PROVE OwnInv'
  BY <1>1, <1>4, BeginClientOwn, ReadOwn, MaterialRaisesOwn
<1>5. ASSUME NEW p \in Proc,
             \/ GrpcPlain(p) \/ GrpcSecure(p)
             \/ SessionPlain(p) \/ SessionBegin(p) \/ CaFile(p) \/ CaLoads(p) \/ CaFileFails(p)
      PROVE OwnInv'
  BY <1>1, <1>5, PlainOwn, GrpcSecureOwn, SessionBeginOwn, CaFileOwn, CaLoadsOwn, CaFileFailsOwn
<1>6. ASSUME NEW p \in Proc,
             \/ SessionRaises(p) \/ Identity(p) \/ CertFile(p) \/ KeyFile(p) \/ KeyFileFails(p)
             \/ Exit(p)
      PROVE OwnInv'
  BY <1>1, <1>6, SessionRaisesOwn, IdentityOwn, CertFileOwn, KeyFileOwn, KeyFileFailsOwn, ExitOwn
<1>7. ASSUME NEW p \in Proc, NEW q \in Proc, Fork(p, q) PROVE OwnInv'
  BY <1>1, <1>7, ForkOwn
<1> QED
  BY <1>1, <1>2, <1>3, <1>4, <1>5, <1>6, <1>7 DEF Next

(***************************************************************************)
(* The temporary files of tls.py have an owner: whatever is written,       *)
(* fails, forks or exits, a session's files stay with their text while its *)
(* process runs, every file is on the list of a running process, and what  *)
(* is listed is or was in a cache or belongs to the pair that is being     *)
(* written.                                                                *)
(***************************************************************************)
THEOREM FilesHaveOwner == Spec => []TempsOwned
<1>1. OwnInv => TempsOwned
  <2>1. SUFFICES ASSUME OwnInv PROVE TempsOwned
    OBVIOUS
  <2>2. ASSUME NEW c \in clients
        PROVE /\ c.by.verify = "temp" => [id |-> c.by.ca, data |-> c.by.root] \in temps
              /\ \A i \in DOMAIN c.by.files : [id |-> c.by.files[i], data |-> c.by.id[i]] \in temps
    BY <2>1 DEF OwnInv, ClientHeld, AllHeld, Held
  <2>3. \A t \in temps : \E p \in Proc : proc[p].up /\ t.id \in proc[p].files
    BY <2>1 DEF OwnInv
  <2>4. ASSUME NEW p \in Proc, \A c \in ClientsOf(p) : ~c.by.raised
        PROVE {f \in proc[p].files : f[1] = p} \subseteq published \cup ToSet(Job(p).files)
    BY <2>1, <2>4 DEF OwnInv, NothingLiesAbout, ClientsOf, Job
  <2> QED
    BY <2>2, <2>3, <2>4 DEF TempsOwned
<1> QED
  BY OwnInit, OwnPreserved, <1>1, PTL DEF Spec

-----------------------------------------------------------------------------
(***************************************************************************)
(* What a fold over a sequence computes. Induction over the naturals in    *)
(* the form of a set of them, the recursion of a fold over the sets of     *)
(* positions, and the same recursion from the first position to the last.  *)
(***************************************************************************)
(* A set of naturals with 0 and every successor.                           *)
LEMMA Induction ==
  ASSUME NEW T, 0 \in T, \A n \in Nat : n \in T => n + 1 \in T
  PROVE  Nat \subseteq T
<1> DEFINE B == Nat \ T
<1> SUFFICES ASSUME B # {} PROVE FALSE
  OBVIOUS
<1>1. PICK R : R = OpToRel(<, Nat)
  OBVIOUS
<1>2. IsWellFoundedOn(R, Nat)
  BY <1>1, NatLessThanWellFounded
<1>3. \A y, x \in Nat : y < x => <<y, x>> \in R
  BY <1>1 DEF OpToRel
<1>4. B \subseteq Nat
  OBVIOUS
<1>5. PICK x \in B : \A y \in B : ~(<<y, x>> \in R)
  BY <1>2, <1>4, WFMin
<1>6. x \in Nat /\ x # 0 /\ x \notin T
  OBVIOUS
<1>7. x - 1 \in Nat /\ x - 1 < x /\ (x - 1) + 1 = x
  BY <1>6
<1>8. x - 1 \notin T
  BY <1>6, <1>7
<1>9. x - 1 \in B
  BY <1>7, <1>8
<1> QED BY <1>3, <1>5, <1>6, <1>7, <1>9

(* The last position of a set of positions.                                *)
LEMMA MaxIs ==
  ASSUME NEW n \in Nat, NEW s \in SUBSET (1 .. n + 1), n + 1 \in s
  PROVE  Max(s) = n + 1
<1>1. \A y \in s : n + 1 >= y
  OBVIOUS
<1>2. \A x \in s : (\A y \in s : x >= y) => x = n + 1
  BY <1>1
<1> QED BY <1>1, <1>2 DEF Max

LEMMA MaxInside ==
  ASSUME NEW n \in Nat, NEW s \in SUBSET (1 .. n), s # {}
  PROVE  Max(s) \in 1 .. n
<1> DEFINE T == {k \in Nat : \A r \in SUBSET (1 .. k) : r # {} => \E x \in r : \A y \in r : x >= y}
<1>1. 0 \in T
  <2>1. 1 .. 0 = {}
    OBVIOUS
  <2> QED BY <2>1
<1>2. ASSUME NEW k \in Nat, k \in T PROVE k + 1 \in T
  <2> SUFFICES ASSUME NEW r \in SUBSET (1 .. k + 1), r # {}
               PROVE  \E x \in r : \A y \in r : x >= y
    OBVIOUS
  <2>1. CASE k + 1 \in r
    BY <2>1
  <2>2. CASE k + 1 \notin r
    <3>1. r \in SUBSET (1 .. k)
      BY <2>2
    <3> QED BY <1>2, <3>1
  <2> QED BY <2>1, <2>2
<1> HIDE DEF T
<1>3. Nat \subseteq T
  BY <1>1, <1>2, Induction
<1>4. \E x \in s : \A y \in s : x >= y
  BY <1>3 DEF T
<1>5. Max(s) \in s
  BY <1>4 DEF Max
<1> QED BY <1>5

(* g folds H over every set of positions, the last position outermost; for *)
(* a finite number of positions there is such a g.                         *)
Solves(g, n, b, H) ==
  g = [s \in SUBSET (1 .. n) |-> IF s = {} THEN b ELSE H[<<g[s \ {Max(s)}], Max(s)>>]]

Solvable(n, b, H, V) == \E g \in [SUBSET (1 .. n) -> V] : Solves(g, n, b, H)

LEMMA FoldExists ==
  ASSUME NEW m \in Nat, NEW V, NEW b \in V, NEW H \in [V \X (1 .. m) -> V]
  PROVE  Solvable(m, b, H, V)
<1> DEFINE T == {n \in Nat : n <= m => Solvable(n, b, H, V)}
<1>1. 0 \in T
  <2>1. PICK g : g = [s \in SUBSET (1 .. 0) |-> b]
    OBVIOUS
  <2>2. SUBSET (1 .. 0) = {{}}
    OBVIOUS
  <2>3. Solves(g, 0, b, H)
    BY <2>1, <2>2 DEF Solves
  <2>4. g \in [SUBSET (1 .. 0) -> V]
    BY <2>1
  <2>5. Solvable(0, b, H, V)
    BY <2>3, <2>4 DEF Solvable
  <2> QED BY <2>5
<1>2. ASSUME NEW n \in Nat, n \in T PROVE n + 1 \in T
  <2>0. n + 1 \in Nat
    OBVIOUS
  <2> SUFFICES ASSUME n + 1 <= m PROVE Solvable(n + 1, b, H, V)
    BY <2>0
  <2>1. PICK g \in [SUBSET (1 .. n) -> V] : Solves(g, n, b, H)
    <3>1. n <= m
      OBVIOUS
    <3> QED BY <1>2, <3>1 DEF Solvable
  <2>2. PICK k \in 1 .. m : k = n + 1
    OBVIOUS
  <2>3. PICK h : h = [s \in SUBSET (1 .. k) |-> IF k \in s THEN H[<<g[s \ {k}], k>>] ELSE g[s]]
    OBVIOUS
  <2>4. /\ \A s \in SUBSET (1 .. k) : s \ {k} \in SUBSET (1 .. n)
        /\ \A s \in SUBSET (1 .. k) : k \notin s => s \in SUBSET (1 .. n)
    BY <2>2
  <2>5. \A s \in SUBSET (1 .. n) : s \in SUBSET (1 .. k) /\ k \notin s
    BY <2>2
  <2>6. \A s \in SUBSET (1 .. n) : h[s] = g[s]
    BY <2>3, <2>5
  <2>7. \A s \in SUBSET (1 .. k) : h[s] \in V
    <3> SUFFICES ASSUME NEW s \in SUBSET (1 .. k) PROVE h[s] \in V
      OBVIOUS
    <3>1. CASE k \in s
      <4>1. g[s \ {k}] \in V
        BY <2>1, <2>4
      <4>2. h[s] = H[<<g[s \ {k}], k>>]
        BY <2>3, <3>1
      <4> QED BY <4>1, <4>2
    <3>2. CASE k \notin s
      BY <2>1, <2>3, <2>4, <3>2
    <3> QED BY <3>1, <3>2
  <2>8. h \in [SUBSET (1 .. k) -> V]
    BY <2>3, <2>7
  <2>9. ASSUME NEW s \in SUBSET (1 .. k)
        PROVE  h[s] = IF s = {} THEN b ELSE H[<<h[s \ {Max(s)}], Max(s)>>]
    <3>1. CASE k \in s
      <4>1. Max(s) = k
        BY <2>2, <3>1, MaxIs
      <4>2. h[s] = H[<<g[s \ {k}], k>>]
        BY <2>3, <3>1
      <4>3. h[s \ {k}] = g[s \ {k}]
        BY <2>4, <2>6
      <4> QED BY <3>1, <4>1, <4>2, <4>3
    <3>2. CASE k \notin s
      <4>1. s \in SUBSET (1 .. n) /\ s \ {Max(s)} \in SUBSET (1 .. n)
        BY <2>4, <3>2
      <4>2. h[s] = g[s] /\ h[s \ {Max(s)}] = g[s \ {Max(s)}]
        BY <2>6, <4>1
      <4>3. g[s] = IF s = {} THEN b ELSE H[<<g[s \ {Max(s)}], Max(s)>>]
        BY <2>1, <4>1 DEF Solves
      <4> QED BY <4>2, <4>3
    <3> QED BY <3>1, <3>2
  <2>10. Solves(h, k, b, H)
    BY <2>3, <2>9 DEF Solves
  <2> QED BY <2>2, <2>8, <2>10 DEF Solvable
<1> HIDE DEF T
<1>3. Nat \subseteq T
  BY <1>1, <1>2, Induction
<1>4. m \in T
  BY <1>3
<1> QED BY <1>4 DEF T

(* The positions up to i.                                                  *)
LEMMA Prefix ==
  ASSUME NEW n \in Nat, NEW i \in 1 .. n
  PROVE  /\ 1 .. i \in SUBSET (1 .. n) /\ 1 .. i # {} /\ Max(1 .. i) = i
         /\ (1 .. i) \ {i} = 1 .. i - 1
<1>1. PICK k \in Nat : i = k + 1
  <2>1. i - 1 \in Nat /\ i = (i - 1) + 1
    OBVIOUS
  <2> QED BY <2>1
<1>2. i \in 1 .. i
  OBVIOUS
<1>3. Max(1 .. i) = i
  BY <1>1, <1>2, MaxIs
<1> QED BY <1>2, <1>3

(* The recursion behind a fold, from its beginning to its end.             *)
Run(f, n, b, H) ==
  f[0] = b /\ \A i \in 1 .. n : f[i] = H[<<f[i - 1], i>>]

Follows(h, n, b, H, V) ==
  /\ h[{}] = b
  /\ \A s \in SUBSET (1 .. n) : s # {} /\ h[s \ {Max(s)}] \in V =>
       h[s] = H[<<h[s \ {Max(s)}], Max(s)>>]

Unrolls(r, n, b, H, V) == \E f \in [0 .. n -> V] : Run(f, n, b, H) /\ r = f[n]

(* What follows the recursion on sets follows it position by position.     *)
LEMMA Unrolled ==
  ASSUME NEW n \in Nat, NEW V, NEW b \in V, NEW H \in [V \X (1 .. n) -> V], NEW h,
         Follows(h, n, b, H, V)
  PROVE  Unrolls(h[1 .. n], n, b, H, V)
<1>1. PICK f : f = [i \in 0 .. n |-> h[1 .. i]]
  OBVIOUS
<1>2. f[0] = b
  <2>1. 1 .. 0 = {}
    OBVIOUS
  <2>2. h[{}] = b
    BY DEF Follows
  <2> QED BY <1>1, <2>1, <2>2
<1>3. ASSUME NEW i \in 1 .. n, f[i - 1] \in V PROVE f[i] = H[<<f[i - 1], i>>]
  <2>1. /\ 1 .. i \in SUBSET (1 .. n) /\ 1 .. i # {} /\ Max(1 .. i) = i
        /\ (1 .. i) \ {i} = 1 .. i - 1
    BY Prefix
  <2>2. f[i] = h[1 .. i] /\ f[i - 1] = h[1 .. i - 1]
    BY <1>1
  <2>3. h[1 .. i] = H[<<h[1 .. i - 1], i>>]
    BY <1>3, <2>1, <2>2 DEF Follows
  <2> QED BY <2>2, <2>3
<1> DEFINE T == {i \in Nat : i <= n => f[i] \in V}
<1>4. 0 \in T
  BY <1>2
<1>5. ASSUME NEW i \in Nat, i \in T PROVE i + 1 \in T
  <2>0. i + 1 \in Nat
    OBVIOUS
  <2> SUFFICES ASSUME i + 1 <= n PROVE f[i + 1] \in V
    BY <2>0
  <2>1. i <= n /\ i + 1 \in 1 .. n /\ (i + 1) - 1 = i
    OBVIOUS
  <2>2. f[i] \in V
    BY <1>5, <2>1
  <2>3. f[i + 1] = H[<<f[i], i + 1>>]
    BY <1>3, <2>1, <2>2
  <2> QED BY <2>1, <2>2, <2>3
<1> HIDE DEF T
<1>6. Nat \subseteq T
  BY <1>4, <1>5, Induction
<1>7. \A i \in 0 .. n : f[i] \in V
  BY <1>6 DEF T
<1>8. f \in [0 .. n -> V]
  BY <1>1, <1>7
<1>9. Run(f, n, b, H)
  <2>1. \A i \in 1 .. n : i - 1 \in 0 .. n
    OBVIOUS
  <2> QED BY <1>2, <1>3, <1>7, <2>1 DEF Run
<1>10. h[1 .. n] = f[n]
  BY <1>1
<1> QED BY <1>8, <1>9, <1>10 DEF Unrolls

-----------------------------------------------------------------------------
(* Addresses are added unless they were seen.                              *)
AddNew(acc, x) == IF Contains(acc, x) THEN acc ELSE Append(acc, x)

NewSteps(h, seq, more) ==
  h = [s \in SUBSET DOMAIN more |->
         IF s = {} THEN seq ELSE AddNew(h[s \ {Max(s)}], more[Max(s)])]

LEMMA WithNewIs ==
  ASSUME NEW seq, NEW more
  PROVE  WithNew(seq, more) = (CHOOSE h : NewSteps(h, seq, more))[DOMAIN more]
BY DEF WithNew, AddNew, FoldLeft, MapThenFoldSet, NewSteps

NewStep(S, more, n) == [p \in Seq(S) \X (1 .. n) |-> AddNew(p[1], more[p[2]])]

LEMMA WithNewRuns ==
  ASSUME NEW S, NEW seq \in Seq(S), NEW more \in Seq(S)
  PROVE  Unrolls(WithNew(seq, more), Len(more), seq, NewStep(S, more, Len(more)), Seq(S))
<1>1. PICK n \in Nat : n = Len(more) /\ DOMAIN more = 1 .. n
  OBVIOUS
<1>2. PICK V, H : V = Seq(S) /\ H = NewStep(S, more, n)
  OBVIOUS
<1>3. /\ H \in [V \X (1 .. n) -> V]
      /\ \A v \in V, i \in 1 .. n : H[<<v, i>>] = AddNew(v, more[i])
  <2>1. \A v \in V, i \in 1 .. n : AddNew(v, more[i]) \in V
    BY <1>1, <1>2, AppendProperties DEF AddNew
  <2> QED BY <1>2, <2>1 DEF NewStep
<1>4. PICK g \in [SUBSET (1 .. n) -> V] : Solves(g, n, seq, H)
  BY <1>2, <1>3, FoldExists DEF Solvable
<1>5. \A s \in SUBSET (1 .. n) : s # {} => Max(s) \in 1 .. n
  BY MaxInside
<1>6. NewSteps(g, seq, more)
  <2>1. g = [s \in SUBSET (1 .. n) |-> g[s]]
    OBVIOUS
  <2>2. ASSUME NEW s \in SUBSET (1 .. n)
        PROVE  g[s] = IF s = {} THEN seq ELSE AddNew(g[s \ {Max(s)}], more[Max(s)])
    <3>1. g[s] = IF s = {} THEN seq ELSE H[<<g[s \ {Max(s)}], Max(s)>>]
      BY <1>4 DEF Solves
    <3>2. g[s \ {Max(s)}] \in V
      OBVIOUS
    <3> QED BY <1>3, <1>5, <3>1, <3>2
  <2> QED BY <1>1, <2>1, <2>2 DEF NewSteps
<1>7. PICK h : NewSteps(h, seq, more) /\ WithNew(seq, more) = h[1 .. n]
  BY <1>1, <1>6, WithNewIs
<1>8. Follows(h, n, seq, H, V)
  <2>1. \A s \in SUBSET (1 .. n) :
          h[s] = IF s = {} THEN seq ELSE AddNew(h[s \ {Max(s)}], more[Max(s)])
    BY <1>1, <1>7 DEF NewSteps
  <2>2. h[{}] = seq
    BY <2>1
  <2> QED BY <1>3, <1>5, <2>1, <2>2 DEF Follows
<1>9. Unrolls(h[1 .. n], n, seq, H, V)
  BY <1>2, <1>3, <1>8, Unrolled
<1> QED BY <1>1, <1>2, <1>7, <1>9

Distinct(q) == \A i, j \in 1 .. Len(q) : q[i] = q[j] => i = j

LEMMA AddNewFacts ==
  ASSUME NEW S, NEW acc \in Seq(S), NEW x \in S, Distinct(acc)
  PROVE  Distinct(AddNew(acc, x)) /\ ToSet(AddNew(acc, x)) = ToSet(acc) \cup {x}
<1>1. PICK m \in Nat : m = Len(acc) /\ DOMAIN acc = 1 .. m
  OBVIOUS
<1>2. CASE Contains(acc, x)
  <2>1. x \in ToSet(acc)
    BY <1>1, <1>2 DEF Contains, ToSet
  <2> QED BY <1>2, <2>1 DEF AddNew
<1>3. CASE ~Contains(acc, x)
  <2>1. PICK r : r = Append(acc, x)
    OBVIOUS
  <2>2. /\ r \in Seq(S) /\ Len(r) = m + 1 /\ DOMAIN r = 1 .. m + 1 /\ r[m + 1] = x
        /\ \A i \in 1 .. m : r[i] = acc[i] /\ acc[i] # x
    BY <1>1, <1>3, <2>1, AppendProperties DEF Contains
  <2>3. \A i \in 1 .. m + 1 : i = m + 1 \/ i \in 1 .. m
    OBVIOUS
  <2>4. Distinct(r)
    BY <1>1, <2>2, <2>3 DEF Distinct
  <2>5. ToSet(r) = ToSet(acc) \cup {x}
    BY <1>1, <2>2, <2>3 DEF ToSet
  <2> QED BY <1>3, <2>1, <2>4, <2>5 DEF AddNew
<1> QED BY <1>2, <1>3

(* After i of the addresses.                                               *)
AddedSoFar(v, seq, more, i) ==
  Distinct(v) /\ ToSet(v) = ToSet(seq) \cup {more[j] : j \in 1 .. i}

LEMMA WithNewFacts ==
  ASSUME NEW S, NEW seq \in Seq(S), NEW more \in Seq(S), Distinct(seq)
  PROVE  /\ WithNew(seq, more) \in Seq(S) /\ Distinct(WithNew(seq, more))
         /\ ToSet(WithNew(seq, more)) = ToSet(seq) \cup ToSet(more)
<1>1. PICK n \in Nat : n = Len(more) /\ DOMAIN more = 1 .. n
  OBVIOUS
<1>2. PICK f \in [0 .. n -> Seq(S)] :
        Run(f, n, seq, NewStep(S, more, n)) /\ WithNew(seq, more) = f[n]
  BY <1>1, WithNewRuns DEF Unrolls
<1>3. f[0] = seq /\ \A i \in 1 .. n : f[i] = AddNew(f[i - 1], more[i])
  <2>1. \A i \in 1 .. n : f[i - 1] \in Seq(S)
    OBVIOUS
  <2> QED BY <1>2, <2>1 DEF Run, NewStep
<1> DEFINE T == {i \in Nat : i <= n => AddedSoFar(f[i], seq, more, i)}
<1>4. 0 \in T
  <2>1. {more[j] : j \in 1 .. 0} = {}
    OBVIOUS
  <2>2. AddedSoFar(f[0], seq, more, 0)
    BY <1>3, <2>1 DEF AddedSoFar
  <2> QED BY <2>2
<1>5. ASSUME NEW i \in Nat, i \in T PROVE i + 1 \in T
  <2>0. i + 1 \in Nat
    OBVIOUS
  <2> SUFFICES ASSUME i + 1 <= n PROVE AddedSoFar(f[i + 1], seq, more, i + 1)
    BY <2>0
  <2>1. i <= n /\ i \in 0 .. n /\ i + 1 \in 1 .. n /\ (i + 1) - 1 = i
    OBVIOUS
  <2>2. AddedSoFar(f[i], seq, more, i)
    BY <1>5, <2>1
  <2>3. PICK v, x : v = f[i] /\ x = more[i + 1]
    OBVIOUS
  <2>4. v \in Seq(S) /\ x \in S /\ f[i + 1] = AddNew(v, x)
    BY SMTT(30), <1>1, <1>3, <2>1, <2>3
  <2>5. Distinct(f[i + 1]) /\ ToSet(f[i + 1]) = ToSet(v) \cup {x}
    BY <2>2, <2>3, <2>4, AddNewFacts DEF AddedSoFar
  <2>6. {more[j] : j \in 1 .. i + 1} = {more[j] : j \in 1 .. i} \cup {x}
    <3>1. \A j \in 1 .. i + 1 : j = i + 1 \/ j \in 1 .. i
      OBVIOUS
    <3>2. i + 1 \in 1 .. i + 1 /\ \A j \in 1 .. i : j \in 1 .. i + 1
      OBVIOUS
    <3> QED BY <2>3, <3>1, <3>2
  <2> QED BY <2>2, <2>3, <2>5, <2>6 DEF AddedSoFar
<1> HIDE DEF T
<1>6. Nat \subseteq T
  BY <1>4, <1>5, Induction
<1>7. AddedSoFar(f[n], seq, more, n)
  BY <1>6 DEF T
<1>8. ToSet(more) = {more[j] : j \in 1 .. n}
  BY <1>1 DEF ToSet
<1> QED BY <1>2, <1>7, <1>8 DEF AddedSoFar

LEMMA WithNewType ==
  ASSUME NEW S, NEW seq \in Seq(S), NEW more \in Seq(S)
  PROVE  WithNew(seq, more) \in Seq(S)
<1>1. PICK n \in Nat : n = Len(more)
  OBVIOUS
<1>2. Unrolls(WithNew(seq, more), n, seq, NewStep(S, more, n), Seq(S))
  BY <1>1, WithNewRuns
<1> QED BY <1>2 DEF Unrolls

-----------------------------------------------------------------------------
(* Entries that can be parsed.                                             *)
Entry == Host \cup Ip

Keep(acc, e) == IF e = Malformed THEN acc ELSE Append(acc, e)

ParseSteps(h, raw) ==
  h = [s \in SUBSET DOMAIN raw |->
         IF s = {} THEN <<>> ELSE Keep(h[s \ {Max(s)}], raw[Max(s)])]

LEMMA ParsedIs ==
  ASSUME NEW raw
  PROVE  Parsed(raw) = (CHOOSE h : ParseSteps(h, raw))[DOMAIN raw]
BY DEF Parsed, Keep, FoldLeft, MapThenFoldSet, ParseSteps

LEMMA ParsedType ==
  ASSUME NEW raw \in Seq(Entry \cup {Malformed})
  PROVE  Parsed(raw) \in Seq(Entry)
<1>1. PICK n \in Nat : n = Len(raw) /\ DOMAIN raw = 1 .. n
  OBVIOUS
<1>2. PICK V, H : V = Seq(Entry) /\ H = [p \in V \X (1 .. n) |-> Keep(p[1], raw[p[2]])]
  OBVIOUS
<1>3. /\ H \in [V \X (1 .. n) -> V] /\ <<>> \in V
      /\ \A v \in V, i \in 1 .. n : H[<<v, i>>] = Keep(v, raw[i])
  <2>1. \A v \in V, i \in 1 .. n : Keep(v, raw[i]) \in V
    BY <1>1, <1>2, AppendProperties DEF Keep
  <2>2. <<>> \in V
    BY <1>2
  <2>3. H \in [V \X (1 .. n) -> V]
    BY <1>2, <2>1
  <2>4. \A v \in V, i \in 1 .. n : H[<<v, i>>] = Keep(v, raw[i])
    BY <1>2
  <2> QED BY <2>2, <2>3, <2>4
<1>4. PICK g \in [SUBSET (1 .. n) -> V] : Solves(g, n, <<>>, H)
  BY <1>2, <1>3, FoldExists DEF Solvable
<1>5. \A s \in SUBSET (1 .. n) : s # {} => Max(s) \in 1 .. n
  BY MaxInside
<1>6. ParseSteps(g, raw)
  <2>1. g = [s \in SUBSET (1 .. n) |-> g[s]]
    OBVIOUS
  <2>2. ASSUME NEW s \in SUBSET (1 .. n)
        PROVE  g[s] = IF s = {} THEN <<>> ELSE Keep(g[s \ {Max(s)}], raw[Max(s)])
    <3>1. g[s] = IF s = {} THEN <<>> ELSE H[<<g[s \ {Max(s)}], Max(s)>>]
      BY <1>4 DEF Solves
    <3>2. g[s \ {Max(s)}] \in V
      OBVIOUS
    <3> QED BY <1>3, <1>5, <3>1, <3>2
  <2> QED BY <1>1, <2>1, <2>2 DEF ParseSteps
<1>7. PICK h : ParseSteps(h, raw) /\ Parsed(raw) = h[1 .. n]
  BY <1>1, <1>6, ParsedIs
<1>8. Follows(h, n, <<>>, H, V)
  <2>1. \A s \in SUBSET (1 .. n) :
          h[s] = IF s = {} THEN <<>> ELSE Keep(h[s \ {Max(s)}], raw[Max(s)])
    BY <1>1, <1>7 DEF ParseSteps
  <2>2. h[{}] = <<>>
    BY <2>1
  <2> QED BY <1>3, <1>5, <2>1, <2>2 DEF Follows
<1>9. Unrolls(h[1 .. n], n, <<>>, H, V)
  BY <1>3, <1>8, Unrolled
<1>10. h[1 .. n] \in V
  BY <1>9 DEF Unrolls
<1> QED BY <1>2, <1>7, <1>10

-----------------------------------------------------------------------------
(* The loop over the entries.                                              *)
AddressesOf(addresses, answers, i) ==
  IF addresses[i] \in Host THEN ToSet(answers[i]) ELSE {addresses[i]}

Answered(addresses, answers) ==
  /\ addresses \in Seq(Entry)
  /\ \A i \in 1 .. Len(addresses) : addresses[i] \in Host => answers[i] \in Answers

Expand(acc, addresses, answers, i) ==
  [encode |-> WithNew(acc.encode, Candidates(addresses[i], answers[i])),
   authority |-> AuthorityAfter(acc.authority, addresses[i], Candidates(addresses[i], answers[i]))]

Nobody == [encode |-> <<>>, authority |-> "none"]
Expansion == [encode : Seq(Entry), authority : Entry \cup {"none"}]

ExpandSteps(h, addresses, answers, q) ==
  h = [s \in SUBSET DOMAIN q |->
         IF s = {} THEN Nobody ELSE Expand(h[s \ {Max(s)}], addresses, answers, q[Max(s)])]

LEMMA EmptyIs ==
  ASSUME NEW S, NEW q \in Seq(S)
  PROVE  q = <<>> <=> ToSet(q) = {}
<1>1. PICK m \in Nat : m = Len(q) /\ DOMAIN q = 1 .. m
  OBVIOUS
<1>2. m # 0 => 1 \in 1 .. m
  OBVIOUS
<1>3. m = 0 <=> q = <<>>
  BY <1>1
<1>4. m = 0 <=> 1 .. m = {}
  BY <1>2
<1> QED BY <1>1, <1>2, <1>3, <1>4 DEF ToSet

LEMMA NewOnly ==
  ASSUME NEW S, NEW a \in Seq(S)
  PROVE  WithNew(<<>>, a) \in Seq(S) /\ ToSet(WithNew(<<>>, a)) = ToSet(a)
<1>0. <<>> \in Seq(S)
  OBVIOUS
<1>1. PICK e \in Seq(S) : e = <<>>
  BY <1>0, Zenon
<1>2. Distinct(e)
  BY <1>1 DEF Distinct
<1>3. ToSet(e) = {}
  BY <1>1 DEF ToSet
<1>4. WithNew(e, a) \in Seq(S) /\ ToSet(WithNew(e, a)) = ToSet(e) \cup ToSet(a)
  BY <1>2, WithNewFacts
<1> QED BY <1>1, <1>3, <1>4

LEMMA CandidatesFacts ==
  ASSUME NEW addresses, NEW answers, Answered(addresses, answers), NEW i \in 1 .. Len(addresses)
  PROVE  LET c == Candidates(addresses[i], answers[i])
         IN /\ c \in Seq(Entry) /\ ToSet(c) = AddressesOf(addresses, answers, i)
            /\ c = <<>> <=> AddressesOf(addresses, answers, i) = {}
<1>0. addresses[i] \in Entry
  BY DEF Answered
<1>1. CASE addresses[i] \in Host
  <2>1. answers[i] \in Seq(Entry)
    <3>1. PICK n \in 0 .. 2 : answers[i] \in [1 .. n -> Ip]
      BY <1>1 DEF Answered, Answers
    <3>2. \A j \in 1 .. n : answers[i][j] \in Entry
      BY <3>1 DEF Entry
    <3>3. answers[i] \in [1 .. n -> Entry]
      BY <3>1, <3>2
    <3>4. n \in Nat
      OBVIOUS
    <3> QED BY <3>3, <3>4, SeqDef
  <2>2. PICK a \in Seq(Entry) : a = answers[i]
    BY <2>1
  <2>6. WithNew(<<>>, a) \in Seq(Entry) /\ ToSet(WithNew(<<>>, a)) = ToSet(a)
    BY NewOnly
  <2> QED BY <1>1, EmptyIs, <2>2, <2>6 DEF Candidates, Lookup, AddressesOf
<1>2. CASE addresses[i] \notin Host
  <2>1. PICK a \in Entry : a = addresses[i]
    BY <1>0
  <2>2. <<a>> \in Seq(Entry) /\ ToSet(<<a>>) = {a}
    BY DEF ToSet
  <2> QED BY <1>2, EmptyIs, <2>1, <2>2 DEF Candidates, AddressesOf
<1> QED BY <1>1, <1>2

ExpandedBy(addresses, answers, q) ==
  (CHOOSE h : ExpandSteps(h, addresses, answers, q))[DOMAIN q]

LEMMA ExpandedIs ==
  ASSUME NEW addresses, NEW answers, NEW q, q = [i \in DOMAIN addresses |-> i]
  PROVE  Expanded(addresses, answers) = ExpandedBy(addresses, answers, q)
BY DEF ExpandedBy, Expanded, FoldLeft, MapThenFoldSet, ExpandSteps, Expand, Nobody

LEMMA ExpandedRuns ==
  ASSUME NEW addresses, NEW answers, Answered(addresses, answers), NEW n \in Nat,
         n = Len(addresses)
  PROVE  Unrolls(Expanded(addresses, answers), n, Nobody,
                 [p \in Expansion \X (1 .. n) |-> Expand(p[1], addresses, answers, p[2])],
                 Expansion)
<1>1. DOMAIN addresses = 1 .. n
  BY DEF Answered
<1>2. PICK V, H : /\ V = Expansion
                  /\ H = [p \in V \X (1 .. n) |-> Expand(p[1], addresses, answers, p[2])]
  OBVIOUS
<1>3. ASSUME NEW v \in V, NEW i \in 1 .. n PROVE Expand(v, addresses, answers, i) \in V
  <2>1. PICK c, e : c = Candidates(addresses[i], answers[i]) /\ e = addresses[i]
    OBVIOUS
  <2>2. c \in Seq(Entry) /\ e \in Entry
    <3>1. e \in Entry
      BY <1>1, <2>1 DEF Answered
    <3> QED BY <2>1, <3>1, CandidatesFacts
  <2>3. v.encode \in Seq(Entry) /\ v.authority \in Entry \cup {"none"}
    BY <1>2 DEF Expansion
  <2>4. PICK w : w = v.encode
    OBVIOUS
  <2>5. WithNew(w, c) \in Seq(Entry)
    BY <2>2, <2>3, <2>4, WithNewType
  <2>6. AuthorityAfter(v.authority, e, c) \in Entry \cup {"none"}
    BY <2>2, <2>3 DEF AuthorityAfter
  <2> QED BY <1>2, <2>1, <2>4, <2>5, <2>6 DEF Expand, Expansion
<1>4. /\ H \in [V \X (1 .. n) -> V]
      /\ \A v \in V, i \in 1 .. n : H[<<v, i>>] = Expand(v, addresses, answers, i)
  BY <1>2, <1>3
<1>5. PICK b : b = Nobody
  OBVIOUS
<1>6. b \in V
  BY <1>2, <1>5 DEF Nobody, Expansion
<1>7. PICK g \in [SUBSET (1 .. n) -> V] : Solves(g, n, b, H)
  BY <1>4, <1>6, FoldExists DEF Solvable
<1>8. \A s \in SUBSET (1 .. n) : s # {} => Max(s) \in 1 .. n
  BY MaxInside
<1>9. PICK q : q = [i \in DOMAIN addresses |-> i]
  OBVIOUS
<1>10. DOMAIN q = 1 .. n /\ \A i \in 1 .. n : q[i] = i
  BY <1>1, <1>9
<1>11. ExpandSteps(g, addresses, answers, q)
  <2>1. g = [s \in SUBSET (1 .. n) |-> g[s]]
    OBVIOUS
  <2>2. ASSUME NEW s \in SUBSET (1 .. n)
        PROVE  g[s] = IF s = {} THEN Nobody
                      ELSE Expand(g[s \ {Max(s)}], addresses, answers, q[Max(s)])
    <3>1. g[s] = IF s = {} THEN b ELSE H[<<g[s \ {Max(s)}], Max(s)>>]
      BY <1>7 DEF Solves
    <3>2. g[s \ {Max(s)}] \in V
      OBVIOUS
    <3>3. CASE s = {}
      BY <1>5, <3>1, <3>3
    <3>4. CASE s # {}
      <4>1. Max(s) \in 1 .. n /\ q[Max(s)] = Max(s)
        BY <1>8, <1>10, <3>4
      <4>2. H[<<g[s \ {Max(s)}], Max(s)>>] = Expand(g[s \ {Max(s)}], addresses, answers, Max(s))
        BY <1>4, <3>2, <4>1
      <4> QED BY <3>1, <3>4, <4>1, <4>2
    <3> QED BY <3>3, <3>4
  <2> QED BY <1>10, <2>1, <2>2 DEF ExpandSteps
<1>12. PICK h : ExpandSteps(h, addresses, answers, q) /\ Expanded(addresses, answers) = h[1 .. n]
  <2>1. Expanded(addresses, answers) = ExpandedBy(addresses, answers, q)
    BY <1>9, ExpandedIs
  <2> QED BY <1>10, <1>11, <2>1 DEF ExpandedBy
<1>13. Follows(h, n, b, H, V)
  <2>1. \A s \in SUBSET (1 .. n) :
          h[s] = IF s = {} THEN Nobody
                 ELSE Expand(h[s \ {Max(s)}], addresses, answers, q[Max(s)])
    BY <1>10, <1>12 DEF ExpandSteps
  <2>2. h[{}] = b
    BY <1>5, <2>1
  <2>3. \A s \in SUBSET (1 .. n) : s # {} =>
          h[s] = Expand(h[s \ {Max(s)}], addresses, answers, Max(s))
    BY <1>8, <1>10, <2>1
  <2> QED BY <1>4, <1>8, <2>2, <2>3 DEF Follows
<1>14. Unrolls(h[1 .. n], n, b, H, V)
  BY <1>4, <1>6, <1>13, Unrolled
<1> QED BY <1>2, <1>5, <1>12, <1>14

(* After i of the entries: their addresses, and the first that has any.    *)
UsableTo(addresses, answers, i) ==
  {j \in 1 .. i : AddressesOf(addresses, answers, j) # {}}

AddressesTo(addresses, answers, i) ==
  UNION {AddressesOf(addresses, answers, j) : j \in 1 .. i}

FirstIn(addresses, U, a) == \E k \in U : a = addresses[k] /\ \A j \in U : k <= j

ExpandedSoFar(v, addresses, answers, i) ==
  /\ Distinct(v.encode)
  /\ ToSet(v.encode) = AddressesTo(addresses, answers, i)
  /\ IF UsableTo(addresses, answers, i) = {} THEN v.authority = "none"
     ELSE FirstIn(addresses, UsableTo(addresses, answers, i), v.authority)

LEMMA ExpandOne ==
  ASSUME NEW addresses, NEW answers, Answered(addresses, answers), NEW i \in Nat,
         i + 1 <= Len(addresses), NEW v \in Expansion,
         ExpandedSoFar(v, addresses, answers, i)
  PROVE  ExpandedSoFar(Expand(v, addresses, answers, i + 1), addresses, answers, i + 1)
<1>1. PICK k \in 1 .. Len(addresses) : k = i + 1
  <2>1. Len(addresses) \in Nat
    BY DEF Answered
  <2> QED BY <2>1
<1>2. PICK c, e, w, A : /\ c = Candidates(addresses[k], answers[k]) /\ e = addresses[k]
                        /\ w = v.encode /\ A = AddressesOf(addresses, answers, k)
  OBVIOUS
<1>3. c \in Seq(Entry) /\ ToSet(c) = A /\ (c = <<>> <=> A = {})
  BY <1>2, CandidatesFacts
<1>4. e \in Entry /\ e # "none"
  BY <1>2, FamiliesAssumption DEF Answered, Entry, Ip
<1>5. w \in Seq(Entry) /\ Distinct(w)
  BY <1>2 DEF Expansion, ExpandedSoFar
<1>6. PICK r : r = Expand(v, addresses, answers, k)
  OBVIOUS
<1>7. r.encode = WithNew(w, c) /\ r.authority = AuthorityAfter(v.authority, e, c)
  BY <1>2, <1>6 DEF Expand
<1>8. Distinct(r.encode) /\ ToSet(r.encode) = ToSet(w) \cup A
  BY <1>3, <1>5, <1>7, WithNewFacts
<1>9. \A j \in 1 .. k : j = k \/ j \in 1 .. i
  BY <1>1
<1>10. /\ k \in 1 .. k /\ \A j \in 1 .. i : j \in 1 .. k /\ j <= k /\ k \notin 1 .. i
       /\ k <= k
  BY <1>1
<1>11. AddressesTo(addresses, answers, k) = AddressesTo(addresses, answers, i) \cup A
  <2>1. {AddressesOf(addresses, answers, j) : j \in 1 .. k}
          = {AddressesOf(addresses, answers, j) : j \in 1 .. i} \cup {A}
    BY <1>2, <1>9, <1>10
  <2> QED BY <2>1 DEF AddressesTo
<1>12. PICK U, W : U = UsableTo(addresses, answers, i) /\ W = UsableTo(addresses, answers, k)
  OBVIOUS
<1>13. W = IF A = {} THEN U ELSE U \cup {k}
  BY <1>2, <1>9, <1>10, <1>12 DEF UsableTo
<1>14. \A j \in U : j \in 1 .. i
  BY <1>12 DEF UsableTo
<1>15. IF W = {} THEN r.authority = "none" ELSE FirstIn(addresses, W, r.authority)
  <2>1. CASE U = {}
    <3>1. v.authority = "none"
      BY <1>12, <2>1 DEF ExpandedSoFar
    <3>2. CASE A = {}
      BY <1>3, <1>7, <1>13, <2>1, <3>1, <3>2 DEF AuthorityAfter
    <3>3. CASE A # {}
      <4>1. W = {k} /\ r.authority = e
        BY <1>3, <1>7, <1>13, <2>1, <3>1, <3>3 DEF AuthorityAfter
      <4> QED BY <1>2, <1>10, <4>1 DEF FirstIn
    <3> QED BY <3>2, <3>3
  <2>2. CASE U # {}
    <3>1. FirstIn(addresses, U, v.authority)
      BY <1>12, <2>2 DEF ExpandedSoFar
    <3>2. PICK m \in U : v.authority = addresses[m] /\ \A j \in U : m <= j
      BY <3>1 DEF FirstIn
    <3>3. addresses[m] # "none"
      <4>1. m \in 1 .. Len(addresses)
        <5>1. Len(addresses) \in Nat
          BY DEF Answered
        <5> QED BY <1>1, <1>14, <5>1
      <4> QED BY <4>1, FamiliesAssumption DEF Answered, Entry, Ip
    <3>4. r.authority = addresses[m]
      BY <1>7, <3>2, <3>3 DEF AuthorityAfter
    <3>5. m <= k
      BY <1>10, <1>14
    <3>6. m \in W /\ \A j \in W : m <= j
      BY <1>13, <3>2, <3>5
    <3> QED BY <3>4, <3>6 DEF FirstIn
  <2> QED BY <2>1, <2>2
<1>16. ExpandedSoFar(r, addresses, answers, k)
  BY <1>2, <1>8, <1>11, <1>12, <1>15 DEF ExpandedSoFar
<1> QED BY <1>1, <1>6, <1>16

LEMMA ExpandedFacts ==
  ASSUME NEW addresses, NEW answers, Answered(addresses, answers), NEW n \in Nat,
         n = Len(addresses)
  PROVE  /\ Expanded(addresses, answers) \in Expansion
         /\ ExpandedSoFar(Expanded(addresses, answers), addresses, answers, n)
<1>1. PICK H : H = [p \in Expansion \X (1 .. n) |-> Expand(p[1], addresses, answers, p[2])]
  OBVIOUS
<1>2. PICK f \in [0 .. n -> Expansion] :
        Run(f, n, Nobody, H) /\ Expanded(addresses, answers) = f[n]
  BY <1>1, ExpandedRuns DEF Unrolls
<1>3. f[0] = Nobody /\ \A i \in 1 .. n : f[i] = Expand(f[i - 1], addresses, answers, i)
  <2>1. \A i \in 1 .. n : f[i - 1] \in Expansion
    OBVIOUS
  <2> QED BY <1>1, <1>2, <2>1 DEF Run
<1> DEFINE T == {i \in Nat : i <= n => ExpandedSoFar(f[i], addresses, answers, i)}
<1>4. 0 \in T
  <2>1. 1 .. 0 = {}
    OBVIOUS
  <2>2. PICK e : e = <<>>
    OBVIOUS
  <2>3. Distinct(e) /\ ToSet(e) = {}
    BY <2>2 DEF Distinct, ToSet
  <2>4. f[0].encode = e /\ f[0].authority = "none"
    BY <1>3, <2>2 DEF Nobody
  <2>5. UsableTo(addresses, answers, 0) = {}
    BY <2>1 DEF UsableTo
  <2>6. AddressesTo(addresses, answers, 0) = {}
    BY <2>1 DEF AddressesTo
  <2>7. ExpandedSoFar(f[0], addresses, answers, 0)
    BY <2>3, <2>4, <2>5, <2>6 DEF ExpandedSoFar
  <2> QED BY <2>7
<1>5. ASSUME NEW i \in Nat, i \in T PROVE i + 1 \in T
  <2>0. i + 1 \in Nat
    OBVIOUS
  <2> SUFFICES ASSUME i + 1 <= n PROVE ExpandedSoFar(f[i + 1], addresses, answers, i + 1)
    BY <2>0
  <2>1. i <= n /\ i \in 0 .. n /\ i + 1 \in 1 .. n /\ (i + 1) - 1 = i
    OBVIOUS
  <2>2. PICK v \in Expansion : v = f[i]
    BY <2>1
  <2>3. ExpandedSoFar(v, addresses, answers, i)
    BY <1>5, <2>1, <2>2
  <2>4. f[i + 1] = Expand(v, addresses, answers, i + 1)
    BY <1>3, <2>1, <2>2
  <2>5. ExpandedSoFar(Expand(v, addresses, answers, i + 1), addresses, answers, i + 1)
    BY <2>3, ExpandOne
  <2> QED BY <2>4, <2>5
<1> HIDE DEF T
<1>6. Nat \subseteq T
  BY <1>4, <1>5, Induction
<1>7. ExpandedSoFar(f[n], addresses, answers, n)
  BY <1>6 DEF T
<1> QED BY <1>2, <1>7

-----------------------------------------------------------------------------
(* What is dialled: several entries of which one can be used, or not.      *)
DialsAll(a, answers, r) ==
  /\ {r.target.at[i].to : i \in DOMAIN r.target.at} = AddressesTo(a, answers, Len(a))
  /\ \A i, j \in DOMAIN r.target.at : i # j => r.target.at[i].to # r.target.at[j].to
  /\ {r.target.at[i].form : i \in DOMAIN r.target.at}
       \subseteq (IF r.target.resolver = "ipv4" THEN {"v4"} ELSE {"v6", "mapped"})
  /\ FirstIn(a, UsableTo(a, answers, Len(a)), r.authority)

DialsOne(a, r) ==
  /\ Len(r.target.at) = 1 /\ r.authority = r.target.at[1].to
  /\ a # <<>> => r.authority = a[1]

(* DialsUsable is one of the two.                                          *)
LEMMA Dials ==
  ASSUME NEW raw, NEW answers, NEW r, Parsed(raw) \in Seq(Entry),
         IF Len(Parsed(raw)) > 1 /\ UsableTo(Parsed(raw), answers, Len(Parsed(raw))) # {}
         THEN DialsAll(Parsed(raw), answers, r) ELSE DialsOne(Parsed(raw), r)
  PROVE  DialsUsable(raw, answers, r)
<1> DEFINE a == Parsed(raw)
<1>1. DOMAIN a = 1 .. Len(a)
  OBVIOUS
<1>2. UsableTo(a, answers, Len(a))
        = {i \in DOMAIN a : (IF a[i] \in Host THEN ToSet(answers[i]) ELSE {a[i]}) # {}}
  BY <1>1 DEF UsableTo, AddressesOf
<1>3. AddressesTo(a, answers, Len(a))
        = UNION {IF a[i] \in Host THEN ToSet(answers[i]) ELSE {a[i]} :
                   i \in UsableTo(a, answers, Len(a))}
  <2>1. PICK D, U : D = 1 .. Len(a) /\ U = UsableTo(a, answers, Len(a))
    OBVIOUS
  <2>2. U \subseteq D /\ \A i \in D : i \notin U => AddressesOf(a, answers, i) = {}
    BY <2>1 DEF UsableTo
  <2>3. UNION {AddressesOf(a, answers, i) : i \in D} = UNION {AddressesOf(a, answers, i) : i \in U}
    BY <2>2
  <2> QED BY <2>1, <2>3 DEF AddressesTo, AddressesOf
<1>4. CASE Len(a) > 1 /\ UsableTo(a, answers, Len(a)) # {}
  <2>1. DialsAll(a, answers, r)
    BY <1>4
  <2>2. PICK U : U = {i \in DOMAIN a : (IF a[i] \in Host THEN ToSet(answers[i]) ELSE {a[i]}) # {}}
    OBVIOUS
  <2>3. PICK W : W = UNION {IF a[i] \in Host THEN ToSet(answers[i]) ELSE {a[i]} : i \in U}
    OBVIOUS
  <2>4. U = UsableTo(a, answers, Len(a)) /\ W = AddressesTo(a, answers, Len(a)) /\ U # {}
    BY <1>2, <1>3, <1>4, <2>2, <2>3
  <2>5. /\ {r.target.at[i].to : i \in DOMAIN r.target.at} = W
        /\ \A i, j \in DOMAIN r.target.at : i # j => r.target.at[i].to # r.target.at[j].to
        /\ {r.target.at[i].form : i \in DOMAIN r.target.at}
             \subseteq (IF r.target.resolver = "ipv4" THEN {"v4"} ELSE {"v6", "mapped"})
    BY <2>1, <2>4 DEF DialsAll
  <2>6. PICK k \in U : r.authority = a[k] /\ \A j \in U : k <= j
    BY <2>1, <2>4 DEF DialsAll, FirstIn
  <2>7. k \in DOMAIN a /\ k \in 1 .. Len(a)
    BY <1>1, <2>2
  <2>8. r.authority \in ToSet(a)
    BY <2>6, <2>7 DEF ToSet
  <2>9. 1 \in U => r.authority = a[1]
    <3>1. 1 \in U => k <= 1
      BY <2>6
    <3>2. 1 \in U => k = 1
      BY <2>7, <3>1
    <3> QED BY <2>6, <3>2
  <2> QED BY <1>4, <2>2, <2>3, <2>4, <2>5, <2>8, <2>9 DEF DialsUsable
<1>5. CASE ~(Len(a) > 1 /\ UsableTo(a, answers, Len(a)) # {})
  <2>1. DialsOne(a, r)
    BY <1>5
  <2> QED BY <1>2, <1>5, <2>1 DEF DialsUsable, DialsOne
<1> QED BY <1>4, <1>5

(* encode_sw_static_for_c_core                                             *)
LEMMA EncodedDials ==
  ASSUME NEW a, NEW answers, NEW q \in Seq(Entry), Distinct(q),
         ToSet(q) = AddressesTo(a, answers, Len(a)), ToSet(q) \subseteq Ip, NEW authority,
         FirstIn(a, UsableTo(a, answers, Len(a)), authority)
  PROVE  DialsAll(a, answers, [target |-> Encoded(q), authority |-> authority])
<1>1. PICK m \in Nat : m = Len(q) /\ DOMAIN q = 1 .. m
  OBVIOUS
<1>2. PICK t : t = Encoded(q)
  OBVIOUS
<1>3. /\ t.resolver = IF ToSet(q) \subseteq V4 THEN "ipv4" ELSE "ipv6"
      /\ DOMAIN t.at = 1 .. m /\ \A i \in 1 .. m : t.at[i].to = q[i]
  BY <1>1, <1>2 DEF Encoded
<1>4. \A i \in 1 .. m : q[i] \in ToSet(q)
  BY <1>1 DEF ToSet
<1>5. \A i \in 1 .. m :
        t.at[i].form = CASE q[i] \in V6 -> "v6"
                         [] q[i] \in V4 /\ ToSet(q) \subseteq V4 -> "v4"
                         [] OTHER -> "mapped"
  BY <1>1, <1>2 DEF Encoded
<1>6. ASSUME NEW i \in 1 .. m
      PROVE  t.at[i].form \in (IF t.resolver = "ipv4" THEN {"v4"} ELSE {"v6", "mapped"})
  <2>1. CASE ToSet(q) \subseteq V4
    <3>1. q[i] \in V4 /\ q[i] \notin V6
      BY <1>4, <2>1, FamiliesAssumption
    <3> QED BY <1>3, <1>5, <2>1, <3>1
  <2>2. CASE ~(ToSet(q) \subseteq V4)
    <3>1. t.at[i].form \in {"v6", "mapped"}
      BY <1>5, <2>2
    <3> QED BY <1>3, <2>2, <3>1
  <2> QED BY <2>1, <2>2
<1>7. {t.at[i].to : i \in DOMAIN t.at} = ToSet(q)
  BY <1>1, <1>3 DEF ToSet
<1>8. \A i, j \in DOMAIN t.at : i # j => t.at[i].to # t.at[j].to
  BY <1>1, <1>3 DEF Distinct
<1>9. {t.at[i].form : i \in DOMAIN t.at}
       \subseteq (IF t.resolver = "ipv4" THEN {"v4"} ELSE {"v6", "mapped"})
  BY <1>3, <1>6
<1>10. PICK r : r = [target |-> t, authority |-> authority]
  OBVIOUS
<1>11. r.target = t /\ r.authority = authority
  BY <1>10
<1>12. DialsAll(a, answers, r)
  BY <1>7, <1>8, <1>9, <1>11 DEF DialsAll
<1> QED BY <1>2, <1>10, <1>12

LEMMA PlainDials ==
  ASSUME NEW a, NEW e, a # <<>> => e = a[1]
  PROVE  DialsOne(a, [target |-> PlainTarget(e), authority |-> e])
<1>1. PICK r : r = [target |-> PlainTarget(e), authority |-> e]
  OBVIOUS
<1>0. PICK d : d = [form |-> "as is", to |-> e]
  OBVIOUS
<1>2. r.target.at = <<d>> /\ r.authority = e /\ d.to = e
  BY <1>0, <1>1 DEF PlainTarget
<1>3. Len(r.target.at) = 1 /\ r.target.at[1].to = e
  <2>1. Len(<<d>>) = 1 /\ <<d>>[1] = d
    OBVIOUS
  <2> QED BY <1>2, <2>1
<1>4. DialsOne(a, r)
  BY <1>2, <1>3 DEF DialsOne
<1> QED BY <1>1, <1>4

(* _resolve_channel_target_and_authority, for every list and every answer.  *)
LEMMA ResolvedDials ==
  ASSUME NEW raw \in Seq(Entry \cup {Malformed}), NEW answers, Answered(Parsed(raw), answers)
  PROVE  DialsUsable(raw, answers, Resolved(raw, answers))
<1>1. PICK a \in Seq(Entry) : a = Parsed(raw)
  BY ParsedType
<1>2. PICK n \in Nat : n = Len(a) /\ DOMAIN a = 1 .. n
  BY <1>1
<1>3. PICK x \in Expansion : x = Expanded(a, answers) /\ ExpandedSoFar(x, a, answers, n)
  BY <1>1, <1>2, ExpandedFacts
<1>4. PICK q, U : q = x.encode /\ U = UsableTo(a, answers, n)
  OBVIOUS
<1>5. /\ q \in Seq(Entry) /\ Distinct(q) /\ ToSet(q) = AddressesTo(a, answers, n)
      /\ IF U = {} THEN x.authority = "none" ELSE FirstIn(a, U, x.authority)
  BY <1>3, <1>4 DEF Expansion, ExpandedSoFar
<1>6. ToSet(q) \subseteq Ip
  <2>1. \A i \in 1 .. n : AddressesOf(a, answers, i) \subseteq Ip
    <3> SUFFICES ASSUME NEW i \in 1 .. n PROVE AddressesOf(a, answers, i) \subseteq Ip
      OBVIOUS
    <3>1. CASE a[i] \in Host
      <4>1. PICK k \in 0 .. 2 : answers[i] \in [1 .. k -> Ip]
        BY <1>1, <1>2, <3>1 DEF Answered, Answers
      <4>2. ToSet(answers[i]) \subseteq Ip
        BY <4>1 DEF ToSet
      <4> QED BY <3>1, <4>2 DEF AddressesOf
    <3>2. CASE a[i] \notin Host
      <4>1. a[i] \in Ip
        BY <1>2, <3>2 DEF Entry
      <4> QED BY <3>2, <4>1 DEF AddressesOf
    <3> QED BY <3>1, <3>2
  <2> QED BY <1>5, <2>1 DEF AddressesTo
<1>7. q = <<>> <=> U = {}
  <2>1. U = {} <=> AddressesTo(a, answers, n) = {}
    BY <1>4 DEF UsableTo, AddressesTo
  <2> QED BY <1>5, <2>1, EmptyIs
<1>8. n = 0 <=> a = <<>>
  BY <1>2
<1>9. PICK r : r = Resolved(raw, answers)
  OBVIOUS
<1>10. CASE n > 1 /\ U # {}
  <2>1. r = [target |-> Encoded(q), authority |-> x.authority]
    BY <1>1, <1>2, <1>3, <1>4, <1>7, <1>9, <1>10 DEF Resolved
  <2>2. DialsAll(a, answers, [target |-> Encoded(q), authority |-> x.authority])
    BY <1>2, <1>4, <1>5, <1>6, <1>10, EncodedDials
  <2>3. DialsAll(a, answers, r)
    BY <2>1, <2>2
  <2>4. DialsUsable(raw, answers, r)
    BY <1>1, <1>2, <1>4, <1>10, <2>3, Dials
  <2> QED BY <1>9, <2>4
<1>11. CASE ~(n > 1 /\ U # {})
  <2>1. PICK e : r = [target |-> PlainTarget(e), authority |-> e] /\ (a # <<>> => e = a[1])
    <3>1. CASE a = <<>>
      BY <1>1, <1>2, <1>8, <1>9, <3>1 DEF Resolved
    <3>2. CASE a # <<>>
      <4>1. Len(a) = 1 \/ x.encode = <<>>
        BY <1>2, <1>4, <1>7, <1>8, <1>11, <3>2
      <4>2. ~(Len(a) > 1 /\ x.encode # <<>>)
        <5>1. n = 1 => ~(n > 1)
          OBVIOUS
        <5> QED BY <1>2, <4>1, <5>1
      <4>3. Head(a) = a[1]
        BY <3>2
      <4>4. r = [target |-> PlainTarget(Head(a)), authority |-> Head(a)]
        BY <1>1, <1>3, <1>9, <3>2, <4>1, <4>2 DEF Resolved
      <4> QED BY <4>3, <4>4
    <3> QED BY <3>1, <3>2
  <2>2. DialsOne(a, r)
    BY <2>1, PlainDials
  <2>3. DialsUsable(raw, answers, r)
    BY <1>1, <1>2, <1>4, <1>11, <2>2, Dials
  <2> QED BY <1>9, <2>3
<1> QED BY <1>10, <1>11

-----------------------------------------------------------------------------
(***************************************************************************)
(* The channel that is being built, and every channel that was and is no   *)
(* placeholder, has the target and the authority its DNS answers call for. *)
(***************************************************************************)
Waiting == {"ca", "cert", "key", "build"}

DialOK(j, cf) == DialsUsable(cf.backends, j.answers, j.dial)

JobDials(j, cf) ==
  cf.protocol = "grpc" => /\ j.pc \in {"idle", "gone"} \cup Waiting
                          /\ j.pc \in Waiting => DialOK(j, cf)

ClientDials(kind, j, cf) == cf.protocol = "grpc" /\ kind # "placeholder" => DialOK(j, cf)

DialInv ==
  /\ TrustInv
  /\ \A p \in Proc : JobDials(proc[p].job, conf)
  /\ \A c \in clients : ClientDials(c.kind, c.by, conf)

LEMMA IdleDials == \A cf : JobDials(Idle, cf)
BY IdleOK DEF JobDials, Waiting

LEMMA DialInit == Init => DialInv
<1>1. SUFFICES ASSUME Init PROVE DialInv
  OBVIOUS
<1>2. NewProcess.job = Idle /\ DOMAIN NewProcess = ProcField
  BY DEF NewProcess, ProcField
<1>3. \A p \in Proc : proc[p] = [NewProcess EXCEPT !.up = p = First]
  BY <1>1 DEF Init
<1>4. \A p \in Proc : proc[p].job = Idle
  BY <1>2, <1>3 DEF ProcField
<1>5. \A p \in Proc : JobDials(proc[p].job, conf)
  BY <1>4, IdleDials
<1> QED BY <1>1, <1>5, TrustInit DEF Init, DialInv

(* One process has another job, and clients may go.                        *)
LEMMA JobTaken ==
  ASSUME DialInv, TrustInv', NEW p \in Proc, JobDials(proc'[p].job, conf), conf' = conf,
         clients' \subseteq clients, \A q \in Proc : q # p => proc'[q] = proc[q]
  PROVE  DialInv'
<1>1. \A q \in Proc : JobDials(proc'[q].job, conf')
  BY DEF DialInv
<1>2. \A c \in clients' : ClientDials(c.kind, c.by, conf')
  BY DEF DialInv
<1> QED BY <1>1, <1>2 DEF DialInv

LEMMA GoesDial ==
  ASSUME DialInv, TrustInv', NEW p \in Proc, NEW job, Goes(p, job), JobDials(job, conf)
  PROVE  DialInv'
<1>1. /\ proc'[p].job = job /\ \A q \in Proc : q # p => proc'[q] = proc[q]
      /\ conf' = conf /\ clients' = clients
  BY DEF Goes, DialInv, TrustInv, Shapes, ProcField
<1> QED BY <1>1, JobTaken

LEMMA BuiltDial ==
  ASSUME DialInv, TrustInv', NEW p \in Proc, NEW kind, NEW job, Built(p, kind, job),
         DOMAIN job = JobField, ClientDials(kind, job, conf)
  PROVE  DialInv'
<1> DEFINE by == [job EXCEPT !.pc = "done", !.cert = None]
           new == [proc |-> p, no |-> Cardinality(ClientsOf(p)), kind |-> kind, by |-> by]
<1>1. conf' = conf /\ clients' = clients \cup {new}
  BY DEF Built
<1>2. proc'[p].job = Idle /\ \A q \in Proc : q # p => proc'[q] = proc[q]
  BY DEF Built, DialInv, TrustInv, Shapes, ProcField
<1>3. by.answers = job.answers /\ by.dial = job.dial /\ new.by = by /\ new.kind = kind
  BY DEF JobField
<1> HIDE DEF by, new
<1>4. ClientDials(new.kind, new.by, conf)
  BY <1>3 DEF ClientDials, DialOK
<1>5. \A c \in clients' : ClientDials(c.kind, c.by, conf')
  BY <1>1, <1>4 DEF DialInv
<1>6. \A q \in Proc : JobDials(proc'[q].job, conf')
  BY <1>1, <1>2, IdleDials DEF DialInv
<1> QED BY <1>5, <1>6 DEF DialInv

(* The backends are parsed and looked up when the thread begins.           *)
LEMMA BeginClientDial ==
  ASSUME DialInv, TrustInv', NEW p \in Proc, BeginClient(p), conf.protocol = "grpc"
  PROVE  DialInv'
<1>1. PICK raw, entries : raw = conf.backends /\ entries = Parsed(raw)
  OBVIOUS
<1>2. PICK hosts : hosts = {i \in DOMAIN entries : entries[i] \in Host}
  OBVIOUS
<1>3. PICK answers \in [hosts -> Answers] :
        Goes(p, [Idle EXCEPT !.pc = "ca", !.answers = answers, !.dial = Resolved(raw, answers)])
  BY <1>1, <1>2 DEF BeginClient
<1>4. raw \in Seq(Entry \cup {Malformed})
  <2>1. conf \in Configuration
    BY DEF DialInv, TrustInv
  <2> QED BY <1>1, <2>1, ClientsAssumption DEF Entry
<1>5. entries \in Seq(Entry)
  BY <1>1, <1>4, ParsedType
<1>6. DOMAIN entries = 1 .. Len(entries)
  BY <1>5
<1>7. Answered(entries, answers)
  BY <1>2, <1>5, <1>6 DEF Answered
<1>8. PICK dial : dial = Resolved(raw, answers)
  OBVIOUS
<1>9. DialsUsable(raw, answers, dial)
  BY <1>1, <1>4, <1>7, <1>8, ResolvedDials
<1>10. PICK job : job = [Idle EXCEPT !.pc = "ca", !.answers = answers, !.dial = dial]
  OBVIOUS
<1>11. job.pc = "ca" /\ job.answers = answers /\ job.dial = dial
  BY <1>10, IdleOK DEF JobField
<1>12. JobDials(job, conf)
  BY <1>1, <1>9, <1>11 DEF JobDials, DialOK, Waiting
<1>13. Goes(p, job)
  BY <1>3, <1>8, <1>10
<1> QED BY <1>12, <1>13, GoesDial

LEMMA DialKept ==
  ASSUME DialInv, TrustInv', NEW p \in Proc, Job(p).pc \in Waiting, conf.protocol = "grpc",
         NEW job, job.answers = Job(p).answers, job.dial = Job(p).dial
  PROVE  /\ Goes(p, job) /\ job.pc \in Waiting => DialInv'
         /\ \A kind : Built(p, kind, job) /\ DOMAIN job = JobField => DialInv'
<1>1. DialOK(job, conf)
  BY DEF DialInv, JobDials, DialOK, Job
<1>2. ASSUME Goes(p, job), job.pc \in Waiting PROVE DialInv'
  <2>1. JobDials(job, conf)
    BY <1>1, <1>2 DEF JobDials
  <2> QED BY <1>2, <2>1, GoesDial
<1>3. ASSUME NEW kind, Built(p, kind, job), DOMAIN job = JobField PROVE DialInv'
  <2>1. ClientDials(kind, job, conf)
    BY <1>1 DEF ClientDials
  <2> QED BY <1>3, <2>1, BuiltDial
<1> QED BY <1>2, <1>3

LEMMA ReadDial ==
  ASSUME DialInv, TrustInv', NEW p \in Proc, conf.protocol = "grpc",
         ReadCa(p) \/ ReadCert(p) \/ ReadKey(p)
  PROVE  DialInv'
<1> DEFINE old == Job(p)
<1>0. DOMAIN old = JobField
  BY JobFacts DEF DialInv
<1>1. CASE ReadCa(p)
  <2>1. PICK root, plain, pc :
          Goes(p, [old EXCEPT !.root = root, !.plain = plain, !.pc = pc]) /\ pc \in {"cert", "build"}
    BY <1>1 DEF ReadCa
  <2>2. PICK job : job = [old EXCEPT !.root = root, !.plain = plain, !.pc = pc]
    OBVIOUS
  <2>3. job.pc = pc /\ job.answers = old.answers /\ job.dial = old.dial
    BY <1>0, <2>2 DEF JobField
  <2>4. old.pc = "ca" /\ Goes(p, job)
    BY <1>1, <2>1, <2>2 DEF ReadCa, At
  <2> QED BY <2>1, <2>3, <2>4, DialKept DEF Waiting
<1>2. CASE ReadCert(p)
  <2>1. PICK cert, pc :
          Goes(p, [old EXCEPT !.cert = cert, !.pc = pc]) /\ pc \in {"key", "build"}
    BY <1>2 DEF ReadCert
  <2>2. PICK job : job = [old EXCEPT !.cert = cert, !.pc = pc]
    OBVIOUS
  <2>3. job.pc = pc /\ job.answers = old.answers /\ job.dial = old.dial
    BY <1>0, <2>2 DEF JobField
  <2>4. old.pc = "cert" /\ Goes(p, job)
    BY <1>2, <2>1, <2>2 DEF ReadCert, At
  <2> QED BY <2>1, <2>3, <2>4, DialKept DEF Waiting
<1>3. CASE ReadKey(p)
  <2>1. PICK id : Goes(p, [old EXCEPT !.pc = "build", !.id = id])
    BY <1>3 DEF ReadKey
  <2>2. PICK job : job = [old EXCEPT !.pc = "build", !.id = id]
    OBVIOUS
  <2>3. job.pc = "build" /\ job.answers = old.answers /\ job.dial = old.dial
    BY <1>0, <2>2 DEF JobField
  <2>4. old.pc = "key" /\ Goes(p, job)
    BY <1>3, <2>1, <2>2 DEF ReadKey, At
  <2> QED BY <2>3, <2>4, DialKept DEF Waiting
<1> QED BY <1>1, <1>2, <1>3

(* Whatever the attempts at credentials change, it is not the target.      *)
LEMMA ChannelDial ==
  ASSUME DialInv, TrustInv', NEW p \in Proc, conf.protocol = "grpc",
         MaterialRaises(p) \/ GrpcPlain(p) \/ GrpcSecure(p)
  PROVE  DialInv'
<1> DEFINE old == Job(p)
           full == [old EXCEPT !.verify = IF old.root = None THEN "system" ELSE "memory"]
<1>0. DOMAIN old = JobField
  BY JobFacts DEF DialInv
<1>1. old.pc \in Waiting
  BY DEF MaterialRaises, GrpcPlain, GrpcSecure, At, Waiting
<1>2. \/ PlaceholderChannel(p)
      \/ Built(p, "plain", old)
      \/ Built(p, "tls", full)
      \/ Built(p, "tls", [full EXCEPT !.id = NoPair, !.fails = 1])
      \/ Built(p, "plain", [full EXCEPT !.id = NoPair, !.fails = 2])
      \/ Built(p, "tls", [old EXCEPT !.root = None, !.fails = 1])
      \/ Built(p, "plain", [old EXCEPT !.fails = 2])
      \/ Built(p, "plain", [old EXCEPT !.fails = 1])
  <2>1. CASE MaterialRaises(p)
    BY <2>1 DEF MaterialRaises
  <2>2. CASE GrpcPlain(p)
    BY <2>2 DEF GrpcPlain
  <2>3. CASE GrpcSecure(p)
    BY <2>3, Zenon DEF GrpcSecure
  <2> QED BY <2>1, <2>2, <2>3
<1>3. CASE PlaceholderChannel(p)
  <2>1. PICK dial : Built(p, "placeholder", [old EXCEPT !.id = NoPair, !.dial = dial])
    BY <1>3 DEF PlaceholderChannel
  <2>2. PICK job : job = [old EXCEPT !.id = NoPair, !.dial = dial]
    OBVIOUS
  <2>3. DOMAIN job = JobField
    BY <1>0, <2>2 DEF JobField
  <2>4. ClientDials("placeholder", job, conf)
    BY DEF ClientDials
  <2> QED BY <2>1, <2>2, <2>3, <2>4, BuiltDial
<1> HIDE DEF old
<1>4. DOMAIN full = JobField /\ full.answers = old.answers /\ full.dial = old.dial
  BY <1>0 DEF JobField
<1> HIDE DEF full
<1>5. CASE ~PlaceholderChannel(p)
  <2>1. /\ DOMAIN [full EXCEPT !.id = NoPair, !.fails = 1] = JobField
        /\ [full EXCEPT !.id = NoPair, !.fails = 1].answers = old.answers
        /\ [full EXCEPT !.id = NoPair, !.fails = 1].dial = old.dial
    BY <1>4 DEF JobField
  <2>2. /\ DOMAIN [full EXCEPT !.id = NoPair, !.fails = 2] = JobField
        /\ [full EXCEPT !.id = NoPair, !.fails = 2].answers = old.answers
        /\ [full EXCEPT !.id = NoPair, !.fails = 2].dial = old.dial
    BY <1>4 DEF JobField
  <2>3. /\ DOMAIN [old EXCEPT !.root = None, !.fails = 1] = JobField
        /\ [old EXCEPT !.root = None, !.fails = 1].answers = old.answers
        /\ [old EXCEPT !.root = None, !.fails = 1].dial = old.dial
    BY <1>0 DEF JobField
  <2>4. /\ DOMAIN [old EXCEPT !.fails = 2] = JobField
        /\ [old EXCEPT !.fails = 2].answers = old.answers /\ [old EXCEPT !.fails = 2].dial = old.dial
    BY <1>0 DEF JobField
  <2>5. /\ DOMAIN [old EXCEPT !.fails = 1] = JobField
        /\ [old EXCEPT !.fails = 1].answers = old.answers /\ [old EXCEPT !.fails = 1].dial = old.dial
    BY <1>0 DEF JobField
  <2>6. PICK kind, job : Built(p, kind, job) /\ DOMAIN job = JobField
                         /\ job.answers = old.answers /\ job.dial = old.dial
    BY <1>0, <1>2, <1>4, <1>5, <2>1, <2>2, <2>3, <2>4, <2>5, Zenon
  <2> QED BY <1>1, <2>6, DialKept DEF old
<1> QED BY <1>3, <1>5

LEMMA ProcessDial ==
  ASSUME DialInv, TrustInv', NEW p \in Proc, NEW q \in Proc, Fork(p, q) \/ Exit(p)
  PROVE  DialInv'
<1>0. DOMAIN proc = Proc
  BY DEF DialInv, TrustInv, Shapes
<1>1. CASE Fork(p, q)
  <2>1. /\ proc'[q].job = Idle /\ conf' = conf /\ clients' = clients
        /\ \A o \in Proc : o # q => proc'[o] = proc[o]
    BY <1>0, <1>1 DEF Fork, Forked, NewProcess
  <2> QED BY <2>1, IdleDials, JobTaken
<1>2. CASE Exit(p)
  <2>1. PICK job : job = [Idle EXCEPT !.pc = "gone"]
    OBVIOUS
  <2>2. /\ proc'[p].job = job /\ conf' = conf /\ clients' \subseteq clients
        /\ \A o \in Proc : o # p => proc'[o] = proc[o]
    BY <1>0, <1>2, <2>1 DEF Exit, NewProcess
  <2>3. job.pc = "gone"
    BY <2>1, IdleOK DEF JobField
  <2>4. JobDials(job, conf)
    BY <2>3 DEF JobDials, Waiting
  <2> QED BY <2>2, <2>4, JobTaken
<1> QED BY <1>1, <1>2

LEMMA ConfStays == Next => conf' = conf
<1>1. ASSUME NEW p \in Proc,
             \/ BeginClient(p) \/ ReadCa(p) \/ ReadCert(p) \/ ReadKey(p) \/ MaterialRaises(p)
             \/ GrpcPlain(p) \/ GrpcSecure(p)
      PROVE  conf' = conf
  BY <1>1 DEF BeginClient, ReadCa, ReadCert, ReadKey, MaterialRaises, GrpcPlain, GrpcSecure, Goes, Built,
    PlaceholderChannel
<1>2. ASSUME NEW p \in Proc,
             \/ SessionPlain(p) \/ SessionBegin(p) \/ CaFile(p) \/ CaLoads(p) \/ CaFileFails(p)
             \/ SessionRaises(p)
      PROVE  conf' = conf
  BY <1>2 DEF SessionPlain, SessionBegin, CaFile, CaLoads, CaFileFails, SessionRaises, Goes, Built,
    DefaultContext, Written
<1>3. ASSUME NEW p \in Proc, Identity(p) \/ CertFile(p) \/ KeyFile(p) \/ KeyFileFails(p)
      PROVE  conf' = conf
  BY <1>3 DEF Identity, CertFile, KeyFile, KeyFileFails, Built, Written
<1>4. ASSUME NEW p \in Proc, NEW q \in Proc, Exit(p) \/ Fork(p, q) PROVE conf' = conf
  BY <1>4 DEF Exit, Fork
<1>5. ASSUME NEW f, NEW content, Change(f, content) PROVE conf' = conf
  BY <1>5 DEF Change
<1> QED BY <1>1, <1>2, <1>3, <1>4, <1>5, Zenon DEF Next

(* A session's steps are not a channel's.                                  *)
LEMMA NoSession ==
  ASSUME DialInv, NEW p \in Proc, conf.protocol = "grpc",
         \/ SessionPlain(p) \/ SessionBegin(p) \/ CaFile(p) \/ CaLoads(p) \/ CaFileFails(p)
         \/ SessionRaises(p)
         \/ Identity(p) \/ CertFile(p) \/ KeyFile(p) \/ KeyFileFails(p)
  PROVE  FALSE
<1>1. Job(p).pc \in {"idle", "gone"} \cup Waiting
  BY DEF DialInv, JobDials, Job
<1>2. Job(p).pc \in SessionPc \/ conf.protocol # "grpc"
  BY DEF SessionPlain, SessionBegin, CaFile, CaLoads, CaFileFails, SessionRaises, Identity,
    CertFile, KeyFile, KeyFileFails, At, SessionPc
<1> QED BY <1>1, <1>2 DEF SessionPc, Waiting

LEMMA DialStep == DialInv /\ [Next]_tlsVars => DialInv'
<1>1. SUFFICES ASSUME DialInv, [Next]_tlsVars PROVE DialInv'
  OBVIOUS
<1>2. TrustInv'
  BY <1>1, TrustStep DEF DialInv
<1>3. CASE UNCHANGED tlsVars
  BY <1>1, <1>2, <1>3 DEF tlsVars, DialInv
<1>4. ASSUME Next, conf.protocol # "grpc" PROVE DialInv'
  <2>1. conf' = conf
    BY <1>4, ConfStays
  <2> QED BY <1>2, <1>4, <2>1 DEF DialInv, JobDials, ClientDials
<1>5. ASSUME Next, conf.protocol = "grpc" PROVE DialInv'
  <2>1. ASSUME NEW f, NEW content, Change(f, content) PROVE DialInv'
    BY <1>1, <1>2, <2>1 DEF Change, DialInv
  <2>2. ASSUME NEW p \in Proc, BeginClient(p) PROVE DialInv'
    BY <1>1, <1>2, <1>5, <2>2, BeginClientDial
  <2>3. ASSUME NEW p \in Proc, ReadCa(p) \/ ReadCert(p) \/ ReadKey(p) PROVE DialInv'
    BY <1>1, <1>2, <1>5, <2>3, ReadDial
  <2>4. ASSUME NEW p \in Proc, MaterialRaises(p) \/ GrpcPlain(p) \/ GrpcSecure(p) PROVE DialInv'
    BY <1>1, <1>2, <1>5, <2>4, ChannelDial
  <2>5. ASSUME NEW p \in Proc, NEW q \in Proc, Fork(p, q) \/ Exit(p) PROVE DialInv'
    BY <1>1, <1>2, <2>5, ProcessDial
  <2>6. ASSUME NEW p \in Proc,
               \/ SessionPlain(p) \/ SessionBegin(p) \/ CaFile(p) \/ CaLoads(p) \/ CaFileFails(p)
               \/ SessionRaises(p)
               \/ Identity(p) \/ CertFile(p) \/ KeyFile(p) \/ KeyFileFails(p)
        PROVE  DialInv'
    BY <1>1, <1>5, <2>6, NoSession
  <2> QED BY <1>5, <2>1, <2>2, <2>3, <2>4, <2>5, <2>6, Zenon DEF Next
<1> QED BY <1>1, <1>3, <1>4, <1>5

(***************************************************************************)
(* For every list of backends and whatever DNS answers: a channel that     *)
(* could be made, and is no placeholder, dials every usable address once,  *)
(* in a form its resolver takes; if there is one entry only, or none can   *)
(* be used, the first entry as it is. Its authority is a configured entry, *)
(* the first one if that can be dialled or none can (grpc_channel.py).     *)
(***************************************************************************)
THEOREM BackendsAreDialled == Spec => []BackendsDialled
<1>1. DialInv => BackendsDialled
  BY DEF DialInv, BackendsDialled, ClientDials, DialOK
<1> QED
  BY DialInit, DialStep, <1>1, PTL DEF Spec
=============================================================================
