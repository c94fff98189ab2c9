------------------------------ MODULE Identity ------------------------------
(***************************************************************************)
(* node_identity of a consensus or a store node (the two classes are the   *)
(* same text): the constructor that loads or makes the node's key pair and *)
(* gets its certificate, over the files it leaves for the next process.    *)
(* A process may die between any two of its file operations, and a file    *)
(* operation may fail, which write_file_once reports and nobody looks at.  *)
(***************************************************************************)
EXTENDS Naturals

CONSTANTS
  DirExists,     \* is there an identity_message_path before the first start?
  MaxClock,      \* bound: seconds in which keys are made
  MaxCrash,      \* bound: processes that die
  MaxFail        \* bound: file operations that fail

ASSUME IdentityAssumption ==
  /\ DirExists \in BOOLEAN
  /\ MaxClock \in Nat \ {0} /\ MaxCrash \in Nat /\ MaxFail \in Nat

VARIABLES
  onDisk,      \* the files that exist
  text,        \* what each holds
  mem,         \* _pub_key, _pri_key and the certificate of the process
  pc,          \* what the constructor does next
  target,      \* the file it writes
  regenerate,  \* regenerate_key
  now,         \* the clock, in seconds
  crashes, fails,
  known,       \* the pair in the files of the first ready process that left both (history)
  found        \* the certificate on disk when this process found both keys (history)

disk    == <<onDisk, text>>
process == <<mem, pc, target, regenerate, found>>
vars    == <<disk, process, now, crashes, fails, known>>

Name == {"pub", "pri", "cert"}

\* A key is the second generate_key seeded its generator with, 0 is none; tail: bytes from
\* behind the end of a buffer follow it; signed: it is the CA's certificate of that key.
Text == [key : 0 .. MaxClock, tail : BOOLEAN, signed : BOOLEAN]
Key(k) == [key |-> k, tail |-> FALSE, signed |-> FALSE]
Blank == Key(0)
NoText == [f \in Name |-> Blank]

Init ==
  /\ onDisk = {} /\ text = NoText
  /\ mem = NoText
  /\ pc = "down" /\ target = "pub" /\ regenerate = FALSE
  /\ now = 1 /\ crashes = 0 /\ fails = 0
  /\ known = 0 /\ found = Blank

\* The singleton is created.  mk_multi_dir looks for the first '/' again and again.
Start ==
  /\ pc = "down"
  /\ pc' = IF DirExists THEN "pub" ELSE "mkdir"
  /\ UNCHANGED <<disk, mem, target, regenerate, found, now, crashes, fails, known>>

\* read_file_once makes a string of a char array that it never terminates: it ends with the
\* file if the byte behind happens to be 0, and goes on with whatever is there if not.
Read(f) == {text[f], [text[f] EXCEPT !.tail = TRUE]}

\* mutant: only the public key is looked at
PubMissing(f, t) == f = "pub" /\ (f \notin onDisk \/ t = Blank)

\* mutant: no certificate, no identity
NoIdentity(f, t) == f \notin onDisk \/ t = Blank \/ text["cert"] = Blank

\* access() fails, or the text is of size 0.
Missing(f, t) == f \notin onDisk \/ t = Blank

LoadKey(f, then) ==
  /\ pc = f
  /\ \E t \in IF f \in onDisk THEN Read(f) ELSE {Blank} :
       /\ mem' = [mem EXCEPT ![f] = t]
       /\ regenerate' = (regenerate \/ Missing(f, t))
  /\ pc' = then
  /\ UNCHANGED <<disk, target, now, crashes, fails, known>>

LoadPub == LoadKey("pub", "pri") /\ UNCHANGED found

\* After the keys: make new ones, or go on to the certificate.  The certificate on disk
\* is never read: read_file_once is given the name "", not cert_file.
LoadPri ==
  /\ LoadKey("pri", IF regenerate' THEN "generate" ELSE "ask")
  /\ found' = IF regenerate' THEN Blank ELSE text["cert"]

\* generate_key, seeded with time().
Generate ==
  /\ pc = "generate"
  /\ mem' = [mem EXCEPT !["pub"] = Key(now), !["pri"] = Key(now)]
  /\ pc' = "open" /\ target' = "pub"
  /\ UNCHANGED <<disk, regenerate, found, now, crashes, fails, known>>

\* What follows write_file_once.
AfterWrite ==
  \/ target = "pub"  /\ pc' = "open"  /\ target' = "pri"  /\ UNCHANGED known
  \/ target = "pri"  /\ pc' = "ask"   /\ target' = target /\ UNCHANGED known
  \/ target = "cert" /\ pc' = "ready" /\ target' = target
                     /\ known' = IF known = 0 /\ text["pri"] # Blank THEN text["pub"].key ELSE known

\* ofstream file(filename) empties the file ...
Open ==
  /\ pc = "open"
  /\ onDisk' = onDisk \cup {target}
  /\ text' = [text EXCEPT ![target] = Blank]
  /\ pc' = "write"
  /\ UNCHANGED <<mem, target, regenerate, found, now, crashes, fails, known>>

\* ... and then it is written.
Write ==
  /\ pc = "write"
  /\ text' = [text EXCEPT ![target] = mem[target]]
  /\ AfterWrite
  /\ UNCHANGED <<onDisk, mem, regenerate, found, now, crashes, fails>>

\* The file cannot be opened, or not be written: the constructor goes on.
FileFails ==
  /\ pc \in {"open", "write"} /\ fails < MaxFail
  /\ fails' = fails + 1
  /\ AfterWrite
  /\ UNCHANGED <<disk, mem, regenerate, found, now, crashes>>

\* The CA signs whatever public key it is sent.
ApplyPubKeyCert(pub) == [pub EXCEPT !.signed = TRUE]

\* mutant: starts over until the CA answers
AskAgain ==
  /\ pc = "ask"
  /\ \E r \in {ApplyPubKeyCert(mem["pub"]), Blank} :
       /\ mem' = [mem EXCEPT !["cert"] = r]
       /\ pc' = IF r = Blank THEN "pub" ELSE "open"
  /\ target' = "cert"
  /\ UNCHANGED <<disk, regenerate, found, now, crashes, fails, known>>

\* mutant: an empty certificate is not written
KeepFile ==
  /\ pc = "ask"
  /\ \E r \in {ApplyPubKeyCert(mem["pub"]), Blank} :
       /\ mem' = [mem EXCEPT !["cert"] = r]
       /\ pc' = IF r = Blank THEN "ready" ELSE "open"
  /\ target' = "cert"
  /\ UNCHANGED <<disk, regenerate, found, now, crashes, fails, known>>

\* get_cert_from_ca: up to seven calls that end after timeout_ms, then an empty string.  One
\* step, as each call only answers or fails; that the controller is used again is brpc's affair.
AskCA ==
  /\ pc = "ask"
  /\ \E r \in {ApplyPubKeyCert(mem["pub"]), Blank} : mem' = [mem EXCEPT !["cert"] = r]
  /\ pc' = "open" /\ target' = "cert"
  /\ UNCHANGED <<disk, regenerate, found, now, crashes, fails, known>>

\* The process dies; the next one starts with nothing in memory.
Crash ==
  /\ pc # "down" /\ crashes < MaxCrash
  /\ crashes' = crashes + 1
  /\ mem' = NoText /\ pc' = "down" /\ target' = "pub" /\ regenerate' = FALSE
  /\ found' = Blank
  /\ UNCHANGED <<disk, now, fails, known>>

Second ==
  /\ now < MaxClock
  /\ now' = now + 1
  /\ UNCHANGED <<disk, process, crashes, fails, known>>

Construct == Start \/ LoadPub \/ LoadPri \/ Generate \/ Open \/ Write \/ AskCA

Next == Construct \/ FileFails \/ Crash \/ Second

Spec == Init /\ [][Next]_vars

\* The constructor runs on one thread; its calls to the CA time out.
FairSpec == Spec /\ WF_vars(Construct)

-----------------------------------------------------------------------------
(* What a node relies on about its identity.                               *)

\* The values of the variables; a process that is ready has written all three files, an
\* empty certificate included, unless a file operation failed.
TypeOK ==
  /\ onDisk \subseteq Name
  /\ text \in [Name -> Text] /\ mem \in [Name -> Text]
  /\ pc \in {"down", "mkdir", "pub", "pri", "generate", "open", "write", "ask", "ready"}
  /\ target \in Name
  /\ regenerate \in BOOLEAN
  /\ now \in 1 .. MaxClock /\ crashes \in 0 .. MaxCrash /\ fails \in 0 .. MaxFail
  /\ known \in 0 .. MaxClock /\ found \in Text
  /\ pc = "ready" /\ fails = 0 => onDisk = Name

\* Wherever earlier processes died, the keys of a process that is ready begin with what the
\* two files hold, a private key is on disk only with its public key, and where the reads
\* ended with the files the keys in memory are a pair: load_key writes the public key first
\* and takes an empty or missing file of either key for the lack of both.  (A read past the
\* end of an empty file makes it look full: such a process is ready with no pair.)
KeyPairMatches ==
  pc = "ready" /\ fails = 0 =>
    /\ \A f \in {"pub", "pri"} : mem[f].key = text[f].key
    /\ text["pri"] # Blank => text["pub"] = text["pri"]
    /\ ~mem["pub"].tail /\ ~mem["pri"].tail => mem["pub"] = mem["pri"] /\ mem["pub"] # Blank

\* Once a process got ready and left both key files, they are never made again: however the
\* reads end, every later one that gets ready finds the same pair in them and begins with it.
IdentityStable ==
  pc = "ready" /\ fails = 0 /\ known # 0 =>
    \A f \in {"pub", "pri"} : text[f] = Key(known) /\ mem[f].key = known

\* The constructor ends, whether or not the CA answers, if its directory is there.
ReadyEventually == DirExists => (pc = "pub" ~> pc \in {"ready", "down"})

\* consen_node_identity.cpp:78 has the certificate read directly where there is one: a
\* process that finds both keys and a certificate gets ready with that certificate.
StoredCertReused == pc = "ready" /\ found # Blank => mem["cert"] = found
=============================================================================
