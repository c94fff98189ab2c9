--------------------------- MODULE IdentityProofs ---------------------------
(***************************************************************************)
(* Theorems about Identity, for every number of crashes, failures and      *)
(* seconds and however far the reads of a file run: its type invariant,    *)
(* that the files hold a pair and the keys of a node that is ready begin   *)
(* with it, and that the files of a ready node stay the same.              *)
(***************************************************************************)
EXTENDS Identity, TLAPS

\* What each point of the constructor knows of the files that exist.
FilesInv ==
  /\ \A f \in Name : f \notin onDisk => text[f] = Blank
  /\ pc = "pub" => ~regenerate
  /\ pc = "down" => ~regenerate
  /\ pc = "pri" => regenerate \/ "pub" \in onDisk
  /\ pc = "write" => target \in onDisk
  /\ fails = 0 =>
       /\ pc = "ask" => {"pub", "pri"} \subseteq onDisk
       /\ pc \in {"open", "write"} /\ target = "pri" => "pub" \in onDisk
       /\ pc \in {"open", "write"} /\ target = "cert" => {"pub", "pri"} \subseteq onDisk
       /\ pc = "ready" => onDisk = Name

\* The type invariant needs the files the constructor has written so far.
TypeInv == TypeOK /\ FilesInv

\* The empty text, and memory that holds nothing.
LEMMA BlankText == Blank \in Text /\ NoText \in [Name -> Text] /\ \A f \in Name : NoText[f] = Blank
BY IdentityAssumption DEF Blank, Key, Text, NoText

\* A fresh key is a text that is not empty.
LEMMA KeyText ==
  ASSUME NEW k \in 1 .. MaxClock
  PROVE  Key(k) \in Text /\ Key(k) # Blank
<1>1. k \in 0 .. MaxClock /\ k # 0
  BY IdentityAssumption
<1>2. Key(k).key = k /\ Blank.key = 0
  BY DEF Key, Blank
<1> QED
  BY <1>1, <1>2 DEF Text, Key

\* So is a certificate.
LEMMA CertText == ASSUME NEW t \in Text PROVE ApplyPubKeyCert(t) \in Text
BY DEF ApplyPubKeyCert, Text

\* What is read is a text.
LEMMA ReadText == ASSUME NEW f \in Name, text[f] \in Text PROVE Read(f) \subseteq Text
BY DEF Read, Text

\* Every step of the system keeps the types and the files.
LEMMA TypeStep == TypeInv /\ [Next]_vars => TypeInv'
<1> SUFFICES ASSUME TypeInv, [Next]_vars PROVE TypeInv'
  OBVIOUS
<1> USE IdentityAssumption, BlankText DEF TypeInv, TypeOK, FilesInv, Name
<1>1. CASE Start
  BY <1>1 DEF Start, disk
<1>2. CASE LoadPub
  <2>1. PICK t \in (IF "pub" \in onDisk THEN Read("pub") ELSE {Blank}) :
          /\ mem' = [mem EXCEPT !["pub"] = t]
          /\ regenerate' = (regenerate \/ Missing("pub", t))
    BY <1>2 DEF LoadPub, LoadKey
  <2>2. t \in Text
    BY <2>1, ReadText
  <2>3. regenerate' \in BOOLEAN
    BY <2>1, Zenon DEF Missing
  <2>4. regenerate' \/ "pub" \in onDisk
    BY <2>1, Zenon DEF Missing
  <2> QED
    BY <1>2, <2>1, <2>2, <2>3, <2>4 DEF LoadPub, LoadKey, disk
<1>3. CASE LoadPri
  <2>1. PICK t \in (IF "pri" \in onDisk THEN Read("pri") ELSE {Blank}) :
          /\ mem' = [mem EXCEPT !["pri"] = t]
          /\ regenerate' = (regenerate \/ Missing("pri", t))
    BY <1>3 DEF LoadPri, LoadKey
  <2>2. t \in Text
    BY <2>1, ReadText
  <2>3. regenerate' \in BOOLEAN
    BY <2>1, Zenon DEF Missing
  <2>4. regenerate' \/ {"pub", "pri"} \subseteq onDisk
    <3>1. regenerate => regenerate'
      BY <2>1, Zenon
    <3>2. regenerate' \/ "pri" \in onDisk
      BY <2>1, Zenon DEF Missing
    <3>3. pc = "pri"
      BY <1>3 DEF LoadPri, LoadKey
    <3> QED
      BY <3>1, <3>2, <3>3
  <2>5. found' \in Text
    BY <1>3, <2>1 DEF LoadPri
  <2> QED
    BY <1>3, <2>1, <2>2, <2>3, <2>4, <2>5 DEF LoadPri, LoadKey, disk
<1>4. CASE Generate
  <2>1. Key(now) \in Text
    BY KeyText
  <2>2. mem' \in [Name -> Text]
    BY <1>4, <2>1 DEF Generate
  <2> QED
    BY <1>4, <2>2 DEF Generate, disk
<1>5. CASE Open
  <2>1. text' \in [Name -> Text] /\ \A f \in Name : f \notin onDisk' => text'[f] = Blank
    BY <1>5 DEF Open
  <2> QED
    BY <1>5, <2>1 DEF Open
<1>6. CASE Write
  <2>1. text' \in [Name -> Text] /\ pc = "write"
    BY <1>6 DEF Write
  <2>2. text["pub"].key \in 0 .. MaxClock
    BY DEF Text
  <2>3. known' \in 0 .. MaxClock
    BY <1>6, <2>2 DEF Write, AfterWrite
  <2>4. \A f \in Name : f \notin onDisk' => text'[f] = Blank
    BY <1>6, <2>1 DEF Write
  <2> QED
    BY <1>6, <2>1, <2>3, <2>4 DEF Write, AfterWrite
<1>7. CASE AskCA
  <2>1. mem' \in [Name -> Text]
    BY <1>7, CertText DEF AskCA
  <2> QED
    BY <1>7, <2>1 DEF AskCA, disk
<1>8. CASE FileFails
  <2>1. text["pub"].key \in 0 .. MaxClock
    BY DEF Text
  <2>2. known' \in 0 .. MaxClock
    BY <1>8, <2>1 DEF FileFails, AfterWrite
  <2>3. fails' \in 0 .. MaxFail /\ fails' # 0
    BY <1>8 DEF FileFails
  <2> QED
    BY <1>8, <2>2, <2>3 DEF FileFails, AfterWrite, disk
<1>9. CASE Crash
  <2>1. mem' \in [Name -> Text] /\ found' \in Text
    BY <1>9 DEF Crash
  <2>2. crashes' \in 0 .. MaxCrash
    BY <1>9 DEF Crash
  <2> QED
    BY <1>9, <2>1, <2>2 DEF Crash, disk
<1>10. CASE Second
  BY <1>10 DEF Second, disk, process
<1>11. CASE UNCHANGED vars
  BY <1>11 DEF vars, disk, process
<1> QED
  BY <1>1, <1>2, <1>3, <1>4, <1>5, <1>6, <1>7, <1>8, <1>9, <1>10, <1>11
  DEF Next, Construct

\* The type invariant holds from the start.
LEMMA TypedFiles == Spec => []TypeInv
<1>1. Init => TypeInv
  <2> SUFFICES ASSUME Init PROVE TypeInv
    OBVIOUS
  <2>1. text \in [Name -> Text] /\ mem \in [Name -> Text] /\ found \in Text
    BY BlankText DEF Init
  <2>2. now \in 1 .. MaxClock /\ crashes \in 0 .. MaxCrash /\ fails \in 0 .. MaxFail
    BY IdentityAssumption DEF Init
  <2>3. TypeOK
    <3>1. target \in Name
      BY DEF Init, Name
    <3>2. known \in 0 .. MaxClock
      BY IdentityAssumption DEF Init
    <3> QED
      BY <2>1, <2>2, <3>1, <3>2 DEF Init, TypeOK
  <2>4. FilesInv
    BY BlankText DEF Init, FilesInv, Name
  <2> QED
    BY <2>3, <2>4 DEF TypeInv
<1> QED
  BY <1>1, TypeStep, PTL DEF Spec

\* The variables of node_identity hold values of their types, and a process that is ready
\* has left all three files behind where no file operation failed.
THEOREM Typed == Spec => []TypeOK
<1>1. TypeInv => TypeOK
  BY DEF TypeInv
<1> QED
  BY <1>1, TypedFiles, PTL

-----------------------------------------------------------------------------
(* The key pair.                                                           *)

\* What was read of the file of f: it begins with the text, and is the text if the read
\* ended with it.
Begins(f) == mem[f].key = text[f].key /\ (~mem[f].tail => mem[f] = text[f])

\* The keys a process goes on with begin with the files, and are a pair if both reads ended
\* with them.
Loaded == /\ Begins("pub") /\ Begins("pri")
          /\ ~mem["pub"].tail /\ ~mem["pri"].tail => mem["pub"] = mem["pri"] /\ mem["pub"] # Blank

\* The key files hold bare keys, the private key is on disk only under the public key it goes
\* with, it is not there while a new pair is made, and the pair of the first ready process
\* that left one is never given up.
PairInv ==
  fails = 0 =>
    /\ \A f \in {"pub", "pri"} : text[f] = Key(text[f].key)
    /\ text["pri"] # Blank => text["pub"] = text["pri"]
    /\ known # 0 => text["pri"] = Key(known)
    /\ pc = "pri" => Begins("pub") /\ (text["pub"] # Blank => ~regenerate)
                     /\ (~regenerate => mem["pub"] # Blank)
    /\ pc = "generate" => text["pri"] = Blank
    /\ pc \in {"open", "write"} /\ target \in {"pub", "pri"} =>
         /\ mem["pub"] = mem["pri"] /\ mem["pub"] # Blank /\ text["pri"] = Blank
         /\ mem["pub"] = Key(mem["pub"].key)
    /\ pc \in {"open", "write"} /\ target = "pri" => text["pub"] = mem["pub"]
    /\ pc = "ask" \/ (pc \in {"open", "write"} /\ target = "cert") => Loaded
    /\ pc = "ready" => Loaded /\ (text["pri"] # Blank => known # 0)

\* What is read begins with the text, and is empty only if the text is.
LEMMA ReadBegins ==
  ASSUME NEW f \in Name, text[f] \in Text,
         NEW t \in IF f \in onDisk THEN Read(f) ELSE {Blank}, f \notin onDisk => text[f] = Blank
  PROVE  t.key = text[f].key /\ (~t.tail => t = text[f]) /\ (t = Blank => text[f] = Blank)
<1>1. Blank.tail = FALSE /\ t \in {text[f], [text[f] EXCEPT !.tail = TRUE]}
  BY DEF Read, Blank, Key
<1>2. t = [text[f] EXCEPT !.tail = TRUE] => t.tail = TRUE /\ t.key = text[f].key
  BY DEF Text
<1> QED
  BY <1>1, <1>2

\* Every step keeps the pair.
LEMMA PairStep == TypeInv /\ PairInv /\ [Next]_vars => PairInv'
<1> SUFFICES ASSUME TypeInv, PairInv, [Next]_vars, fails' = 0 PROVE PairInv'
  BY DEF PairInv
<1> USE IdentityAssumption, BlankText
    DEF TypeInv, TypeOK, FilesInv, Name, PairInv, Loaded, Begins
<1>1. CASE Start
  BY <1>1 DEF Start, disk
<1>2. CASE LoadPub
  <2>1. PICK t \in (IF "pub" \in onDisk THEN Read("pub") ELSE {Blank}) :
          /\ mem' = [mem EXCEPT !["pub"] = t]
          /\ regenerate' = (regenerate \/ Missing("pub", t))
    BY <1>2 DEF LoadPub, LoadKey
  <2>2. t.key = text["pub"].key /\ (~t.tail => t = text["pub"]) /\ (t = Blank => text["pub"] = Blank)
    BY <2>1, ReadBegins
  <2>3. ~regenerate
    BY <1>2 DEF LoadPub, LoadKey
  <2>4. (text["pub"] # Blank => ~regenerate') /\ (~regenerate' => t # Blank)
    BY <2>1, <2>2, <2>3 DEF Missing
  <2> QED
    BY <1>2, <2>1, <2>2, <2>4 DEF LoadPub, LoadKey, disk
<1>3. CASE LoadPri
  <2>1. PICK t \in (IF "pri" \in onDisk THEN Read("pri") ELSE {Blank}) :
          /\ mem' = [mem EXCEPT !["pri"] = t]
          /\ regenerate' = (regenerate \/ Missing("pri", t))
    BY <1>3 DEF LoadPri, LoadKey
  <2>2. t.key = text["pri"].key /\ (~t.tail => t = text["pri"]) /\ (t = Blank => text["pri"] = Blank)
    BY <2>1, ReadBegins
  <2>3. pc = "pri" /\ fails = 0 /\ UNCHANGED <<disk, fails, known>>
        /\ pc' = IF regenerate' THEN "generate" ELSE "ask"
    BY <1>3 DEF LoadPri, LoadKey
  <2>4. CASE regenerate'
    <3>1. text["pri"] = Blank
      BY <2>1, <2>2, <2>3, <2>4 DEF Missing
    <3> QED
      BY <2>3, <2>4, <3>1 DEF disk
  <2>5. CASE ~regenerate'
    <3>1. ~regenerate /\ mem["pub"] # Blank /\ t # Blank
      BY <2>1, <2>3, <2>5 DEF Missing
    <3>2. mem'["pub"] = mem["pub"] /\ mem'["pri"] = t
      BY <2>1
    <3>3. Loaded'
      BY <2>2, <2>3, <3>1, <3>2 DEF disk
    <3> QED
      BY <2>3, <2>5, <3>3 DEF disk
  <2> QED
    BY <2>4, <2>5
<1>4. CASE Generate
  <2>1. Key(now) # Blank /\ Key(now) = Key(Key(now).key)
    BY KeyText DEF Key
  <2>2. mem'["pub"] = Key(now) /\ mem'["pri"] = Key(now)
    BY <1>4 DEF Generate
  <2> QED
    BY <1>4, <2>1, <2>2 DEF Generate, disk
<1>5. CASE Open
  <2>1. Blank = Key(Blank.key)
    BY DEF Blank, Key
  <2>2. /\ pc = "open" /\ pc' = "write" /\ UNCHANGED <<mem, target, known, fails>>
        /\ \A f \in Name : text'[f] = IF f = target THEN Blank ELSE text[f]
    BY <1>5 DEF Open
  <2>3. CASE target = "cert"
    BY <2>2, <2>3
  <2>4. CASE target \in {"pub", "pri"}
    <3>1. known = 0
      <4>1. known # 0 => Key(known) # Blank
        BY KeyText
      <4> QED
        BY <2>2, <2>4, <4>1
    <3> QED
      BY <2>1, <2>2, <2>4, <3>1
  <2> QED
    BY <2>3, <2>4
<1>6. CASE Write
  <2>1. /\ pc = "write" /\ UNCHANGED <<mem, fails>> /\ AfterWrite
        /\ \A f \in Name : text'[f] = IF f = target THEN mem[f] ELSE text[f]
    BY <1>6 DEF Write
  <2>2. Key(0) = Blank /\ \A k \in 0 .. MaxClock : Key(k).key = k /\ Key(k).tail = FALSE
    BY DEF Key, Blank
  <2>3. CASE target = "cert"
    <3>1. /\ pc' = "ready" /\ target' = target
          /\ known' = IF known = 0 /\ text["pri"] # Blank THEN text["pub"].key ELSE known
      BY <2>1, <2>3 DEF AfterWrite
    <3>2. text["pri"] # Blank => text["pri"] = Key(text["pri"].key) /\ text["pri"].key # 0
      BY <2>1, <2>2
    <3>3. text["pri"] # Blank => known' # 0 /\ text["pri"] = Key(known')
      BY <2>1, <2>2, <3>1, <3>2
    <3>4. known' # 0 => text["pri"] = Key(known')
      BY <2>1, <3>1, <3>3
    <3> QED
      BY <2>1, <2>3, <3>1, <3>3, <3>4
  <2>4. CASE target \in {"pub", "pri"}
    <3>1. known = 0 /\ known' = known
      <4>1. known # 0 => Key(known) # Blank
        BY KeyText
      <4> QED
        BY <2>1, <2>4, <4>1 DEF AfterWrite
    <3>2. mem["pub"].tail = FALSE
      <4>1. mem["pub"].key \in 0 .. MaxClock
        BY DEF Text
      <4> QED
        BY <2>1, <2>2, <2>4, <4>1
    <3> QED
      BY <2>1, <2>4, <3>1, <3>2 DEF AfterWrite
  <2> QED
    BY <2>3, <2>4
<1>7. CASE AskCA
  BY <1>7 DEF AskCA, disk
<1>8. CASE FileFails
  BY <1>8 DEF FileFails
<1>9. CASE Crash
  BY <1>9 DEF Crash, disk
<1>10. CASE Second
  BY <1>10 DEF Second, disk, process
<1>11. CASE UNCHANGED vars
  BY <1>11 DEF vars, disk, process
<1> QED
  BY <1>1, <1>2, <1>3, <1>4, <1>5, <1>6, <1>7, <1>8, <1>9, <1>10, <1>11
  DEF Next, Construct

\* The invariant of the pair holds from the start.
LEMMA PairKept == Spec => []PairInv
<1>1. Init => PairInv
  BY BlankText DEF Init, PairInv, Name, Blank, Key
<1> QED
  BY <1>1, PairStep, TypedFiles, PTL DEF Spec

\* KeyPairMatches: whatever earlier processes left behind when they died, and however far the
\* reads run, a ready process has keys that begin with the files, a private key on disk only
\* with its public key, and a pair where the reads ended with the files.
THEOREM KeyPairsMatch == Spec => []KeyPairMatches
<1>1. PairInv => KeyPairMatches
  BY DEF PairInv, Loaded, Begins, KeyPairMatches
<1> QED
  BY <1>1, PairKept, PTL

\* IdentityStable: once a process got ready and left both key files, every later one that gets
\* ready finds the same pair in them and has keys that begin with it.
THEOREM IdentitiesStable == Spec => []IdentityStable
<1>1. TypeInv /\ PairInv => IdentityStable
  <2> SUFFICES ASSUME TypeInv, PairInv, pc = "ready", fails = 0, known # 0
               PROVE  \A f \in {"pub", "pri"} : text[f] = Key(known) /\ mem[f].key = known
    BY DEF IdentityStable
  <2>1. Key(known) # Blank /\ Key(known).key = known
    BY KeyText DEF TypeInv, TypeOK, Key
  <2>2. text["pri"] = Key(known) /\ text["pub"] = Key(known)
    BY <2>1 DEF PairInv
  <2> QED
    BY <2>1, <2>2 DEF PairInv, Loaded, Begins
<1> QED
  BY <1>1, PairKept, TypedFiles, PTL
=============================================================================
