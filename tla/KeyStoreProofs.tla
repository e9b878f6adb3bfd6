--------------------------- MODULE KeyStoreProofs --------------------------
(***************************************************************************)
(* Proofs about KeyStore.tla for every bound on the faults: whatever was    *)
(* lost or cut, in whatever order, a server that serves has a sound pair    *)
(* and a whole certificate, but for the causes that the properties name.   *)
(*                                                                         *)
(* The properties speak of a server that serves, and of nothing in between. *)
(* IInv adds what each step of a start may rely on (StepInv), and what is   *)
(* true of the files at any time, which is what the next start finds       *)
(* (CountInv, CutInv, PubInv, HalvesInv, CertInv).                         *)
(***************************************************************************)
EXTENDS KeyStore, TLAPS

Filling == {"open_pub", "close_priv", "flush_pub", "flush_priv"}

(* What the steps before have done.                                        *)
StepInv ==
    /\ pc \in GeneratorSteps => pairs > 0
    /\ pc \in Filling => priv = Empty
    /\ pc = "close_priv" => "pub" \in unopened
    /\ pc = "flush_priv" => pub \in {Empty, pairs}
    /\ pc = "flush_pub" => pub = Empty
    /\ pc \in {"read_priv", "read_pub", "certificate", "load_key"} => pub # Absent
    /\ pc \in {"read_priv", "read_pub", "certificate", "load_key"} => priv # Absent
    /\ pc \in {"open_crt", "flush_crt"} => priv > Empty
    /\ pc = "flush_crt" => crt = Empty
    /\ pc = "flush_dh" => dh = Empty
    /\ pc \in {"open_dh", "flush_dh"} => crt > Empty \/ "crt" \in unwritten

(* A missing file has been paid for with a fault.                          *)
CountInv ==
    \/ pairs <= faults
    \/ /\ pairs = faults + 1
       /\ pc # "close_priv"
       /\ pc \in GeneratorSteps \/ (priv # Absent /\ pub # Absent)

(* How a public file comes to stand beside an empty private one.           *)
CutInv ==
    /\ pub # Absent /\ (priv = Absent \/ pc \in {"open_priv", "open_pub", "close_priv"}) => "priv" \in deleted
    /\ priv = Empty /\ pub # Absent /\ pc \notin Filling => PairWasCut \/ "priv" \in unwritten

(* How a public file comes to be empty.                                    *)
PubInv == pub = Empty /\ pc # "flush_pub" => "flush_pub" \in crashed \/ "pub" \in unwritten

(* Two halves that are there are of one pair.                              *)
HalvesInv == priv > Empty /\ pub > Empty /\ priv # pub => "pub" \in unopened

(* What has been read was in the files.                                    *)
ReadInv ==
    /\ pc \in {"exists", "read_priv", "read_pub"} \cup GeneratorSteps => pubRead = Absent
    /\ pc = "read_pub" => privRead = priv
    /\ privRead = Empty => PairWasCut \/ "priv" \in unwritten
    /\ pubRead = Empty => "flush_pub" \in crashed \/ "pub" \in unwritten
    /\ privRead > Empty /\ pubRead > Empty /\ privRead # pubRead => "pub" \in unopened

(* A DH file is the sign that the certificate was closed.                  *)
CertInv ==
    /\ dh # Absent /\ "crt" \notin deleted \cup unwritten => crt > Empty
    /\ pc \in {"load_key", "open_crt", "flush_crt"} /\ "crt" \notin deleted \cup unwritten => dh = Absent
    /\ CertificateHeals

IInv == TypeOK /\ StepInv /\ CountInv /\ CutInv /\ PubInv /\ HalvesInv /\ ReadInv /\ CertInv

-----------------------------------------------------------------------------

(* A fault leaves the files as they are.                                   *)
LEMMA FaultType ==
    ASSUME TypeOK, NEW f \in FileNames, NotOpened(f) \/ (NotWritten(f) /\ Closed(pc')),
           pc' \in Steps \cup {"down"}
    PROVE  TypeOK'
<1> USE DEF TypeOK, NotOpened, NotWritten, Closed, files
<1>1. Contents' = Contents
  BY DEF Contents
<1>2. pairs' \in Nat /\ priv' \in Contents' /\ pub' \in Contents' /\ crt' \in Contents'
  BY <1>1
<1>3. dh' \in {Absent, Empty, 1} /\ privRead' \in Contents' /\ pubRead' \in Contents'
  BY <1>1
<1>4. withCert' \in BOOLEAN
  OBVIOUS
<1>5. faults' \in 0..MaxFaults
  BY FaultsAssumption
<1>6. /\ crashed' \subseteq Steps /\ deleted' \subseteq FileNames
      /\ unopened' \subseteq FileNames /\ unwritten' \subseteq FileNames
  OBVIOUS
<1>. QED  BY <1>2, <1>3, <1>4, <1>5, <1>6

(* The types, which need a generated pair in every step of the generator. *)
LEMMA TypeStep ==
    ASSUME IInv, [Next]_vars
    PROVE  TypeOK'
<1> USE FaultsAssumption DEF IInv, StepInv, TypeOK, Contents, Absent, Empty, Steps,
      GeneratorSteps, CertificateSteps, FileNames, files, history
<1>1. CASE Start
  BY <1>1 DEF Start
<1>2. CASE KeysExist
  BY <1>2 DEF KeysExist
<1>3. CASE OpenPriv
  <2>1. CASE NotOpened("priv")
    BY <2>1, <1>3, FaultType DEF OpenPriv, Opened
  <2>2. CASE ~NotOpened("priv")
    BY <1>3, <2>2 DEF OpenPriv, Opened
  <2>. QED  BY <1>3, <2>1, <2>2 DEF OpenPriv
<1>4. CASE OpenPub
  <2>1. CASE NotOpened("pub")
    BY <2>1, <1>4, FaultType DEF OpenPub, Opened
  <2>2. CASE ~NotOpened("pub")
    BY <1>4, <2>2 DEF OpenPub, Opened
  <2>. QED  BY <1>4, <2>1, <2>2 DEF OpenPub
<1>5. CASE FlushPub
  <2>1. CASE NotWritten("pub")
    BY <2>1, <1>5, FaultType DEF FlushPub, Closed
  <2>2. CASE ~NotWritten("pub")
    <3>1. pairs > 0
      BY <1>5 DEF FlushPub
    <3>2. /\ pub' = pairs /\ pairs' = pairs /\ pc' \in Steps
          /\ UNCHANGED <<priv, crt, dh, history, withCert, privRead, pubRead>>
      BY <1>5, <2>2 DEF FlushPub, Closed
    <3>. QED  BY <3>1, <3>2
  <2>. QED  BY <2>1, <2>2
<1>6. CASE FlushPriv
  <2>1. CASE NotWritten("priv")
    BY <2>1, <1>6, FaultType DEF FlushPriv, Closed
  <2>2. CASE ~NotWritten("priv")
    <3>1. pairs > 0
      BY <1>6 DEF FlushPriv
    <3>2. /\ priv' = pairs /\ pairs' = pairs /\ pc' \in Steps
          /\ UNCHANGED <<pub, crt, dh, history, withCert, privRead, pubRead>>
      BY <1>6, <2>2 DEF FlushPriv, FillPriv, Closed
    <3>. QED  BY <3>1, <3>2
  <2>. QED  BY <2>1, <2>2
<1>7. CASE ReadPriv
  <2>1. CASE NotOpened("priv")
    BY <2>1, <1>7, FaultType DEF ReadPriv
  <2>2. CASE ~NotOpened("priv")
    BY <1>7, <2>2 DEF ReadPriv
  <2>. QED  BY <1>7, <2>1, <2>2 DEF ReadPriv
<1>8. CASE ReadPub
  <2>1. CASE NotOpened("pub")
    BY <2>1, <1>8, FaultType DEF ReadPub
  <2>2. CASE ~NotOpened("pub")
    BY <1>8, <2>2 DEF ReadPub
  <2>. QED  BY <1>8, <2>1, <2>2 DEF ReadPub
<1>9. CASE CertificateExists
  BY <1>9 DEF CertificateExists
<1>10. CASE LoadKey
  BY <1>10 DEF LoadKey
<1>11. CASE OpenCrt
  <2>1. CASE NotOpened("crt")
    BY <2>1, <1>11, FaultType DEF OpenCrt, Opened
  <2>2. CASE ~NotOpened("crt")
    BY <1>11, <2>2 DEF OpenCrt, Opened
  <2>. QED  BY <1>11, <2>1, <2>2 DEF OpenCrt
<1>12. CASE FlushCrt
  <2>1. CASE NotWritten("crt")
    BY <2>1, <1>12, FaultType DEF FlushCrt, Closed
  <2>2. CASE ~NotWritten("crt")
    BY <1>12, <2>2 DEF FlushCrt, Closed
  <2>. QED  BY <2>1, <2>2
<1>13. CASE OpenDh
  <2>1. CASE NotOpened("dh")
    BY <2>1, <1>13, FaultType DEF OpenDh, Opened
  <2>2. CASE ~NotOpened("dh")
    BY <1>13, <2>2 DEF OpenDh, Opened
  <2>. QED  BY <1>13, <2>1, <2>2 DEF OpenDh
<1>14. CASE FlushDh
  <2>1. CASE NotWritten("dh")
    BY <2>1, <1>14, FaultType DEF FlushDh, Closed
  <2>2. CASE ~NotWritten("dh")
    BY <1>14, <2>2 DEF FlushDh, Closed
  <2>. QED  BY <2>1, <2>2
<1>15. CASE Stop
  BY <1>15 DEF Stop
<1>16. CASE Crash
  BY <1>16 DEF Crash
<1>17. ASSUME NEW f \in FileNames, Delete(f) PROVE TypeOK'
  BY <1>17 DEF Delete
<1>18. CASE UNCHANGED vars
  BY <1>18 DEF vars
<1>19. CASE ClosePriv
  <2>1. CASE NotWritten("priv")
    BY <2>1, <1>19, FaultType DEF ClosePriv, Closed
  <2>2. CASE ~NotWritten("priv")
    <3>1. pairs > 0
      BY <1>19 DEF ClosePriv
    <3>2. /\ priv' = pairs /\ pairs' = pairs /\ pc' = "down"
          /\ UNCHANGED <<pub, crt, dh, history, withCert, privRead, pubRead>>
      BY <1>19, <2>2 DEF ClosePriv, FillPriv, Closed
    <3>. QED  BY <3>1, <3>2
  <2>. QED  BY <2>1, <2>2
<1>. QED  BY <1>1, <1>2, <1>3, <1>4, <1>5, <1>6, <1>7, <1>8, <1>9, <1>10, <1>11, <1>12,
      <1>13, <1>14, <1>15, <1>16, <1>17, <1>18, <1>19 DEF Next

(* What each step relies on is what the one before it has left.            *)
LEMMA StepStep ==
    ASSUME IInv, [Next]_vars
    PROVE  StepInv'
<1> USE DEF IInv, StepInv, CertInv, CertificateHeals, Filling, TypeOK, Contents, Absent,
      Empty, Steps, GeneratorSteps, CertificateSteps, FileNames, files, history
<1>1. CASE Start
  BY <1>1 DEF Start
<1>2. CASE KeysExist
  BY <1>2 DEF KeysExist
<1>3. CASE OpenPriv
  BY <1>3 DEF OpenPriv, NotOpened, Opened
<1>4. CASE OpenPub
  BY <1>4 DEF OpenPub, NotOpened, Opened
<1>5. CASE FlushPub
  BY <1>5 DEF FlushPub, NotWritten, Closed
<1>6. CASE FlushPriv
  BY <1>6 DEF FlushPriv, FillPriv, NotWritten, Closed
<1>7. CASE ReadPriv
  BY <1>7 DEF ReadPriv, NotOpened
<1>8. CASE ReadPub
  BY <1>8 DEF ReadPub, NotOpened
<1>9. CASE CertificateExists
  BY <1>9 DEF CertificateExists
<1>10. CASE LoadKey
  BY <1>10 DEF LoadKey
<1>11. CASE OpenCrt
  BY <1>11 DEF OpenCrt, NotOpened, Opened
<1>12. CASE FlushCrt
  BY <1>12 DEF FlushCrt, NotWritten, Closed
<1>13. CASE OpenDh
  BY <1>13 DEF OpenDh, NotOpened, Opened
<1>14. CASE FlushDh
  BY <1>14 DEF FlushDh, NotWritten, Closed
<1>15. CASE Stop
  BY <1>15 DEF Stop
<1>16. CASE Crash
  BY <1>16 DEF Crash
<1>17. ASSUME NEW f \in FileNames, Delete(f) PROVE StepInv'
  BY <1>17 DEF Delete
<1>18. CASE UNCHANGED vars
  BY <1>18 DEF vars
<1>19. CASE ClosePriv
  BY <1>19 DEF ClosePriv, FillPriv, NotWritten, Closed
<1>. QED  BY <1>1, <1>2, <1>3, <1>4, <1>5, <1>6, <1>7, <1>8, <1>9, <1>10, <1>11, <1>12,
      <1>13, <1>14, <1>15, <1>16, <1>17, <1>18, <1>19 DEF Next

(* A pair is generated where a file is missing, and a file is missing after *)
(* a fault.                                                                *)
LEMMA CountStep ==
    ASSUME IInv, [Next]_vars
    PROVE  CountInv'
<1> USE DEF IInv, CountInv, StepInv, Filling, TypeOK, Contents, Absent, Empty, Steps,
      GeneratorSteps, CertificateSteps, FileNames, files, history
<1>1. CASE Start
  BY <1>1 DEF Start
<1>2. CASE KeysExist
  BY <1>2 DEF KeysExist
<1>3. CASE OpenPriv
  BY <1>3 DEF OpenPriv, NotOpened, Opened
<1>4. CASE OpenPub
  BY <1>4 DEF OpenPub, NotOpened, Opened
<1>5. CASE FlushPub
  BY <1>5 DEF FlushPub, NotWritten, Closed
<1>6. CASE FlushPriv
  BY <1>6 DEF FlushPriv, FillPriv, NotWritten, Closed
<1>7. CASE ReadPriv
  BY <1>7 DEF ReadPriv, NotOpened
<1>8. CASE ReadPub
  BY <1>8 DEF ReadPub, NotOpened
<1>9. CASE CertificateExists
  BY <1>9 DEF CertificateExists
<1>10. CASE LoadKey
  BY <1>10 DEF LoadKey
<1>11. CASE OpenCrt
  BY <1>11 DEF OpenCrt, NotOpened, Opened
<1>12. CASE FlushCrt
  BY <1>12 DEF FlushCrt, NotWritten, Closed
<1>13. CASE OpenDh
  BY <1>13 DEF OpenDh, NotOpened, Opened
<1>14. CASE FlushDh
  BY <1>14 DEF FlushDh, NotWritten, Closed
<1>15. CASE Stop
  BY <1>15 DEF Stop
<1>16. CASE Crash
  BY <1>16 DEF Crash
<1>17. ASSUME NEW f \in FileNames, Delete(f) PROVE CountInv'
  BY <1>17 DEF Delete
<1>18. CASE UNCHANGED vars
  BY <1>18 DEF vars
<1>19. CASE ClosePriv
  BY <1>19 DEF ClosePriv, FillPriv, NotWritten, Closed
<1>. QED  BY <1>1, <1>2, <1>3, <1>4, <1>5, <1>6, <1>7, <1>8, <1>9, <1>10, <1>11, <1>12,
      <1>13, <1>14, <1>15, <1>16, <1>17, <1>18, <1>19 DEF Next

(* An empty private file beside a public one: the start was cut between    *)
(* the two, and the history remembers it.                                  *)
LEMMA CutStep ==
    ASSUME IInv, [Next]_vars
    PROVE  CutInv'
<1> USE DEF IInv, CutInv, StepInv, Filling, PairWasCut, TypeOK, Contents, Absent, Empty,
      Steps, GeneratorSteps, CertificateSteps, FileNames, files, history
<1>1. CASE Start
  BY <1>1 DEF Start
<1>2. CASE KeysExist
  BY <1>2 DEF KeysExist
<1>3. CASE OpenPriv
  BY <1>3 DEF OpenPriv, NotOpened, Opened
<1>4. CASE OpenPub
  BY <1>4 DEF OpenPub, NotOpened, Opened
<1>5. CASE FlushPub
  BY <1>5 DEF FlushPub, NotWritten, Closed
<1>6. CASE FlushPriv
  BY <1>6 DEF FlushPriv, FillPriv, NotWritten, Closed
<1>7. CASE ReadPriv
  BY <1>7 DEF ReadPriv, NotOpened
<1>8. CASE ReadPub
  BY <1>8 DEF ReadPub, NotOpened
<1>9. CASE CertificateExists
  BY <1>9 DEF CertificateExists
<1>10. CASE LoadKey
  BY <1>10 DEF LoadKey
<1>11. CASE OpenCrt
  BY <1>11 DEF OpenCrt, NotOpened, Opened
<1>12. CASE FlushCrt
  BY <1>12 DEF FlushCrt, NotWritten, Closed
<1>13. CASE OpenDh
  BY <1>13 DEF OpenDh, NotOpened, Opened
<1>14. CASE FlushDh
  BY <1>14 DEF FlushDh, NotWritten, Closed
<1>15. CASE Stop
  BY <1>15 DEF Stop
<1>16. CASE Crash
  BY <1>16 DEF Crash
<1>17. ASSUME NEW f \in FileNames, Delete(f) PROVE CutInv'
  BY <1>17 DEF Delete
<1>18. CASE UNCHANGED vars
  BY <1>18 DEF vars
<1>19. CASE ClosePriv
  BY <1>19 DEF ClosePriv, FillPriv, NotWritten, Closed
<1>. QED  BY <1>1, <1>2, <1>3, <1>4, <1>5, <1>6, <1>7, <1>8, <1>9, <1>10, <1>11, <1>12,
      <1>13, <1>14, <1>15, <1>16, <1>17, <1>18, <1>19 DEF Next

(* An empty public file was cut or not written.                            *)
LEMMA PubStep ==
    ASSUME IInv, [Next]_vars
    PROVE  PubInv'
<1> USE DEF IInv, PubInv, StepInv, Filling, TypeOK, Contents, Absent, Empty, Steps,
      GeneratorSteps, CertificateSteps, FileNames, files, history
<1>1. CASE Start
  BY <1>1 DEF Start
<1>2. CASE KeysExist
  BY <1>2 DEF KeysExist
<1>3. CASE OpenPriv
  BY <1>3 DEF OpenPriv, NotOpened, Opened
<1>4. CASE OpenPub
  BY <1>4 DEF OpenPub, NotOpened, Opened
<1>5. CASE FlushPub
  BY <1>5 DEF FlushPub, NotWritten, Closed
<1>6. CASE FlushPriv
  BY <1>6 DEF FlushPriv, FillPriv, NotWritten, Closed
<1>7. CASE ReadPriv
  BY <1>7 DEF ReadPriv, NotOpened
<1>8. CASE ReadPub
  BY <1>8 DEF ReadPub, NotOpened
<1>9. CASE CertificateExists
  BY <1>9 DEF CertificateExists
<1>10. CASE LoadKey
  BY <1>10 DEF LoadKey
<1>11. CASE OpenCrt
  BY <1>11 DEF OpenCrt, NotOpened, Opened
<1>12. CASE FlushCrt
  BY <1>12 DEF FlushCrt, NotWritten, Closed
<1>13. CASE OpenDh
  BY <1>13 DEF OpenDh, NotOpened, Opened
<1>14. CASE FlushDh
  BY <1>14 DEF FlushDh, NotWritten, Closed
<1>15. CASE Stop
  BY <1>15 DEF Stop
<1>16. CASE Crash
  BY <1>16 DEF Crash
<1>17. ASSUME NEW f \in FileNames, Delete(f) PROVE PubInv'
  BY <1>17 DEF Delete
<1>18. CASE UNCHANGED vars
  BY <1>18 DEF vars
<1>19. CASE ClosePriv
  BY <1>19 DEF ClosePriv, FillPriv, NotWritten, Closed
<1>. QED  BY <1>1, <1>2, <1>3, <1>4, <1>5, <1>6, <1>7, <1>8, <1>9, <1>10, <1>11, <1>12,
      <1>13, <1>14, <1>15, <1>16, <1>17, <1>18, <1>19 DEF Next

(* The two halves are written together, or not both.                       *)
LEMMA HalvesStep ==
    ASSUME IInv, [Next]_vars
    PROVE  HalvesInv'
<1> USE DEF IInv, HalvesInv, StepInv, Filling, TypeOK, Contents, Absent, Empty, Steps,
      GeneratorSteps, CertificateSteps, FileNames, files, history
<1>1. CASE Start
  BY <1>1 DEF Start
<1>2. CASE KeysExist
  BY <1>2 DEF KeysExist
<1>3. CASE OpenPriv
  BY <1>3 DEF OpenPriv, NotOpened, Opened
<1>4. CASE OpenPub
  BY <1>4 DEF OpenPub, NotOpened, Opened
<1>5. CASE FlushPub
  BY <1>5 DEF FlushPub, NotWritten, Closed
<1>6. CASE FlushPriv
  BY <1>6 DEF FlushPriv, FillPriv, NotWritten, Closed
<1>7. CASE ReadPriv
  BY <1>7 DEF ReadPriv, NotOpened
<1>8. CASE ReadPub
  BY <1>8 DEF ReadPub, NotOpened
<1>9. CASE CertificateExists
  BY <1>9 DEF CertificateExists
<1>10. CASE LoadKey
  BY <1>10 DEF LoadKey
<1>11. CASE OpenCrt
  BY <1>11 DEF OpenCrt, NotOpened, Opened
<1>12. CASE FlushCrt
  BY <1>12 DEF FlushCrt, NotWritten, Closed
<1>13. CASE OpenDh
  BY <1>13 DEF OpenDh, NotOpened, Opened
<1>14. CASE FlushDh
  BY <1>14 DEF FlushDh, NotWritten, Closed
<1>15. CASE Stop
  BY <1>15 DEF Stop
<1>16. CASE Crash
  BY <1>16 DEF Crash
<1>17. ASSUME NEW f \in FileNames, Delete(f) PROVE HalvesInv'
  BY <1>17 DEF Delete
<1>18. CASE UNCHANGED vars
  BY <1>18 DEF vars
<1>19. CASE ClosePriv
  BY <1>19 DEF ClosePriv, FillPriv, NotWritten, Closed
<1>. QED  BY <1>1, <1>2, <1>3, <1>4, <1>5, <1>6, <1>7, <1>8, <1>9, <1>10, <1>11, <1>12,
      <1>13, <1>14, <1>15, <1>16, <1>17, <1>18, <1>19 DEF Next

(* A start reads the files as they are, with nobody else at them.          *)
LEMMA ReadStep ==
    ASSUME IInv, [Next]_vars
    PROVE  ReadInv'
<1> USE DEF IInv, ReadInv, StepInv, HalvesInv, CutInv, PubInv, Filling, PairWasCut, TypeOK,
      Contents, Absent, Empty, Steps, GeneratorSteps, CertificateSteps, FileNames,
      files, history
<1>1. CASE Start
  BY <1>1 DEF Start
<1>2. CASE KeysExist
  BY <1>2 DEF KeysExist
<1>3. CASE OpenPriv
  BY <1>3 DEF OpenPriv, NotOpened, Opened
<1>4. CASE OpenPub
  BY <1>4 DEF OpenPub, NotOpened, Opened
<1>5. CASE FlushPub
  BY <1>5 DEF FlushPub, NotWritten, Closed
<1>6. CASE FlushPriv
  BY <1>6 DEF FlushPriv, FillPriv, NotWritten, Closed
<1>7. CASE ReadPriv
  BY <1>7 DEF ReadPriv, NotOpened
<1>8. CASE ReadPub
  BY <1>8 DEF ReadPub, NotOpened
<1>9. CASE CertificateExists
  BY <1>9 DEF CertificateExists
<1>10. CASE LoadKey
  BY <1>10 DEF LoadKey
<1>11. CASE OpenCrt
  BY <1>11 DEF OpenCrt, NotOpened, Opened
<1>12. CASE FlushCrt
  BY <1>12 DEF FlushCrt, NotWritten, Closed
<1>13. CASE OpenDh
  BY <1>13 DEF OpenDh, NotOpened, Opened
<1>14. CASE FlushDh
  BY <1>14 DEF FlushDh, NotWritten, Closed
<1>15. CASE Stop
  BY <1>15 DEF Stop
<1>16. CASE Crash
  BY <1>16 DEF Crash
<1>17. ASSUME NEW f \in FileNames, Delete(f) PROVE ReadInv'
  BY <1>17 DEF Delete
<1>18. CASE UNCHANGED vars
  BY <1>18 DEF vars
<1>19. CASE ClosePriv
  BY <1>19 DEF ClosePriv, FillPriv, NotWritten, Closed
<1>. QED  BY <1>1, <1>2, <1>3, <1>4, <1>5, <1>6, <1>7, <1>8, <1>9, <1>10, <1>11, <1>12,
      <1>13, <1>14, <1>15, <1>16, <1>17, <1>18, <1>19 DEF Next

(* The certificate is closed before the DH file is created.                *)
LEMMA CertStep ==
    ASSUME IInv, [Next]_vars
    PROVE  CertInv'
<1> USE DEF IInv, CertInv, CertificateHeals, StepInv, TypeOK, Contents, Absent, Empty,
      Steps, GeneratorSteps, CertificateSteps, FileNames, files, history
<1>1. CASE Start
  BY <1>1 DEF Start
<1>2. CASE KeysExist
  BY <1>2 DEF KeysExist
<1>3. CASE OpenPriv
  BY <1>3 DEF OpenPriv, NotOpened, Opened
<1>4. CASE OpenPub
  BY <1>4 DEF OpenPub, NotOpened, Opened
<1>5. CASE FlushPub
  BY <1>5 DEF FlushPub, NotWritten, Closed
<1>6. CASE FlushPriv
  BY <1>6 DEF FlushPriv, FillPriv, NotWritten, Closed
<1>7. CASE ReadPriv
  BY <1>7 DEF ReadPriv, NotOpened
<1>8. CASE ReadPub
  BY <1>8 DEF ReadPub, NotOpened
<1>9. CASE CertificateExists
  BY <1>9 DEF CertificateExists
<1>10. CASE LoadKey
  BY <1>10 DEF LoadKey
<1>11. CASE OpenCrt
  BY <1>11 DEF OpenCrt, NotOpened, Opened
<1>12. CASE FlushCrt
  BY <1>12 DEF FlushCrt, NotWritten, Closed
<1>13. CASE OpenDh
  BY <1>13 DEF OpenDh, NotOpened, Opened
<1>14. CASE FlushDh
  BY <1>14 DEF FlushDh, NotWritten, Closed
<1>15. CASE Stop
  BY <1>15 DEF Stop
<1>16. CASE Crash
  BY <1>16 DEF Crash
<1>17. ASSUME NEW f \in FileNames, Delete(f) PROVE CertInv'
  BY <1>17 DEF Delete
<1>18. CASE UNCHANGED vars
  BY <1>18 DEF vars
<1>19. CASE ClosePriv
  BY <1>19 DEF ClosePriv, FillPriv, NotWritten, Closed
<1>. QED  BY <1>1, <1>2, <1>3, <1>4, <1>5, <1>6, <1>7, <1>8, <1>9, <1>10, <1>11, <1>12,
      <1>13, <1>14, <1>15, <1>16, <1>17, <1>18, <1>19 DEF Next

-----------------------------------------------------------------------------
LEMMA Initially == Init => IInv
<1> SUFFICES ASSUME Init PROVE IInv
  OBVIOUS
<1> USE DEF Init, Absent, Empty, Filling, GeneratorSteps
<1>1. TypeOK
  <2>1. pairs \in Nat /\ priv \in Contents /\ pub \in Contents /\ crt \in Contents
    BY DEF Contents
  <2>2. dh \in {Absent, Empty, 1} /\ privRead \in Contents /\ pubRead \in Contents
    BY DEF Contents
  <2>3. pc \in Steps \cup {"down"} /\ withCert \in BOOLEAN
    OBVIOUS
  <2>4. faults \in 0..MaxFaults
    BY FaultsAssumption
  <2>5. /\ crashed \subseteq Steps /\ unopened \subseteq FileNames
        /\ unwritten \subseteq FileNames /\ deleted \subseteq FileNames
    OBVIOUS
  <2>. QED  BY <2>1, <2>2, <2>3, <2>4, <2>5 DEF TypeOK
<1>2. StepInv /\ CountInv /\ CutInv /\ PubInv /\ HalvesInv
  BY DEF StepInv, CountInv, CutInv, PubInv, HalvesInv
<1>3. ReadInv /\ CertInv
  BY DEF ReadInv, CertInv, CertificateHeals
<1>. QED  BY <1>1, <1>2, <1>3 DEF IInv

LEMMA Inductive == IInv /\ [Next]_vars => IInv'
BY TypeStep, StepStep, CountStep, CutStep, PubStep, HalvesStep, ReadStep, CertStep DEF IInv

LEMMA Invariance == Spec => []IInv
BY Initially, Inductive, PTL DEF Spec

(* The variables keep their types: a file holds nothing, or something of a  *)
(* pair that rsa_key_pair has generated.                                   *)
THEOREM TypeCorrect == Spec => []TypeOK
BY Invariance, PTL DEF IInv

(* A server that serves has read a whole private key, unless a start was    *)
(* cut between the two files of generate_rsa_private_key or the disk was    *)
(* full when the key was written, and a whole public one with the like      *)
(* exceptions; two halves that do not match need a public file that could   *)
(* not be opened.                                                          *)
THEOREM ServedPairsAreSound == Spec => []ServedPairIsSound
<1>1. IInv => ServedPairIsSound
  BY DEF IInv, ReadInv, ServedPairIsSound
<1>. QED  BY Invariance, <1>1, PTL

(* rsa_key_pair generates one pair, and one more for each fault at most.    *)
THEOREM PairsAreKept == Spec => []NewPairsHaveACause
<1>1. IInv => NewPairsHaveACause
  BY FaultsAssumption DEF IInv, TypeOK, CountInv, NewPairsHaveACause
<1>. QED  BY Invariance, <1>1, PTL

(* A server that creates its certificate serves a whole one, whenever the   *)
(* starts before it were cut, unless the certificate was deleted alone or   *)
(* the disk was full when it was written.                                  *)
THEOREM CertificatesHeal == Spec => []CertificateHeals
<1>1. IInv => CertificateHeals
  BY DEF IInv, CertInv
<1>. QED  BY Invariance, <1>1, PTL
=============================================================================
