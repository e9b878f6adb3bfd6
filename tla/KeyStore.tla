------------------------------ MODULE KeyStore -----------------------------
(***************************************************************************)
(* The files in the data directory that every start of the server reads or *)
(* creates: the RSA key pair (rsa_key_pair), the certificate and the       *)
(* Diffie-Hellman parameters (create_self_signed_ssl_cert), with crashes   *)
(* between any two steps, files that cannot be opened or written, restarts, *)
(* and an operator who deletes files while the server is down or serving.  *)
(*                                                                         *)
(* A start asks only whether files exist.  A file is created empty and is  *)
(* filled when its BIO is closed: what is written is smaller than the       *)
(* buffer.  On a full disk it is not filled, and nobody asks: ~bio_t        *)
(* ignores what BIO_free returns.  The two BIOs of the key pair are closed  *)
(* at the end of generate_rsa_private_key, the public one first.           *)
(***************************************************************************)
EXTENDS Integers, FiniteSets

CONSTANT MaxFaults   \* bound: crashes, deletions, files not opened or not written

ASSUME FaultsAssumption == MaxFaults \in Nat

VARIABLES
    priv, pub,    \* the key files: Absent, Empty (or not whole), or the pair they hold a half of
    crt,          \* the certificate: Absent, Empty, or the pair it was made for
    dh,           \* the DH parameters: Absent, Empty or 1
    pc,           \* where the start of the server is
    withCert,     \* --create-ssl-cert
    privRead,     \* rsa_private_key_, as read by this run
    pubRead,      \* rsa_public_key_
    pairs,        \* how many pairs have been generated: their names are 1..pairs
    faults,       \* history: how many faults there have been,
    crashed,      \*   before which steps the process has died,
    unopened,     \*   which files could not be opened,
    unwritten,    \*   which were opened and could not be filled,
    deleted       \*   and which were deleted

files == <<priv, pub, crt, dh>>
history == <<faults, crashed, unopened, unwritten, deleted>>
vars == <<files, pc, withCert, privRead, pubRead, pairs, history>>

Absent == -1
Empty == 0

Contents == {Absent, Empty} \cup 1..pairs

GeneratorSteps == {"open_priv", "open_pub", "close_priv", "flush_pub", "flush_priv"}
CertificateSteps == {"load_key", "open_crt", "flush_crt", "open_dh", "flush_dh"}
Steps == {"exists", "read_priv", "read_pub", "certificate", "service"}
             \cup GeneratorSteps \cup CertificateSteps

FileNames == {"priv", "pub", "crt", "dh"}

Init ==
    /\ priv = Absent /\ pub = Absent /\ crt = Absent /\ dh = Absent
    /\ pc = "down"
    /\ withCert = FALSE
    /\ privRead = Absent /\ pubRead = Absent
    /\ pairs = 0
    /\ faults = 0 /\ crashed = {} /\ unopened = {} /\ unwritten = {} /\ deleted = {}

-----------------------------------------------------------------------------
(* rsa_key_pair                                                            *)

Start ==
    /\ pc = "down"
    /\ pc' = "exists"
    /\ withCert' \in BOOLEAN
    /\ privRead' = Absent /\ pubRead' = Absent
    /\ UNCHANGED <<files, pairs, history>>

(* Mutant: every start makes a new pair.                                   *)
KeysExistNever ==
    /\ pc = "exists"
    /\ pc' = "open_priv" /\ pairs' = pairs + 1
    /\ UNCHANGED <<files, withCert, privRead, pubRead, history>>

KeysExist ==
    /\ pc = "exists"
    /\ \/ /\ priv # Absent /\ pub # Absent
          /\ pc' = "read_priv"
          /\ UNCHANGED pairs
       \/ /\ priv = Absent \/ pub = Absent
          /\ pc' = "open_priv"
          /\ pairs' = pairs + 1
    /\ UNCHANGED <<files, withCert, privRead, pubRead, history>>

(* A file that does not open ends the process: generate_rsa_private_key     *)
(* and rsa_key_pair throw, create_self_signed_ssl_cert fails.              *)
NotOpened(f) ==
    /\ faults < MaxFaults
    /\ faults' = faults + 1
    /\ unopened' = unopened \cup {f}
    /\ UNCHANGED <<files, withCert, privRead, pubRead, pairs, crashed, unwritten, deleted>>

Opened(step) ==
    /\ pc' = step
    /\ UNCHANGED <<withCert, privRead, pubRead, pairs, history>>

(* The disk is full when the file is closed: it stays as it was created,    *)
(* and the program goes on.                                                *)
NotWritten(f) ==
    /\ faults < MaxFaults
    /\ faults' = faults + 1
    /\ unwritten' = unwritten \cup {f}
    /\ UNCHANGED <<files, crashed, unopened, deleted>>

Closed(step) ==
    /\ pc' = step
    /\ UNCHANGED <<withCert, privRead, pubRead, pairs>>

OpenPriv ==
    /\ pc = "open_priv"
    /\ \/ NotOpened("priv") /\ pc' = "down"
       \/ Opened("open_pub") /\ priv' = Empty /\ UNCHANGED <<pub, crt, dh>>

OpenPub ==
    /\ pc = "open_pub"
    /\ \/ NotOpened("pub") /\ pc' = "close_priv"
       \/ Opened("flush_pub") /\ pub' = Empty /\ UNCHANGED <<priv, crt, dh>>

FillPriv ==
    \/ priv' = pairs /\ UNCHANGED <<pub, crt, dh, history>>
    \/ NotWritten("priv")

(* When the second file does not open, the first one is closed, and with it *)
(* filled, on the way out.                                                 *)
ClosePriv ==
    /\ pc = "close_priv"
    /\ FillPriv
    /\ Closed("down")

(* Mutant: the keys are read before the files are closed.                  *)
FlushPubReadEarly ==
    /\ pc = "flush_pub"
    /\ pub' = pairs
    /\ pc' = "read_priv"
    /\ UNCHANGED <<priv, crt, dh, withCert, privRead, pubRead, pairs, history>>

FlushPub ==
    /\ pc = "flush_pub"
    /\ \/ pub' = pairs /\ UNCHANGED <<priv, crt, dh, history>>
       \/ NotWritten("pub")
    /\ Closed("flush_priv")

FlushPriv ==
    /\ pc = "flush_priv"
    /\ FillPriv
    /\ Closed("read_priv")

(* The contents are taken as they are, the empty string too.               *)
ReadPriv ==
    /\ pc = "read_priv"
    /\ \/ NotOpened("priv") /\ pc' = "down"
       \/ /\ privRead' = priv
          /\ pc' = "read_pub"
          /\ UNCHANGED <<files, withCert, pubRead, pairs, history>>

ReadPub ==
    /\ pc = "read_pub"
    /\ \/ NotOpened("pub") /\ pc' = "down"
       \/ /\ pubRead' = pub
          /\ pc' = "certificate"
          /\ UNCHANGED <<files, withCert, privRead, pairs, history>>

-----------------------------------------------------------------------------
(* --create-ssl-cert                                                       *)

(* Mutant: the DH parameters are not asked for.                            *)
CertificateExistsCertOnly ==
    /\ pc = "certificate"
    /\ pc' = IF withCert /\ crt = Absent THEN "load_key" ELSE "service"
    /\ UNCHANGED <<files, withCert, privRead, pubRead, pairs, history>>

CertificateExists ==
    /\ pc = "certificate"
    /\ pc' = IF withCert /\ (crt = Absent \/ dh = Absent) THEN "load_key" ELSE "service"
    /\ UNCHANGED <<files, withCert, privRead, pubRead, pairs, history>>

(* The key is parsed here for the first time: an empty file ends main().    *)
LoadKey ==
    /\ pc = "load_key"
    /\ pc' = IF priv = Empty THEN "down" ELSE "open_crt"
    /\ UNCHANGED <<files, withCert, privRead, pubRead, pairs, history>>

OpenCrt ==
    /\ pc = "open_crt"
    /\ \/ NotOpened("crt") /\ pc' = "down"
       \/ Opened("flush_crt") /\ crt' = Empty /\ UNCHANGED <<priv, pub, dh>>

FlushCrt ==
    /\ pc = "flush_crt"
    /\ \/ crt' = priv /\ UNCHANGED <<priv, pub, dh, history>>
       \/ NotWritten("crt")
    /\ Closed("open_dh")

OpenDh ==
    /\ pc = "open_dh"
    /\ \/ NotOpened("dh") /\ pc' = "down"
       \/ Opened("flush_dh") /\ dh' = Empty /\ UNCHANGED <<priv, pub, crt>>

(* Mutant: the RSA key is written in the place of the DH parameters.        *)
FlushDhRsaKey ==
    /\ pc = "flush_dh"
    /\ dh' = priv
    /\ pc' = "service"
    /\ UNCHANGED <<priv, pub, crt, withCert, privRead, pubRead, pairs, history>>

FlushDh ==
    /\ pc = "flush_dh"
    /\ \/ dh' = 1 /\ UNCHANGED <<priv, pub, crt, history>>
       \/ NotWritten("dh")
    /\ Closed("service")

-----------------------------------------------------------------------------
(* From outside                                                            *)

Stop ==
    /\ pc = "service"
    /\ pc' = "down"
    /\ UNCHANGED <<files, withCert, privRead, pubRead, pairs, history>>

Crash ==
    /\ pc # "down"
    /\ faults < MaxFaults
    /\ faults' = faults + 1
    /\ crashed' = crashed \cup {pc}
    /\ pc' = "down"
    /\ UNCHANGED <<files, withCert, privRead, pubRead, pairs, unopened, unwritten, deleted>>

Delete(f) ==
    /\ pc \in {"down", "service"}
    /\ faults < MaxFaults
    /\ faults' = faults + 1
    /\ deleted' = deleted \cup {f}
    /\ priv' = IF f = "priv" THEN Absent ELSE priv
    /\ pub' = IF f = "pub" THEN Absent ELSE pub
    /\ crt' = IF f = "crt" THEN Absent ELSE crt
    /\ dh' = IF f = "dh" THEN Absent ELSE dh
    /\ UNCHANGED <<pc, withCert, privRead, pubRead, pairs, crashed, unopened, unwritten>>

Next ==
    \/ Start
    \/ KeysExist
    \/ OpenPriv
    \/ OpenPub
    \/ ClosePriv
    \/ FlushPub
    \/ FlushPriv
    \/ ReadPriv
    \/ ReadPub
    \/ CertificateExists
    \/ LoadKey
    \/ OpenCrt
    \/ FlushCrt
    \/ OpenDh
    \/ FlushDh
    \/ Stop
    \/ Crash
    \/ \E f \in FileNames : Delete(f)

Spec == Init /\ [][Next]_vars

-----------------------------------------------------------------------------
(* Every file holds nothing, or something of a pair that was generated.    *)
TypeOK ==
    /\ pairs \in Nat
    /\ priv \in Contents /\ pub \in Contents /\ crt \in Contents
    /\ dh \in {Absent, Empty, 1}
    /\ pc \in Steps \cup {"down"}
    /\ withCert \in BOOLEAN
    /\ privRead \in Contents /\ pubRead \in Contents
    /\ faults \in 0..MaxFaults
    /\ crashed \subseteq Steps
    /\ unopened \subseteq FileNames
    /\ unwritten \subseteq FileNames
    /\ deleted \subseteq FileNames

(* The window in which a crash leaves a pair that exists and has no private *)
(* key: once the public file is there and the private one is not filled.   *)
PairWasCut ==
    \/ crashed \cap {"flush_pub", "flush_priv"} # {}
    \/ crashed \cap {"open_pub", "close_priv"} # {} /\ "priv" \in deleted

(* A server serves with a whole private key, so that it can sign, unless an *)
(* earlier start was cut in that window or the disk was once full when the  *)
(* key was written; every other crash is healed by the next start.  The     *)
(* public key that it verifies with is whole but for a start cut before it  *)
(* was filled, or a full disk.  Two halves that it has read are of one      *)
(* pair, unless an old public file once refused to be overwritten.         *)
ServedPairIsSound ==
    pc = "service"
        => /\ privRead = Empty => PairWasCut \/ "priv" \in unwritten
           /\ pubRead = Empty => "flush_pub" \in crashed \/ "pub" \in unwritten
           /\ privRead > Empty /\ pubRead > Empty /\ privRead # pubRead => "pub" \in unopened

(* Tokens outlive restarts: a new pair is generated only for a cause, at    *)
(* most one for each crash, deletion or file that did not open or was not  *)
(* written.                                                                *)
NewPairsHaveACause == pairs <= 1 + faults

(* The certificate is closed before the DH file is created, and a start     *)
(* that misses either makes both: a crash between them heals, and a server  *)
(* told to create a certificate serves a whole one, as long as nobody      *)
(* deletes it alone and the disk was not full when it was written.  The DH  *)
(* file is the last: one that was cut or not written is never made again,   *)
(* and the property does not speak of it.                                  *)
CertificateHeals ==
    pc = "service" /\ withCert /\ "crt" \notin deleted \cup unwritten => crt > Empty
=============================================================================
