--------------------------- MODULE CertAuthority ---------------------------
(***************************************************************************)
(* The certificate authority of the Shores: tools/ca/ca.sh.                *)
(*                                                                         *)
(* An element of Runs is one invocation of the script; pc[p] is the        *)
(* statement it comes to next.  The script takes no lock, so invocations   *)
(* interleave between statements; with "set -e" a statement that fails     *)
(* ends the invocation, as an interrupt does, and leaves the files as they *)
(* are.  A redirection with > empties the file before anything is written, *)
(* and an openssl that makes one file from others reads those first and    *)
(* writes that at the end, which makes two steps of it.                    *)
(*                                                                         *)
(* A Shore's key, request and certificate lie in the directory given with  *)
(* --out, the Shore's own unless it is given, and are called after the     *)
(* Shore.  A key is named after the invocation that generated it, a        *)
(* certificate after the one that signed it.                               *)
(***************************************************************************)
EXTENDS Naturals, Sequences

CONSTANTS
  Runs,      \* invocations
  Earlier,   \* an invocation of "init" before all of them
  Names,     \* names of Shores
  Dirs,      \* directories that keys and certificates are put into
  Files,     \* directories with the names issued to them: where a key, a
             \* request or a certificate may be
  Alike,     \* Alike[n]: the names, other than n, that the expression n matches
  None       \* no file, no name

ASSUME CAAssumption ==
  /\ Earlier \notin Runs /\ None \notin Runs \union Names \union Files /\ None # Earlier
  /\ Files \subseteq [dir : Dirs, name : Names]
  /\ Alike \in [Names -> SUBSET Names]

VARIABLES
  pc,         \* where each invocation stands
  name,       \* the --name of each
  file,       \* the files of each "issue": its --out, and --name again
  held,       \* the key that openssl has read, or that of the request it has read
  serial,     \* the serial each has read; 0 is the empty string
  serialFile, \* serial.txt; 0 if it is empty, and 1 also if there is none
  caKey,      \* ca.key, or None
  caCert,     \* the key that ca.crt is for, or None
  keyFile,    \* keyFile[f]: the key in f, or None
  csrFile,    \* csrFile[f]: the key that the request in f is for, or None
  certFile,   \* certFile[f]: the certificate in f, or None
  certKey,    \* the key in the certificate each has signed
  index,      \* index.txt
  revoked,    \* revoked.txt
  met,        \* history: pairs of invocations that ran at the same time
  blank       \* history: whether serial.txt has been read while it was empty

argVars == <<name, file>>
procVars == <<pc, argVars, serial, held>>
caVars == <<caKey, caCert>>
shoreVars == <<keyFile, csrFile, certFile, certKey>>
lists == <<index, revoked>>
vars == <<procVars, serialFile, caVars, shoreVars, lists, met, blank>>

Ended == {"done", "failed"}
UnderWay == {"founding", "loading", "selfsigning", "reading", "clearing", "writing",
             "keying", "opening", "requesting", "checking", "signing", "tidying",
             "recording", "finding", "revoking"}

CAInit ==
  /\ pc = [p \in Runs |-> "new"]
  /\ name = [p \in Runs |-> None]
  /\ file = [p \in Runs |-> None]
  /\ serial = [p \in Runs |-> 0]
  /\ held = [p \in Runs |-> None]
  /\ serialFile = 1
  /\ caKey \in {None, Earlier} /\ caCert = caKey
  /\ keyFile = [f \in Files |-> None]
  /\ csrFile = [f \in Files |-> None]
  /\ certFile = [f \in Files |-> None]
  /\ certKey = [p \in Runs |-> None]
  /\ index = <<>>
  /\ revoked = {}
  /\ met = {} /\ blank = FALSE

Goto(p, place) == pc' = [pc EXCEPT ![p] = place]

Running == {p \in Runs : pc[p] \in UnderWay}

(* The invocation begins; whoever is under way has met it.                 *)
Begin(p, place) ==
  /\ pc[p] = "new"
  /\ Goto(p, place)
  /\ met' = met \union {{p, q} : q \in Running}
  /\ UNCHANGED <<serial, held, serialFile, caVars, shoreVars, lists, blank>>

(* A statement of p that leads from one place to another.                  *)
Step(p, from, to) == pc[p] = from /\ Goto(p, to) /\ UNCHANGED <<argVars, met>>

(* openssl has read a key, or a request for one; openssl writes its file.  *)
Hold(p, key) == held' = [held EXCEPT ![p] = key]
LetGo(p) == Hold(p, None)

(* A statement fails, or the operator interrupts the invocation: between   *)
(* emptying serial.txt and writing it, say, and the file stays empty.      *)
Die(p) ==
  /\ pc[p] \in UnderWay
  /\ Goto(p, "failed") /\ LetGo(p)
  /\ UNCHANGED <<argVars, serial, serialFile, caVars, shoreVars, lists, met, blank>>

-----------------------------------------------------------------------------
(* ca.sh init *)

(* Mutant: an existing key is no reason to stop.                           *)
InitAnyway(p) == Begin(p, "founding") /\ UNCHANGED argVars

StartInit(p) == caKey = None /\ Begin(p, "founding") /\ UNCHANGED argVars

MakeCAKey(p) ==
  /\ Step(p, "founding", "loading")
  /\ caKey' = p
  /\ UNCHANGED <<serial, held, serialFile, caCert, shoreVars, lists, blank>>

(* openssl req -new -x509: the certificate is for whatever ca.key holds by *)
(* now ...                                                                 *)
ReadCAKey(p) ==
  /\ Step(p, "loading", "selfsigning")
  /\ Hold(p, caKey)
  /\ UNCHANGED <<serial, serialFile, caVars, shoreVars, lists, blank>>

(* ... and lies beside what it holds by then.  The files touched next mean *)
(* the same empty as absent; 1 in serial.txt is the number after no        *)
(* number.                                                                 *)
WriteCACert(p) ==
  /\ Step(p, "selfsigning", "clearing")
  /\ caCert' = held[p] /\ LetGo(p)
  /\ UNCHANGED <<serial, serialFile, caKey, shoreVars, lists, blank>>

-----------------------------------------------------------------------------
(* ca.sh issue --name f.name --out f.dir *)

HasCA == caKey # None /\ caCert # None

StartIssue(p, f) ==
  /\ HasCA
  /\ Begin(p, "reading")
  /\ name' = [name EXCEPT ![p] = f.name]
  /\ file' = [file EXCEPT ![p] = f]

(* next_serial: cat, then > and echo.                                      *)
ReadSerial(p) ==
  /\ Step(p, "reading", "clearing")
  /\ serial' = [serial EXCEPT ![p] = serialFile]
  /\ blank' = (blank \/ serialFile = 0)
  /\ UNCHANGED <<held, serialFile, caVars, shoreVars, lists>>

ClearSerial(p) ==
  /\ Step(p, "clearing", "writing")
  /\ serialFile' = 0
  /\ UNCHANGED <<serial, held, caVars, shoreVars, lists, blank>>

(* Mutant: the number is written back as it was read.                      *)
WriteSerialBack(p) ==
  /\ Step(p, "writing", IF name[p] = None THEN "done" ELSE "keying")
  /\ serialFile' = IF serial[p] = 0 THEN 1 ELSE serial[p]
  /\ UNCHANGED <<serial, held, caVars, shoreVars, lists, blank>>

(* In shell arithmetic the empty string counts as 0.                       *)
WriteSerial(p) ==
  /\ Step(p, "writing", IF name[p] = None THEN "done" ELSE "keying")
  /\ serialFile' = serial[p] + 1
  /\ UNCHANGED <<serial, held, caVars, shoreVars, lists, blank>>

MakeKey(p) ==
  /\ Step(p, "keying", "opening")
  /\ keyFile' = [keyFile EXCEPT ![file[p]] = p]
  /\ UNCHANGED <<serial, held, serialFile, caVars, csrFile, certFile, certKey, lists, blank>>

(* openssl req: the key is read ...                                        *)
ReadKey(p) ==
  /\ Step(p, "opening", "requesting")
  /\ Hold(p, keyFile[file[p]])
  /\ UNCHANGED <<serial, serialFile, caVars, shoreVars, lists, blank>>

(* Mutant: a signing request that is there already is used.                *)
KeepCSR(p) ==
  /\ Step(p, "requesting", "checking")
  /\ csrFile' = [csrFile EXCEPT ![file[p]] = IF @ = None THEN held[p] ELSE @] /\ LetGo(p)
  /\ UNCHANGED <<serial, serialFile, caVars, keyFile, certFile, certKey, lists, blank>>

(* ... and a request for it written.                                       *)
WriteCSR(p) ==
  /\ Step(p, "requesting", "checking")
  /\ csrFile' = [csrFile EXCEPT ![file[p]] = held[p]] /\ LetGo(p)
  /\ UNCHANGED <<serial, serialFile, caVars, keyFile, certFile, certKey, lists, blank>>

(* openssl x509 reads the request and the CA's files; it refuses an empty  *)
(* serial, a missing request, and a CA whose key and certificate do not    *)
(* belong together ...                                                     *)
ReadCSR(p) ==
  /\ Step(p, "checking", "signing")
  /\ serial[p] # 0 /\ csrFile[file[p]] # None /\ caKey = caCert
  /\ Hold(p, csrFile[file[p]])
  /\ UNCHANGED <<serial, serialFile, caVars, shoreVars, lists, blank>>

(* ... and writes the certificate.                                         *)
WriteCert(p) ==
  /\ Step(p, "signing", "tidying")
  /\ certFile' = [certFile EXCEPT ![file[p]] = p]
  /\ certKey' = [certKey EXCEPT ![p] = held[p]] /\ LetGo(p)
  /\ UNCHANGED <<serial, serialFile, caVars, keyFile, csrFile, lists, blank>>

RemoveCSR(p) ==
  /\ Step(p, "tidying", "recording")
  /\ csrFile' = [csrFile EXCEPT ![file[p]] = None]
  /\ UNCHANGED <<serial, held, serialFile, caVars, keyFile, certFile, certKey, lists, blank>>

(* Mutant: the line takes the number that serial.txt holds by now.         *)
RecordNext(p) ==
  /\ Step(p, "recording", "done")
  /\ index' = Append(index, [serial |-> serialFile, file |-> file[p]])
  /\ UNCHANGED <<serial, held, serialFile, caVars, shoreVars, revoked, blank>>

(* A line holds the serial, the name (twice), and the certificate's path.  *)
Record(p) ==
  /\ Step(p, "recording", "done")
  /\ index' = Append(index, [serial |-> serial[p], file |-> file[p]])
  /\ UNCHANGED <<serial, held, serialFile, caVars, shoreVars, revoked, blank>>

-----------------------------------------------------------------------------
(* ca.sh revoke --name n *)

StartRevoke(p, n) ==
  /\ HasCA
  /\ Begin(p, "finding")
  /\ name' = [name EXCEPT ![p] = n]
  /\ UNCHANGED file

(* grep "|n|": n is an expression, in which a dot stands for any character *)
(* (shore.1 finds shore-1).                                                *)
Lines(n) == {k \in DOMAIN index : index[k].file.name \in {n} \union Alike[n]}

(* Line k is what grep, cut and tail -1 find for n.                        *)
LastLine(n, k) == k \in Lines(n) /\ \A j \in Lines(n) : j <= k

(* Mutant: nothing stops a revocation of nothing.                          *)
FindAnything(p) ==
  /\ Step(p, "finding", "revoking")
  /\ \/ \E k \in DOMAIN index :
          LastLine(name[p], k) /\ serial' = [serial EXCEPT ![p] = index[k].serial]
     \/ Lines(name[p]) = {} /\ UNCHANGED serial
  /\ UNCHANGED <<held, serialFile, caVars, shoreVars, lists, blank>>

(* Without a line that is found the invocation dies.                       *)
FindSerial(p) ==
  /\ Step(p, "finding", "revoking")
  /\ \E k \in DOMAIN index :
       LastLine(name[p], k) /\ serial' = [serial EXCEPT ![p] = index[k].serial]
  /\ UNCHANGED <<held, serialFile, caVars, shoreVars, lists, blank>>

(* A serial that is on the list already stays there.                       *)
Revoke(p) ==
  /\ Step(p, "revoking", "done")
  /\ revoked' = revoked \union {serial[p]}
  /\ UNCHANGED <<serial, held, serialFile, caVars, shoreVars, index, blank>>

-----------------------------------------------------------------------------
CANext ==
  \E p \in Runs :
    \/ StartInit(p) \/ MakeCAKey(p) \/ ReadCAKey(p) \/ WriteCACert(p)
    \/ \E f \in Files : StartIssue(p, f)
    \/ ReadSerial(p) \/ ClearSerial(p) \/ WriteSerial(p)
    \/ MakeKey(p) \/ ReadKey(p) \/ WriteCSR(p) \/ ReadCSR(p) \/ WriteCert(p)
    \/ RemoveCSR(p) \/ Record(p)
    \/ \E n \in Names : StartRevoke(p, n)
    \/ FindSerial(p) \/ Revoke(p)
    \/ Die(p)

CASpec == CAInit /\ [][CANext]_vars

-----------------------------------------------------------------------------
CATypeOK ==
  /\ pc \in [Runs -> {"new"} \union UnderWay \union Ended]
  /\ name \in [Runs -> Names \union {None}]
  /\ file \in [Runs -> Files \union {None}]
  /\ serial \in [Runs -> Nat]
  /\ held \in [Runs -> Runs \union {None, Earlier}]
  /\ serialFile \in Nat
  /\ {caKey, caCert} \subseteq Runs \union {None, Earlier}
  /\ keyFile \in [Files -> Runs \union {None}]
  /\ csrFile \in [Files -> Runs \union {None}]
  /\ certFile \in [Files -> Runs \union {None}]
  /\ certKey \in [Runs -> Runs \union {None}]
  /\ index \in Seq([serial : Nat \ {0}, file : Files])
  /\ revoked \subseteq Nat \ {0}
  /\ met \subseteq SUBSET Runs
  /\ blank \in BOOLEAN

Signed(p) == certKey[p] # None
Alone(p) == \A q \in Runs : {p, q} \notin met

(* No other invocation that was under way at the same time had to do with  *)
(* the files of p.                                                         *)
Undisturbed(p) == \A q \in Runs \ {p} : {p, q} \in met => file[q] # file[p]

(* Two certificates share a serial only if one of their issues ran beside  *)
(* some other invocation, or serial.txt has been read while it was empty:  *)
(* one operator at a time hands out each serial once, as long as nothing   *)
(* dies over the empty file (ca.sh next_serial).                           *)
DuplicateHasCause ==
  \A p, q \in Runs :
    p # q /\ Signed(p) /\ Signed(q) /\ serial[p] = serial[q]
      => ~Alone(p) \/ ~Alone(q) \/ blank

(* The key beside a certificate is the key in it, unless the invocation    *)
(* that generated the key has not got to the end (a new key overwrites the *)
(* old one before there is a certificate for it) or overlapped another     *)
(* issue to the same directory: openssl reads the key, or the request, of  *)
(* the one and writes over that of the other (ca.sh cmd_issue).            *)
PairMatches ==
  \A f \in Files :
    LET p == keyFile[f] IN
      certFile[f] # None /\ certKey[certFile[f]] # p => pc[p] # "done" \/ ~Undisturbed(p)

(* What "revoke" would revoke for a Shore's name is the certificate that   *)
(* lies in a directory, once its issue has got to the end and overlapped   *)
(* no other one to that directory; unless the line it finds is that of     *)
(* another file: the name was issued again to another directory, or so was *)
(* one that the name, as an expression, matches (ca.sh cmd_issue,          *)
(* cmd_revoke).                                                            *)
RevokeHitsDeployed ==
  \A f \in Files :
    LET p == certFile[f] IN
      p # None /\ Undisturbed(p) /\ pc[p] = "done" =>
        \E k \in DOMAIN index :
          /\ LastLine(f.name, k)
          /\ index[k].file = f => index[k].serial = serial[p]

(* The CA's key and certificate belong together unless two invocations     *)
(* founded it at once (ca.sh cmd_init).                                    *)
CAPairMatches ==
  caCert # None /\ caKey # caCert => caKey \in Runs /\ ~Alone(caKey)
=============================================================================
