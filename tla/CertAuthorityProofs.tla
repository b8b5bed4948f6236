------------------------ MODULE CertAuthorityProofs ------------------------
(***************************************************************************)
(* Proofs about CertAuthority, for any invocations, Shores and             *)
(* directories.                                                            *)
(*                                                                         *)
(* Every argument about invocations that do not overlap goes through       *)
(* Overlaps: of two that are under way, each has met the other.  What an   *)
(* invocation that met nobody has found or left stays as it is, or moves   *)
(* on in order, until another one begins; of a Shore's files that is so if *)
(* it met nobody else to these files.                                      *)
(***************************************************************************)
EXTENDS CertAuthority, TLAPS

Overlaps ==
  \A p, q \in Runs : p # q /\ pc[p] \in UnderWay /\ pc[q] \in UnderWay => {p, q} \in met

(* Where openssl has read a key or a request and not yet written its file. *)
InHand == {"requesting", "signing"}

(* From the key to the last statement that changes a Shore's files.        *)
Handling == {"opening", "checking", "tidying"} \union InHand

(* What each place an invocation can stand at says of it.                  *)
Places ==
  \A p \in Runs :
    /\ pc[p] \in {"new", "founding", "loading", "selfsigning"} =>
         name[p] = None /\ file[p] = None
    /\ pc[p] \in {"clearing", "writing"} /\ name[p] # None => file[p] \in Files
    /\ pc[p] \in {"reading", "keying", "recording", "finding", "revoking"} \union Handling
         => name[p] \in Names
    /\ pc[p] \in {"reading", "keying", "recording"} \union Handling => file[p] \in Files
    /\ pc[p] \in {"signing", "tidying", "recording", "revoking"} => serial[p] # 0
    /\ pc[p] \in Handling => keyFile[file[p]] # None
    /\ pc[p] \in InHand => held[p] \in Runs
    /\ Signed(p) =>
         pc[p] \in {"tidying", "recording"} \union Ended /\ name[p] \in Names /\ file[p] \in Files

(* A CA is founded before it is used.  Whoever issues while an "init" is   *)
(* under way has met it, and so has a second "init" that got past the      *)
(* check for ca.key before there was one.                                  *)
Founding ==
  /\ caKey = None => caCert = None
  /\ \A p \in Runs :
       /\ name[p] # None => caKey # None
       /\ pc[p] = "founding" /\ caKey # None => ~Alone(p)
       /\ pc[p] \in {"loading", "selfsigning"} => caKey # None
       /\ pc[p] = "selfsigning" /\ held[p] # caKey => caKey \in Runs /\ ~Alone(caKey)
       /\ \A q \in Runs :
            name[p] # None /\ name[q] = None /\ pc[q] \in UnderWay => {p, q} \in met

(* An issue that has its number for good.                                  *)
Numbered(p) == pc[p] \in {"keying", "opening", "checking"} \union InHand \/ Signed(p)

(* Whatever is read, or on its way into serial.txt, after the issue of an  *)
(* invocation that met nobody is greater than its number.                  *)
Ahead(p) ==
  /\ serialFile = 0 \/ serialFile > serial[p]
  /\ \A q \in Runs \ {p} :
       /\ pc[q] \in {"clearing", "writing"} => serial[q] > serial[p]
       /\ Alone(q) /\ Numbered(q) => serial[q] # serial[p]

Counter == ~blank => \A p \in Runs : Alone(p) /\ Numbered(p) => Ahead(p)

(* Whose certificate and whose key lie in a Shore's files.                 *)
Certs ==
  \A f \in Files : certFile[f] # None =>
    file[certFile[f]] = f /\ Signed(certFile[f]) /\ keyFile[f] # None

Keyed ==
  \A f \in Files : keyFile[f] # None =>
    /\ file[keyFile[f]] = f
    /\ pc[keyFile[f]] \in {"recording"} \union Handling \union Ended

(* Whoever else may still touch the files has met the maker of the key.    *)
Rivals ==
  \A f \in Files, q \in Runs :
    /\ keyFile[f] # None /\ q # keyFile[f]
    /\ file[q] = f /\ pc[q] \in Handling
    => {keyFile[f], q} \in met

(* An invocation whose key is in place, and that no other one to those     *)
(* files has met, makes everything of that key.                            *)
Own ==
  \A p \in Runs :
    file[p] \in Files /\ keyFile[file[p]] = p /\ Undisturbed(p) =>
      /\ pc[p] \in InHand => held[p] = p
      /\ pc[p] = "checking" => csrFile[file[p]] = p
      /\ pc[p] \in {"tidying", "recording", "done"} =>
           certFile[file[p]] = p /\ certKey[p] = p

(* Who has still a line to add behind that of the certificate that lies    *)
(* there.                                                                  *)
Filing ==
  \A f \in Files, q \in Runs :
    /\ certFile[f] # None /\ q # certFile[f]
    /\ file[q] = f /\ pc[q] \in {"tidying", "recording"}
    => {certFile[f], q} \in met

(* Every line is about the files of some invocation.                       *)
Filed == \A k \in DOMAIN index : \E q \in Runs : file[q] = index[k].file

CAInv ==
  /\ CATypeOK /\ Overlaps /\ Places /\ Founding /\ Counter
  /\ Certs /\ Keyed /\ Rivals /\ Own /\ Filing /\ Filed
  /\ CAPairMatches /\ RevokeHitsDeployed

-----------------------------------------------------------------------------
LEMMA NamesOfFiles == \A f \in Files : f.name \in Names
  BY CAAssumption

LEMMA ElementOfSeq ==
  ASSUME NEW S, NEW s \in Seq(S), NEW k \in 1..Len(s)
  PROVE  s[k] \in S
  OBVIOUS

(* Beginning changes the place and who has met whom.                       *)
LEMMA Beginning ==
  ASSUME CATypeOK, NEW p \in Runs, NEW place \in UnderWay, Begin(p, place)
  PROVE  /\ met' \subseteq SUBSET Runs /\ met \subseteq met'
         /\ \A q \in Running : {p, q} \in met' /\ {q, p} \in met'
         /\ pc' = [pc EXCEPT ![p] = place] /\ pc[p] = "new"
         /\ pc' \in [Runs -> {"new"} \union UnderWay \union Ended]
         /\ UNCHANGED <<serial, held, serialFile, caKey, caCert, keyFile, csrFile, certFile,
                        certKey, index, revoked, blank>>
<1>1. met' = met \union {{p, q} : q \in Running}
  BY DEF Begin
<1>2. \A q \in Running : q \in Runs /\ {p, q} = {q, p}
  BY DEF Running
<1>3. \A q \in Running : {p, q} \in SUBSET Runs
  BY <1>2
<1>4. met' \subseteq SUBSET Runs /\ met \subseteq met'
  <2>1. met \subseteq SUBSET Runs
    BY DEF CATypeOK
  <2>2. {{p, q} : q \in Running} \subseteq SUBSET Runs
    BY <1>3
  <2> QED
    BY <1>1, <2>1, <2>2
<1>5. \A q \in Running : {p, q} \in met' /\ {q, p} \in met'
  BY <1>1, <1>2
<1>6. pc' = [pc EXCEPT ![p] = place] /\ pc[p] = "new"
  BY DEF Begin, Goto
<1>7. pc' \in [Runs -> {"new"} \union UnderWay \union Ended]
  BY <1>6 DEF CATypeOK
<1>8. UNCHANGED <<serial, held, serialFile, caKey, caCert, keyFile, csrFile, certFile,
                  certKey, index, revoked, blank>>
  BY DEF Begin, caVars, shoreVars, lists
<1> QED
  BY <1>4, <1>5, <1>6, <1>7, <1>8

LEMMA AppendedLine ==
  ASSUME NEW S, NEW s \in Seq(S), NEW e
  PROVE  /\ DOMAIN s = 1..Len(s) /\ Len(s) \in Nat
         /\ DOMAIN Append(s, e) = 1..(Len(s) + 1)
         /\ \A k \in DOMAIN s : Append(s, e)[k] = s[k]
         /\ Append(s, e)[Len(s) + 1] = e
  OBVIOUS

LEMMA SerialsOfLines ==
  ASSUME CATypeOK
  PROVE  \A k \in DOMAIN index : index[k].serial \in Nat \ {0} /\ index[k].file \in Files
<1> SUFFICES ASSUME NEW k \in DOMAIN index
             PROVE  index[k].serial \in Nat \ {0} /\ index[k].file \in Files
  OBVIOUS
<1>1. index \in Seq([serial : Nat \ {0}, file : Files])
  BY DEF CATypeOK
<1>2. DOMAIN index = 1..Len(index) /\ Len(index) \in Nat
  BY <1>1
<1>3. index[k] \in [serial : Nat \ {0}, file : Files]
  BY <1>1, <1>2, ElementOfSeq
<1> QED
  BY <1>3

(* Every variable keeps to its type.                                       *)
LEMMA CATypePreserved == CATypeOK /\ Places /\ [CANext]_vars => CATypeOK'
<1> SUFFICES ASSUME CATypeOK, Places, [CANext]_vars PROVE CATypeOK'
  OBVIOUS
<1>0. \A k \in DOMAIN index : index[k].serial \in Nat \ {0}
  BY SerialsOfLines
<1>b. ASSUME NEW p \in Runs, NEW place \in UnderWay, Begin(p, place),
             name' \in [Runs -> Names \union {None}],
             file' \in [Runs -> Files \union {None}]
      PROVE CATypeOK'
  <2>1. /\ pc' \in [Runs -> {"new"} \union UnderWay \union Ended]
        /\ met' \subseteq SUBSET Runs
        /\ UNCHANGED <<serial, held, serialFile, caKey, caCert, keyFile, csrFile, certFile,
                       certKey, index, revoked, blank>>
    BY <1>b, Beginning
  <2> QED
    BY <1>b, <2>1 DEF CATypeOK
<1> USE CAAssumption DEF CATypeOK, UnderWay, Ended, Goto, Step, Hold, LetGo, argVars,
        procVars, caVars, shoreVars, lists
<1>1. ASSUME NEW p \in Runs, StartInit(p) PROVE CATypeOK'
  BY <1>1, <1>b DEF StartInit
<1>2. ASSUME NEW p \in Runs, MakeCAKey(p) PROVE CATypeOK'
  BY <1>2 DEF MakeCAKey
<1>3. ASSUME NEW p \in Runs, ReadCAKey(p) PROVE CATypeOK'
  BY <1>3 DEF ReadCAKey
<1>4. ASSUME NEW p \in Runs, WriteCACert(p) PROVE CATypeOK'
  BY <1>4 DEF WriteCACert
<1>5. ASSUME NEW p \in Runs, NEW f \in Files, StartIssue(p, f) PROVE CATypeOK'
  <2>1. f.name \in Names
    BY NamesOfFiles
  <2>2. name' \in [Runs -> Names \union {None}] /\ file' \in [Runs -> Files \union {None}]
    BY <1>5, <2>1 DEF StartIssue
  <2> QED
    BY <1>5, <2>2, <1>b DEF StartIssue
<1>6. ASSUME NEW p \in Runs, NEW n \in Names, StartRevoke(p, n) PROVE CATypeOK'
  BY <1>6, <1>b DEF StartRevoke
<1>7. ASSUME NEW p \in Runs, ReadSerial(p) PROVE CATypeOK'
  BY <1>7 DEF ReadSerial
<1>8. ASSUME NEW p \in Runs, ClearSerial(p) PROVE CATypeOK'
  BY <1>8 DEF ClearSerial
<1>9. ASSUME NEW p \in Runs, WriteSerial(p) PROVE CATypeOK'
  BY <1>9 DEF WriteSerial
<1>10. ASSUME NEW p \in Runs, MakeKey(p) PROVE CATypeOK'
  <2>1. file[p] \in Files
    BY <1>10 DEF MakeKey, Places
  <2> QED
    BY <1>10, <2>1 DEF MakeKey
<1>11. ASSUME NEW p \in Runs, ReadKey(p) PROVE CATypeOK'
  <2>1. file[p] \in Files
    BY <1>11 DEF ReadKey, Places, Handling
  <2> QED
    BY <1>11, <2>1 DEF ReadKey
<1>12. ASSUME NEW p \in Runs, WriteCSR(p) PROVE CATypeOK'
  <2>1. file[p] \in Files /\ held[p] \in Runs
    BY <1>12 DEF WriteCSR, Places, Handling, InHand
  <2> QED
    BY <1>12, <2>1 DEF WriteCSR
<1>13. ASSUME NEW p \in Runs, ReadCSR(p) PROVE CATypeOK'
  <2>1. file[p] \in Files
    BY <1>13 DEF ReadCSR, Places, Handling
  <2> QED
    BY <1>13, <2>1 DEF ReadCSR
<1>14. ASSUME NEW p \in Runs, WriteCert(p) PROVE CATypeOK'
  <2>1. file[p] \in Files /\ held[p] \in Runs
    BY <1>14 DEF WriteCert, Places, Handling, InHand
  <2> QED
    BY <1>14, <2>1 DEF WriteCert
<1>15. ASSUME NEW p \in Runs, RemoveCSR(p) PROVE CATypeOK'
  <2>1. file[p] \in Files
    BY <1>15 DEF RemoveCSR, Places, Handling
  <2> QED
    BY <1>15, <2>1 DEF RemoveCSR
<1>16. ASSUME NEW p \in Runs, Record(p) PROVE CATypeOK'
  <2>1. [serial |-> serial[p], file |-> file[p]] \in [serial : Nat \ {0}, file : Files]
    BY <1>16 DEF Record, Places
  <2> QED
    BY <1>16, <2>1 DEF Record
<1>17. ASSUME NEW p \in Runs, FindSerial(p) PROVE CATypeOK'
  <2>1. PICK k \in DOMAIN index : serial' = [serial EXCEPT ![p] = index[k].serial]
    BY <1>17 DEF FindSerial
  <2>2. serial' \in [Runs -> Nat]
    BY <1>0, <2>1
  <2> QED
    BY <1>17, <2>2 DEF FindSerial
<1>18. ASSUME NEW p \in Runs, Revoke(p) PROVE CATypeOK'
  <2>1. serial[p] \in Nat \ {0}
    BY <1>18 DEF Revoke, Places
  <2> QED
    BY <1>18, <2>1 DEF Revoke
<1>19. ASSUME NEW p \in Runs, Die(p) PROVE CATypeOK'
  BY <1>19 DEF Die
<1>20. CASE UNCHANGED vars
  BY <1>20 DEF vars
<1> QED
  BY <1>1, <1>2, <1>3, <1>4, <1>5, <1>6, <1>7, <1>8, <1>9, <1>10, <1>11, <1>12, <1>13,
     <1>14, <1>15, <1>16, <1>17, <1>18, <1>19, <1>20 DEF CANext

(* Whoever is under way when an invocation begins has met it.              *)
LEMMA OverlapsPreserved ==
  CATypeOK /\ Overlaps /\ [CANext]_vars => Overlaps' /\ met \subseteq met'
<1> SUFFICES ASSUME CATypeOK, Overlaps, [CANext]_vars PROVE Overlaps' /\ met \subseteq met'
  OBVIOUS
<1>b. ASSUME NEW p \in Runs, NEW place \in UnderWay, Begin(p, place)
      PROVE Overlaps' /\ met \subseteq met'
  <2>1. /\ met \subseteq met' /\ pc' = [pc EXCEPT ![p] = place]
        /\ \A q \in Running : {p, q} \in met' /\ {q, p} \in met'
    BY <1>b, Beginning
  <2> QED
    BY <2>1 DEF Overlaps, Running, CATypeOK
<1>s. ASSUME NEW p \in Runs, pc[p] \in UnderWay, met' = met,
             \A q \in Runs \ {p} : pc'[q] = pc[q]
      PROVE Overlaps' /\ met \subseteq met'
  BY <1>s DEF Overlaps
<1> USE DEF CATypeOK, UnderWay, Goto, Step
<1>1. ASSUME NEW p \in Runs, StartInit(p) PROVE Overlaps' /\ met \subseteq met'
  BY <1>1, <1>b DEF StartInit
<1>2. ASSUME NEW p \in Runs, MakeCAKey(p) PROVE Overlaps' /\ met \subseteq met'
  BY <1>2, <1>s DEF MakeCAKey
<1>3. ASSUME NEW p \in Runs, ReadCAKey(p) PROVE Overlaps' /\ met \subseteq met'
  BY <1>3, <1>s DEF ReadCAKey
<1>4. ASSUME NEW p \in Runs, WriteCACert(p) PROVE Overlaps' /\ met \subseteq met'
  BY <1>4, <1>s DEF WriteCACert
<1>5. ASSUME NEW p \in Runs, NEW f \in Files, StartIssue(p, f) PROVE Overlaps' /\ met \subseteq met'
  BY <1>5, <1>b DEF StartIssue
<1>6. ASSUME NEW p \in Runs, NEW n \in Names, StartRevoke(p, n)
      PROVE  Overlaps' /\ met \subseteq met'
  BY <1>6, <1>b DEF StartRevoke
<1>7. ASSUME NEW p \in Runs, ReadSerial(p) PROVE Overlaps' /\ met \subseteq met'
  BY <1>7, <1>s DEF ReadSerial
<1>8. ASSUME NEW p \in Runs, ClearSerial(p) PROVE Overlaps' /\ met \subseteq met'
  BY <1>8, <1>s DEF ClearSerial
<1>9. ASSUME NEW p \in Runs, WriteSerial(p) PROVE Overlaps' /\ met \subseteq met'
  BY <1>9, <1>s DEF WriteSerial
<1>10. ASSUME NEW p \in Runs, MakeKey(p) PROVE Overlaps' /\ met \subseteq met'
  BY <1>10, <1>s DEF MakeKey
<1>11. ASSUME NEW p \in Runs, ReadKey(p) PROVE Overlaps' /\ met \subseteq met'
  BY <1>11, <1>s DEF ReadKey
<1>12. ASSUME NEW p \in Runs, WriteCSR(p) PROVE Overlaps' /\ met \subseteq met'
  BY <1>12, <1>s DEF WriteCSR
<1>13. ASSUME NEW p \in Runs, ReadCSR(p) PROVE Overlaps' /\ met \subseteq met'
  BY <1>13, <1>s DEF ReadCSR
<1>14. ASSUME NEW p \in Runs, WriteCert(p) PROVE Overlaps' /\ met \subseteq met'
  BY <1>14, <1>s DEF WriteCert
<1>15. ASSUME NEW p \in Runs, RemoveCSR(p) PROVE Overlaps' /\ met \subseteq met'
  BY <1>15, <1>s DEF RemoveCSR
<1>16. ASSUME NEW p \in Runs, Record(p) PROVE Overlaps' /\ met \subseteq met'
  BY <1>16, <1>s DEF Record
<1>17. ASSUME NEW p \in Runs, FindSerial(p) PROVE Overlaps' /\ met \subseteq met'
  BY <1>17, <1>s DEF FindSerial
<1>18. ASSUME NEW p \in Runs, Revoke(p) PROVE Overlaps' /\ met \subseteq met'
  BY <1>18, <1>s DEF Revoke
<1>19. ASSUME NEW p \in Runs, Die(p) PROVE Overlaps' /\ met \subseteq met'
  BY <1>19, <1>s DEF Die
<1>20. CASE UNCHANGED vars
  BY <1>20 DEF vars, procVars, Overlaps
<1> QED
  BY <1>1, <1>2, <1>3, <1>4, <1>5, <1>6, <1>7, <1>8, <1>9, <1>10, <1>11, <1>12, <1>13,
     <1>14, <1>15, <1>16, <1>17, <1>18, <1>19, <1>20 DEF CANext

(* What its place says of an invocation stays true.                        *)
LEMMA PlacesPreserved ==
  CATypeOK /\ Places /\ [CANext]_vars
    => Places'
<1> SUFFICES ASSUME CATypeOK, Places, [CANext]_vars
             PROVE  Places'
  OBVIOUS
<1>b. ASSUME NEW p \in Runs, NEW place \in UnderWay, Begin(p, place),
             \A q \in Runs \ {p} : name'[q] = name[q] /\ file'[q] = file[q],
             \/ place = "founding" /\ name'[p] = None /\ file'[p] = None
             \/ place = "reading" /\ name'[p] \in Names /\ file'[p] \in Files
             \/ place = "finding" /\ name'[p] \in Names
      PROVE Places'
  <2>1. /\ pc' = [pc EXCEPT ![p] = place] /\ pc[p] = "new"
        /\ UNCHANGED <<serial, held, keyFile, certKey>>
    BY <1>b, Beginning
  <2> QED
    BY <1>b, <2>1 DEF Places, Signed, Ended, Handling, InHand, CATypeOK
<1> USE CAAssumption DEF CATypeOK, Places, Signed, UnderWay, Ended, Handling, InHand, Goto,
        Step, Hold, LetGo, argVars, caVars, shoreVars, lists
<1>1. ASSUME NEW p \in Runs, StartInit(p) PROVE Places'
  <2>1. name[p] = None /\ file[p] = None /\ name' = name /\ file' = file
    BY <1>1 DEF StartInit, Begin
  <2> QED
    BY <1>1, <2>1, <1>b DEF StartInit
<1>2. ASSUME NEW p \in Runs, MakeCAKey(p) PROVE Places'
  BY <1>2 DEF MakeCAKey
<1>3. ASSUME NEW p \in Runs, ReadCAKey(p) PROVE Places'
  BY <1>3 DEF ReadCAKey
<1>4. ASSUME NEW p \in Runs, WriteCACert(p) PROVE Places'
  BY <1>4 DEF WriteCACert
<1>5. ASSUME NEW p \in Runs, NEW f \in Files, StartIssue(p, f) PROVE Places'
  <2>1. f.name \in Names
    BY NamesOfFiles
  <2> QED
    BY <1>5, <2>1, <1>b DEF StartIssue
<1>6. ASSUME NEW p \in Runs, NEW n \in Names, StartRevoke(p, n) PROVE Places'
  BY <1>6, <1>b DEF StartRevoke
<1>7. ASSUME NEW p \in Runs, ReadSerial(p) PROVE Places'
  BY <1>7 DEF ReadSerial
<1>8. ASSUME NEW p \in Runs, ClearSerial(p) PROVE Places'
  BY <1>8 DEF ClearSerial
<1>9. ASSUME NEW p \in Runs, WriteSerial(p) PROVE Places'
  BY <1>9 DEF WriteSerial
<1>10. ASSUME NEW p \in Runs, MakeKey(p) PROVE Places'
  BY <1>10 DEF MakeKey
<1>11. ASSUME NEW p \in Runs, ReadKey(p) PROVE Places'
  BY <1>11 DEF ReadKey
<1>12. ASSUME NEW p \in Runs, WriteCSR(p) PROVE Places'
  BY <1>12 DEF WriteCSR
<1>13. ASSUME NEW p \in Runs, ReadCSR(p) PROVE Places'
  BY <1>13 DEF ReadCSR
<1>14. ASSUME NEW p \in Runs, WriteCert(p) PROVE Places'
  BY <1>14 DEF WriteCert
<1>15. ASSUME NEW p \in Runs, RemoveCSR(p) PROVE Places'
  BY <1>15 DEF RemoveCSR
<1>16. ASSUME NEW p \in Runs, Record(p) PROVE Places'
  BY <1>16 DEF Record
<1>17. ASSUME NEW p \in Runs, FindSerial(p) PROVE Places'
  <2>1. PICK k \in DOMAIN index : serial' = [serial EXCEPT ![p] = index[k].serial]
    BY <1>17 DEF FindSerial
  <2>2. index[k].serial # 0
    BY SerialsOfLines
  <2> QED
    BY <1>17, <2>1, <2>2 DEF FindSerial
<1>18. ASSUME NEW p \in Runs, Revoke(p) PROVE Places'
  BY <1>18 DEF Revoke
<1>19. ASSUME NEW p \in Runs, Die(p) PROVE Places'
  BY <1>19 DEF Die
<1>20. CASE UNCHANGED vars
  BY <1>20 DEF vars, procVars
<1> QED
  BY <1>1, <1>2, <1>3, <1>4, <1>5, <1>6, <1>7, <1>8, <1>9, <1>10, <1>11, <1>12, <1>13,
     <1>14, <1>15, <1>16, <1>17, <1>18, <1>19, <1>20 DEF CANext

(* Before the CA is there only its founding goes on, and a second founding *)
(* meets the first.                                                        *)
LEMMA FoundingPreserved ==
  CATypeOK /\ Overlaps /\ Places /\ Founding /\ CAPairMatches /\ [CANext]_vars
    => Founding' /\ CAPairMatches'
<1> SUFFICES ASSUME CATypeOK, Overlaps, Places, Founding, CAPairMatches, [CANext]_vars
             PROVE  Founding' /\ CAPairMatches'
  OBVIOUS
<1>0. met \subseteq met'
  BY OverlapsPreserved
<1>t. caKey \in Runs \union {None, Earlier}
  BY DEF CATypeOK
<1>b. ASSUME NEW p \in Runs, NEW place \in UnderWay, Begin(p, place),
             \A q \in Runs \ {p} : name'[q] = name[q],
             \/ place = "founding" /\ name'[p] = None /\ caKey = None
             \/ place \in {"reading", "finding"} /\ name'[p] \in Names /\ caKey # None
      PROVE Founding' /\ CAPairMatches'
  <2>1. /\ pc' = [pc EXCEPT ![p] = place] /\ pc[p] = "new"
        /\ UNCHANGED <<held, caKey, caCert>>
        /\ \A q \in Running : {p, q} \in met' /\ {q, p} \in met'
    BY <1>b, Beginning
  <2>2. CAPairMatches'
    BY <1>0, <2>1 DEF CAPairMatches, Alone
  <2>3. pc'[p] = place /\ \A q \in Runs \ {p} : pc'[q] = pc[q]
    BY <2>1 DEF CATypeOK
  <2>4. \A q, r \in Runs : name'[q] # None /\ name'[r] = None /\ pc'[r] \in UnderWay
                           => {q, r} \in met'
    <3> SUFFICES ASSUME NEW q \in Runs, NEW r \in Runs, name'[q] # None, name'[r] = None,
                        pc'[r] \in UnderWay
                 PROVE  {q, r} \in met'
      OBVIOUS
    <3>1. CASE r = p
      BY <1>b, <3>1, CAAssumption DEF Founding
    <3>2. CASE r # p /\ q = p
      BY <3>2, <2>1, <2>3 DEF Running
    <3>3. CASE r # p /\ q # p
      BY <1>b, <1>0, <3>3, <2>3 DEF Founding
    <3> QED
      BY <3>1, <3>2, <3>3
  <2>5. \A q \in Runs :
          /\ name'[q] # None => caKey # None
          /\ pc'[q] = "founding" /\ caKey # None => ~Alone(q)'
          /\ pc'[q] \in {"loading", "selfsigning"} => caKey # None
          /\ pc'[q] = "selfsigning" /\ held[q] # caKey => caKey \in Runs /\ ~Alone(caKey)'
    <3> SUFFICES ASSUME NEW q \in Runs
                 PROVE  /\ name'[q] # None => caKey # None
                        /\ pc'[q] = "founding" /\ caKey # None => ~Alone(q)'
                        /\ pc'[q] \in {"loading", "selfsigning"} => caKey # None
                        /\ pc'[q] = "selfsigning" /\ held[q] # caKey =>
                             caKey \in Runs /\ ~Alone(caKey)'
      OBVIOUS
    <3>1. CASE q = p
      BY <1>b, <2>3, <3>1
    <3>2. CASE q # p
      BY <1>b, <1>0, <2>1, <2>3, <3>2 DEF Founding, Alone
    <3> QED
      BY <3>1, <3>2
  <2> QED
    <3>1. (caKey = None => caCert = None)'
      BY <2>1 DEF Founding
    <3>2. UNCHANGED <<caKey, held>>
      BY <2>1
    <3>3. Founding'
      BY <2>4, <2>5, <3>1, <3>2 DEF Founding, Alone, UnderWay
    <3> QED
      BY <2>2, <3>3
<1>s. ASSUME NEW p \in Runs, pc[p] \in UnderWay,
             pc'[p] \notin {"founding", "loading", "selfsigning"},
             \A q \in Runs \ {p} : pc'[q] = pc[q] /\ held'[q] = held[q],
             UNCHANGED <<name, caKey, caCert, met>>
      PROVE Founding' /\ CAPairMatches'
  BY <1>s DEF Founding, CAPairMatches, Alone
<1> USE DEF CATypeOK, UnderWay, Goto, Step, Hold, LetGo, argVars, caVars
<1>1. ASSUME NEW p \in Runs, StartInit(p) PROVE Founding' /\ CAPairMatches'
  <2>1. name[p] = None /\ name' = name
    BY <1>1 DEF StartInit, Begin, Places
  <2> QED
    BY <1>1, <2>1, <1>b DEF StartInit
<1>2. ASSUME NEW p \in Runs, MakeCAKey(p) PROVE Founding' /\ CAPairMatches'
  <2>1. \A q \in Runs \ {p} :
          pc[q] \in {"founding", "selfsigning"} => {p, q} \in met /\ {q, p} \in met
    BY <1>2 DEF MakeCAKey, Overlaps
  <2>2. caKey' = p /\ p # None /\ caCert' = caCert /\ met' = met /\ name' = name /\ held' = held
    BY <1>2, CAAssumption DEF MakeCAKey
  <2>3. pc[p] = "founding" /\ pc' = [pc EXCEPT ![p] = "loading"]
    BY <1>2 DEF MakeCAKey
  <2>4. Founding'
    BY <2>1, <2>2, <2>3 DEF Founding, Alone
  <2>5. caCert # None => ~Alone(p)
    BY <2>3 DEF Founding
  <2>6. CAPairMatches'
    BY <2>2, <2>5 DEF CAPairMatches, Alone
  <2> QED
    BY <2>4, <2>6
<1>3. ASSUME NEW p \in Runs, ReadCAKey(p) PROVE Founding' /\ CAPairMatches'
  <2>1. /\ pc[p] = "loading" /\ pc' = [pc EXCEPT ![p] = "selfsigning"]
        /\ held' = [held EXCEPT ![p] = caKey] /\ UNCHANGED <<name, caKey, caCert, met>>
    BY <1>3 DEF ReadCAKey
  <2>2. caKey # None /\ held'[p] = caKey
    BY <2>1 DEF Founding
  <2>3. Founding'
    BY <2>1, <2>2 DEF Founding, Alone
  <2> QED
    BY <2>1, <2>3 DEF CAPairMatches, Alone
<1>4. ASSUME NEW p \in Runs, WriteCACert(p) PROVE Founding' /\ CAPairMatches'
  <2>1. /\ pc[p] = "selfsigning" /\ pc' = [pc EXCEPT ![p] = "clearing"]
        /\ \A q \in Runs \ {p} : held'[q] = held[q]
        /\ caCert' = held[p] /\ UNCHANGED <<name, caKey, met>>
    BY <1>4 DEF WriteCACert
  <2>2. caKey # None /\ (held[p] # caKey => caKey \in Runs /\ ~Alone(caKey))
    BY <2>1 DEF Founding
  <2>3. Founding'
    BY <2>1, <2>2 DEF Founding, Alone
  <2> QED
    BY <2>1, <2>2, <2>3 DEF CAPairMatches, Alone
<1>5. ASSUME NEW p \in Runs, NEW f \in Files, StartIssue(p, f) PROVE Founding' /\ CAPairMatches'
  <2>1. caKey # None
    BY <1>5 DEF StartIssue, HasCA
  <2> QED
    BY <1>5, <2>1, <1>b, NamesOfFiles DEF StartIssue
<1>6. ASSUME NEW p \in Runs, NEW n \in Names, StartRevoke(p, n) PROVE Founding' /\ CAPairMatches'
  <2>1. caKey # None
    BY <1>6 DEF StartRevoke, HasCA
  <2> QED
    BY <1>6, <2>1, <1>b DEF StartRevoke
<1>7. ASSUME NEW p \in Runs, ReadSerial(p) PROVE Founding' /\ CAPairMatches'
  BY <1>7, <1>s DEF ReadSerial
<1>8. ASSUME NEW p \in Runs, ClearSerial(p) PROVE Founding' /\ CAPairMatches'
  BY <1>8, <1>s DEF ClearSerial
<1>9. ASSUME NEW p \in Runs, WriteSerial(p) PROVE Founding' /\ CAPairMatches'
  BY <1>9, <1>s DEF WriteSerial
<1>10. ASSUME NEW p \in Runs, MakeKey(p) PROVE Founding' /\ CAPairMatches'
  BY <1>10, <1>s DEF MakeKey
<1>11. ASSUME NEW p \in Runs, ReadKey(p) PROVE Founding' /\ CAPairMatches'
  BY <1>11, <1>s DEF ReadKey
<1>12. ASSUME NEW p \in Runs, WriteCSR(p) PROVE Founding' /\ CAPairMatches'
  BY <1>12, <1>s DEF WriteCSR
<1>13. ASSUME NEW p \in Runs, ReadCSR(p) PROVE Founding' /\ CAPairMatches'
  BY <1>13, <1>s DEF ReadCSR
<1>14. ASSUME NEW p \in Runs, WriteCert(p) PROVE Founding' /\ CAPairMatches'
  BY <1>14, <1>s DEF WriteCert
<1>15. ASSUME NEW p \in Runs, RemoveCSR(p) PROVE Founding' /\ CAPairMatches'
  BY <1>15, <1>s DEF RemoveCSR
<1>16. ASSUME NEW p \in Runs, Record(p) PROVE Founding' /\ CAPairMatches'
  BY <1>16, <1>s DEF Record
<1>17. ASSUME NEW p \in Runs, FindSerial(p) PROVE Founding' /\ CAPairMatches'
  BY <1>17, <1>s DEF FindSerial
<1>18. ASSUME NEW p \in Runs, Revoke(p) PROVE Founding' /\ CAPairMatches'
  BY <1>18, <1>s DEF Revoke
<1>19. ASSUME NEW p \in Runs, Die(p) PROVE Founding' /\ CAPairMatches'
  BY <1>19, <1>s DEF Die
<1>20. CASE UNCHANGED vars
  BY <1>20 DEF vars, procVars, Founding, CAPairMatches, Alone
<1> QED
  BY <1>1, <1>2, <1>3, <1>4, <1>5, <1>6, <1>7, <1>8, <1>9, <1>10, <1>11, <1>12, <1>13,
     <1>14, <1>15, <1>16, <1>17, <1>18, <1>19, <1>20 DEF CANext

(* serial.txt stays ahead of every number that was handed out to an         *)
(* invocation that met nobody.                                             *)
LEMMA CounterPreserved ==
  CATypeOK /\ Overlaps /\ Places /\ Founding /\ Counter /\ [CANext]_vars
    => Counter'
<1> SUFFICES ASSUME CATypeOK, Overlaps, Places, Founding, Counter, [CANext]_vars
             PROVE  Counter'
  OBVIOUS
<1>0. \A r \in Runs : (Alone(r))' => Alone(r)
  BY OverlapsPreserved DEF Alone
<1>t. serialFile \in Nat /\ \A r \in Runs : serial[r] \in Nat
  BY DEF CATypeOK
<1>n. \A r \in Runs : Numbered(r) =>
        /\ name[r] # None
        /\ pc[r] \notin {"new", "founding", "loading", "selfsigning", "reading",
                         "clearing", "writing", "finding", "revoking"}
  BY CAAssumption DEF Numbered, Places, Signed, Handling, InHand, Ended
<1>s. ASSUME NEW p \in Runs, UNCHANGED <<serial, blank>>, serialFile' \in {serialFile, 0},
             \A r \in Runs \ {p} : pc'[r] = pc[r],
             pc'[p] \in {"clearing", "writing"} => pc[p] \in {"clearing", "writing"},
             \A r \in Runs : (Numbered(r))' => Numbered(r)
      PROVE Counter'
  <2> SUFFICES ASSUME ~blank, NEW r \in Runs, (Alone(r))', (Numbered(r))'
               PROVE  (Ahead(r))'
    BY <1>s DEF Counter
  <2>1. Ahead(r)
    BY <1>0, <1>s DEF Counter
  <2>2. \A q \in Runs \ {r} :
          /\ pc'[q] \in {"clearing", "writing"} => serial'[q] > serial'[r]
          /\ (Alone(q))' /\ (Numbered(q))' => serial'[q] # serial'[r]
    BY <1>0, <1>s, <2>1 DEF Ahead
  <2>3. serialFile' = 0 \/ serialFile' > serial'[r]
    BY <1>s, <2>1 DEF Ahead
  <2> QED
    BY <2>2, <2>3 DEF Ahead
<1>b. ASSUME NEW p \in Runs, NEW place \in {"founding", "reading", "finding"}, Begin(p, place)
      PROVE Counter'
  <2>1. /\ pc' = [pc EXCEPT ![p] = place]
        /\ UNCHANGED <<serial, serialFile, certKey, blank>>
    BY <1>b, Beginning DEF UnderWay
  <2> QED
    BY <2>1, <1>s DEF Numbered, InHand, Signed, CATypeOK
<1> USE DEF CATypeOK, UnderWay, Ended, InHand, Goto, Step, Hold, LetGo, argVars, caVars,
        shoreVars
<1>1. ASSUME NEW p \in Runs, StartInit(p) PROVE Counter'
  BY <1>1, <1>b DEF StartInit
<1>2. ASSUME NEW p \in Runs, MakeCAKey(p) PROVE Counter'
  <2>1. \A r \in Runs : (Numbered(r))' => Numbered(r)
    BY <1>2 DEF MakeCAKey, Numbered, Signed
  <2> QED
    BY <1>2, <2>1, <1>s DEF MakeCAKey
<1>3. ASSUME NEW p \in Runs, ReadCAKey(p) PROVE Counter'
  <2>1. \A r \in Runs : (Numbered(r))' => Numbered(r)
    BY <1>3 DEF ReadCAKey, Numbered, Signed
  <2> QED
    BY <1>3, <2>1, <1>s DEF ReadCAKey
<1>4. ASSUME NEW p \in Runs, WriteCACert(p) PROVE Counter'
  <2> SUFFICES ASSUME ~blank, NEW r \in Runs, (Alone(r))', (Numbered(r))'
               PROVE  (Ahead(r))'
    BY <1>4 DEF Counter, WriteCACert
  <2>1. Alone(r) /\ Numbered(r)
    BY <1>4, <1>0 DEF WriteCACert, Numbered, Signed
  <2>2. name[p] = None
    BY <1>4 DEF WriteCACert, Places
  <2>3. {r, p} \in met
    BY <1>4, <1>n, <2>1, <2>2 DEF WriteCACert, Founding
  <2> QED
    BY <2>1, <2>3 DEF Alone
<1>5. ASSUME NEW p \in Runs, NEW f \in Files, StartIssue(p, f) PROVE Counter'
  BY <1>5, <1>b DEF StartIssue
<1>6. ASSUME NEW p \in Runs, NEW n \in Names, StartRevoke(p, n) PROVE Counter'
  BY <1>6, <1>b DEF StartRevoke
<1>7. ASSUME NEW p \in Runs, ReadSerial(p) PROVE Counter'
  <2> SUFFICES ASSUME ~blank', NEW r \in Runs, (Alone(r))', (Numbered(r))'
               PROVE  (Ahead(r))'
    BY DEF Counter
  <2>1. /\ pc' = [pc EXCEPT ![p] = "clearing"] /\ pc[p] = "reading"
        /\ serial' = [serial EXCEPT ![p] = serialFile]
        /\ UNCHANGED <<serialFile, certKey>>
    BY <1>7 DEF ReadSerial
  <2>2. ~blank /\ serialFile # 0
    BY <1>7 DEF ReadSerial
  <2>3. \A q \in Runs : (Numbered(q))' => Numbered(q) /\ q # p
    BY <2>1, <1>n DEF Numbered, Signed
  <2>4. r # p /\ Ahead(r) /\ serialFile > serial[r]
    BY <1>0, <2>2, <2>3 DEF Counter, Ahead
  <2>5. \A q \in Runs \ {r} :
          /\ pc'[q] \in {"clearing", "writing"} => serial'[q] > serial'[r]
          /\ (Alone(q))' /\ (Numbered(q))' => serial'[q] # serial'[r]
    BY <1>0, <2>1, <2>3, <2>4 DEF Ahead
  <2> QED
    BY <2>1, <2>4, <2>5 DEF Ahead
<1>8. ASSUME NEW p \in Runs, ClearSerial(p) PROVE Counter'
  <2>1. \A r \in Runs : (Numbered(r))' => Numbered(r)
    BY <1>8 DEF ClearSerial, Numbered, Signed
  <2> QED
    BY <1>8, <2>1, <1>s DEF ClearSerial
<1>9. ASSUME NEW p \in Runs, WriteSerial(p) PROVE Counter'
  <2> SUFFICES ASSUME ~blank, NEW r \in Runs, (Alone(r))', (Numbered(r))'
               PROVE  (Ahead(r))'
    BY <1>9 DEF Counter, WriteSerial
  <2>1. /\ pc[p] = "writing" /\ pc'[p] \notin {"clearing", "writing"}
        /\ \A q \in Runs \ {p} : pc'[q] = pc[q]
        /\ serialFile' = serial[p] + 1 /\ UNCHANGED <<serial, certKey>>
    BY <1>9 DEF WriteSerial
  <2>2. \A q \in Runs \ {p} : (Numbered(q))' => Numbered(q)
    BY <2>1 DEF Numbered, Signed
  <2>3. \A q \in Runs \ {p} : (Alone(q))' /\ (Numbered(q))' => Ahead(q) /\ serial[p] > serial[q]
    BY <1>0, <2>1, <2>2 DEF Counter, Ahead
  <2>4. CASE r = p
    <3>1. \A q \in Runs \ {p} : pc[q] \notin {"clearing", "writing"}
      BY <1>0, <2>1, <2>4 DEF Overlaps, Alone
    <3>2. \A q \in Runs \ {p} : (Alone(q))' /\ (Numbered(q))' => serial'[q] # serial'[p]
      BY <1>t, <2>1, <2>3
    <3> QED
      BY <1>t, <2>1, <2>4, <3>1, <3>2 DEF Ahead
  <2>5. CASE r # p
    <3>1. Ahead(r) /\ serial[p] > serial[r]
      BY <2>3, <2>5
    <3>2. serialFile' > serial'[r]
      BY <1>t, <2>1, <3>1
    <3>3. \A q \in Runs \ {r} :
            /\ pc'[q] \in {"clearing", "writing"} => serial'[q] > serial'[r]
            /\ (Alone(q))' /\ (Numbered(q))' => serial'[q] # serial'[r]
      BY <1>0, <1>t, <2>1, <2>2, <3>1 DEF Ahead
    <3> QED
      BY <3>2, <3>3 DEF Ahead
  <2> QED
    BY <2>4, <2>5
<1>10. ASSUME NEW p \in Runs, MakeKey(p) PROVE Counter'
  <2>1. \A r \in Runs : (Numbered(r))' => Numbered(r)
    BY <1>10 DEF MakeKey, Numbered, Signed
  <2> QED
    BY <1>10, <2>1, <1>s DEF MakeKey
<1>11. ASSUME NEW p \in Runs, ReadKey(p) PROVE Counter'
  <2>1. \A r \in Runs : (Numbered(r))' => Numbered(r)
    BY <1>11 DEF ReadKey, Numbered, Signed
  <2> QED
    BY <1>11, <2>1, <1>s DEF ReadKey
<1>12. ASSUME NEW p \in Runs, WriteCSR(p) PROVE Counter'
  <2>1. \A r \in Runs : (Numbered(r))' => Numbered(r)
    BY <1>12 DEF WriteCSR, Numbered, Signed
  <2> QED
    BY <1>12, <2>1, <1>s DEF WriteCSR
<1>13. ASSUME NEW p \in Runs, ReadCSR(p) PROVE Counter'
  <2>1. \A r \in Runs : (Numbered(r))' => Numbered(r)
    BY <1>13 DEF ReadCSR, Numbered, Signed
  <2> QED
    BY <1>13, <2>1, <1>s DEF ReadCSR
<1>14. ASSUME NEW p \in Runs, WriteCert(p) PROVE Counter'
  <2>1. \A r \in Runs : (Numbered(r))' => Numbered(r)
    BY <1>14 DEF WriteCert, Numbered, Signed
  <2> QED
    BY <1>14, <2>1, <1>s DEF WriteCert
<1>15. ASSUME NEW p \in Runs, RemoveCSR(p) PROVE Counter'
  <2>1. \A r \in Runs : (Numbered(r))' => Numbered(r)
    BY <1>15 DEF RemoveCSR, Numbered, Signed
  <2> QED
    BY <1>15, <2>1, <1>s DEF RemoveCSR
<1>16. ASSUME NEW p \in Runs, Record(p) PROVE Counter'
  <2>1. \A r \in Runs : (Numbered(r))' => Numbered(r)
    BY <1>16 DEF Record, Numbered, Signed
  <2> QED
    BY <1>16, <2>1, <1>s DEF Record
<1>17. ASSUME NEW p \in Runs, FindSerial(p) PROVE Counter'
  <2> SUFFICES ASSUME ~blank, NEW r \in Runs, (Alone(r))', (Numbered(r))'
               PROVE  (Ahead(r))'
    BY <1>17 DEF Counter, FindSerial
  <2>1. /\ pc' = [pc EXCEPT ![p] = "revoking"] /\ pc[p] = "finding"
        /\ \A q \in Runs \ {p} : serial'[q] = serial[q]
        /\ UNCHANGED <<serialFile, certKey>>
    BY <1>17 DEF FindSerial
  <2>2. \A q \in Runs : (Numbered(q))' => Numbered(q) /\ q # p
    BY <2>1, <1>n DEF Numbered, Signed
  <2>3. r # p /\ Ahead(r)
    BY <1>0, <2>2 DEF Counter
  <2>4. \A q \in Runs \ {r} :
          /\ pc'[q] \in {"clearing", "writing"} => serial'[q] > serial'[r]
          /\ (Alone(q))' /\ (Numbered(q))' => serial'[q] # serial'[r]
    BY <1>0, <2>1, <2>2, <2>3 DEF Ahead
  <2> QED
    BY <2>1, <2>3, <2>4 DEF Ahead
<1>18. ASSUME NEW p \in Runs, Revoke(p) PROVE Counter'
  <2>1. \A r \in Runs : (Numbered(r))' => Numbered(r)
    BY <1>18 DEF Revoke, Numbered, Signed
  <2> QED
    BY <1>18, <2>1, <1>s DEF Revoke
<1>19. ASSUME NEW p \in Runs, Die(p) PROVE Counter'
  <2>1. \A r \in Runs : (Numbered(r))' => Numbered(r)
    BY <1>19 DEF Die, Numbered, Signed
  <2> QED
    BY <1>19, <2>1, <1>s DEF Die
<1>20. CASE UNCHANGED vars
  BY <1>20 DEF vars, procVars, shoreVars, Counter, Ahead, Alone, Numbered, Signed
<1> QED
  BY <1>1, <1>2, <1>3, <1>4, <1>5, <1>6, <1>7, <1>8, <1>9, <1>10, <1>11, <1>12, <1>13,
     <1>14, <1>15, <1>16, <1>17, <1>18, <1>19, <1>20 DEF CANext

(* The files of an invocation are given for good, and being undisturbed is *)
(* lost for good.                                                          *)
LEMMA UndisturbedBefore ==
  ASSUME CATypeOK, Overlaps, Places, [CANext]_vars, NEW r \in Runs
  PROVE  /\ file[r] \in Files => file'[r] = file[r]
         /\ file[r] \in Files /\ (Undisturbed(r))' => Undisturbed(r)
<1>1. \A q \in Runs : file'[q] = file[q] \/ file[q] = None
  <2>1. \/ UNCHANGED file
        \/ \E p \in Runs : pc[p] = "new" /\ \E f \in Files : file' = [file EXCEPT ![p] = f]
    <3>1. ASSUME NEW p \in Runs, NEW f \in Files, StartIssue(p, f)
          PROVE  pc[p] = "new" /\ file' = [file EXCEPT ![p] = f]
      BY <3>1 DEF StartIssue, Begin
    <3>2. ASSUME NEW p \in Runs,
                 \/ StartInit(p) \/ MakeCAKey(p) \/ ReadCAKey(p) \/ WriteCACert(p)
                 \/ ReadSerial(p) \/ ClearSerial(p) \/ WriteSerial(p)
                 \/ MakeKey(p) \/ ReadKey(p) \/ WriteCSR(p) \/ ReadCSR(p) \/ WriteCert(p)
                 \/ RemoveCSR(p) \/ Record(p) \/ \E n \in Names : StartRevoke(p, n)
                 \/ FindSerial(p) \/ Revoke(p) \/ Die(p)
          PROVE  UNCHANGED file
      BY <3>2 DEF StartInit, MakeCAKey, ReadCAKey, WriteCACert, ReadSerial, ClearSerial,
                  WriteSerial, MakeKey, ReadKey, WriteCSR, ReadCSR, WriteCert, RemoveCSR,
                  Record, StartRevoke, FindSerial, Revoke, Die, Step, argVars
    <3>3. CASE UNCHANGED vars
      BY <3>3 DEF vars, procVars, argVars
    <3> QED
      BY <3>1, <3>2, <3>3 DEF CANext
  <2>2. CASE UNCHANGED file
    BY <2>2
  <2>3. ASSUME NEW p \in Runs, pc[p] = "new",
               \E f \in Files : file' = [file EXCEPT ![p] = f]
        PROVE  \A q \in Runs : file'[q] = file[q] \/ file[q] = None
    BY <2>3 DEF Places, CATypeOK
  <2> QED
    BY <2>1, <2>2, <2>3
<1>2. None \notin Files
  BY CAAssumption
<1>3. met \subseteq met'
  BY OverlapsPreserved
<1> QED
  BY <1>1, <1>2, <1>3 DEF Undisturbed

(* Whose key and whose certificate lie in a Shore's files, and who may     *)
(* still touch them.                                                       *)
LEMMA KeysPreserved ==
  CATypeOK /\ Overlaps /\ Places /\ Certs /\ Keyed /\ Rivals /\ [CANext]_vars
    => Certs' /\ Keyed' /\ Rivals'
<1> SUFFICES ASSUME CATypeOK, Overlaps, Places, Certs, Keyed, Rivals, [CANext]_vars
             PROVE  Certs' /\ Keyed' /\ Rivals'
  OBVIOUS
<1>0. met \subseteq met' /\ \A r \in Runs : file[r] \in Files => file'[r] = file[r]
  BY OverlapsPreserved, UndisturbedBefore
<1>t. /\ None \notin Files /\ None \notin Runs
      /\ \A f \in Files : keyFile[f] \in Runs \union {None} /\ certFile[f] \in Runs \union {None}
  BY CAAssumption DEF CATypeOK
<1> DEFINE Past == {"recording"} \union Handling \union Ended
<1>c. ASSUME NEW p \in Runs, UNCHANGED <<keyFile, certFile>>,
             \A r \in Runs : Signed(r) => (Signed(r))'
      PROVE  Certs'
  BY <1>0, <1>c, <1>t DEF Certs
<1>k. ASSUME NEW p \in Runs, UNCHANGED keyFile, \A r \in Runs \ {p} : pc'[r] = pc[r],
             pc[p] \in Past => pc'[p] \in Past
      PROVE  Keyed'
  BY <1>0, <1>k, <1>t DEF Keyed
<1>r. ASSUME NEW p \in Runs, UNCHANGED keyFile, \A r \in Runs \ {p} : pc'[r] = pc[r],
             pc'[p] \in Handling => pc[p] \in Handling
      PROVE  Rivals'
  <2> SUFFICES ASSUME NEW f \in Files, NEW q \in Runs, keyFile[f] # None, q # keyFile[f],
                      file'[q] = f, pc'[q] \in Handling
               PROVE  {keyFile[f], q} \in met'
    BY <1>r DEF Rivals
  <2>1. pc[q] \in Handling
    BY <1>r
  <2>2. file[q] = f
    BY <1>0, <2>1 DEF Places
  <2> QED
    BY <1>0, <2>1, <2>2 DEF Rivals
<1>s. ASSUME NEW p \in Runs, UNCHANGED <<keyFile, certFile, certKey>>,
             \A r \in Runs \ {p} : pc'[r] = pc[r],
             pc[p] \in Past => pc'[p] \in Past, pc'[p] \in Handling => pc[p] \in Handling
      PROVE  Certs' /\ Keyed' /\ Rivals'
  BY <1>s, <1>c, <1>k, <1>r DEF Signed
<1>b. ASSUME NEW p \in Runs, NEW place \in {"founding", "reading", "finding"}, Begin(p, place)
      PROVE  Certs' /\ Keyed' /\ Rivals'
  <2>1. /\ pc' = [pc EXCEPT ![p] = place] /\ pc[p] = "new"
        /\ UNCHANGED <<keyFile, certFile, certKey>>
    BY <1>b, Beginning DEF UnderWay
  <2> QED
    BY <2>1, <1>s DEF Handling, InHand, Ended, CATypeOK
<1> USE DEF CATypeOK, UnderWay, Ended, Handling, InHand, Goto, Step, caVars, shoreVars
<1>1. ASSUME NEW p \in Runs, StartInit(p) PROVE Certs' /\ Keyed' /\ Rivals'
  BY <1>1, <1>b DEF StartInit
<1>2. ASSUME NEW p \in Runs, MakeCAKey(p) PROVE Certs' /\ Keyed' /\ Rivals'
  BY <1>2, <1>s DEF MakeCAKey
<1>3. ASSUME NEW p \in Runs, ReadCAKey(p) PROVE Certs' /\ Keyed' /\ Rivals'
  BY <1>3, <1>s DEF ReadCAKey
<1>4. ASSUME NEW p \in Runs, WriteCACert(p) PROVE Certs' /\ Keyed' /\ Rivals'
  BY <1>4, <1>s DEF WriteCACert
<1>5. ASSUME NEW p \in Runs, NEW f \in Files, StartIssue(p, f) PROVE Certs' /\ Keyed' /\ Rivals'
  BY <1>5, <1>b DEF StartIssue
<1>6. ASSUME NEW p \in Runs, NEW n \in Names, StartRevoke(p, n)
      PROVE  Certs' /\ Keyed' /\ Rivals'
  BY <1>6, <1>b DEF StartRevoke
<1>7. ASSUME NEW p \in Runs, ReadSerial(p) PROVE Certs' /\ Keyed' /\ Rivals'
  BY <1>7, <1>s DEF ReadSerial
<1>8. ASSUME NEW p \in Runs, ClearSerial(p) PROVE Certs' /\ Keyed' /\ Rivals'
  BY <1>8, <1>s DEF ClearSerial
<1>9. ASSUME NEW p \in Runs, WriteSerial(p) PROVE Certs' /\ Keyed' /\ Rivals'
  BY <1>9, <1>s DEF WriteSerial
<1>10. ASSUME NEW p \in Runs, MakeKey(p) PROVE Certs' /\ Keyed' /\ Rivals'
  <2>1. /\ \A r \in Runs \ {p} : pc'[r] = pc[r]
        /\ pc[p] = "keying" /\ pc'[p] = "opening"
        /\ keyFile' = [keyFile EXCEPT ![file[p]] = p]
        /\ UNCHANGED <<certFile, certKey>>
    BY <1>10 DEF MakeKey
  <2>2. file[p] \in Files /\ file'[p] = file[p]
    BY <1>0, <2>1 DEF Places
  <2>3. Certs'
    BY <1>0, <1>t, <2>1, <2>2 DEF Certs, Signed
  <2>4. ASSUME NEW f \in Files, keyFile'[f] # None
        PROVE  file'[keyFile'[f]] = f /\ pc'[keyFile'[f]] \in Past
    <3>1. CASE f = file[p]
      BY <2>1, <2>2, <3>1
    <3>2. CASE f # file[p]
      <4>1. keyFile'[f] = keyFile[f] /\ file[keyFile[f]] = f /\ pc[keyFile[f]] \in Past
        BY <2>1, <2>4, <3>2 DEF Keyed
      <4>2. keyFile[f] \in Runs /\ keyFile[f] # p
        BY <1>t, <2>1, <2>4, <4>1
      <4> QED
        BY <1>0, <2>1, <4>1, <4>2
    <3> QED
      BY <3>1, <3>2
  <2>5. ASSUME NEW f \in Files, NEW q \in Runs, keyFile'[f] # None, q # keyFile'[f],
               file'[q] = f, pc'[q] \in Handling
        PROVE  {keyFile'[f], q} \in met'
    <3>1. q # p
      BY <2>1, <2>2, <2>5
    <3>2. pc[q] \in Handling
      BY <2>1, <2>5, <3>1
    <3>3. file[q] = f
      BY <1>0, <2>5, <3>2 DEF Places
    <3>4. CASE f = file[p]
      <4>1. {p, q} \in met
        BY <2>1, <3>1, <3>2 DEF Overlaps
      <4> QED
        BY <1>0, <2>1, <2>2, <3>4, <4>1
    <3>5. CASE f # file[p]
      BY <1>0, <2>1, <2>5, <3>2, <3>3, <3>5 DEF Rivals
    <3> QED
      BY <3>4, <3>5
  <2> QED
    BY <2>3, <2>4, <2>5 DEF Keyed, Rivals
<1>11. ASSUME NEW p \in Runs, ReadKey(p) PROVE Certs' /\ Keyed' /\ Rivals'
  BY <1>11, <1>s DEF ReadKey
<1>12. ASSUME NEW p \in Runs, WriteCSR(p) PROVE Certs' /\ Keyed' /\ Rivals'
  BY <1>12, <1>s DEF WriteCSR
<1>13. ASSUME NEW p \in Runs, ReadCSR(p) PROVE Certs' /\ Keyed' /\ Rivals'
  BY <1>13, <1>s DEF ReadCSR
<1>14. ASSUME NEW p \in Runs, WriteCert(p) PROVE Certs' /\ Keyed' /\ Rivals'
  <2>1. /\ \A r \in Runs \ {p} : pc'[r] = pc[r] /\ certKey'[r] = certKey[r]
        /\ pc[p] = "signing" /\ pc'[p] = "tidying"
        /\ certFile' = [certFile EXCEPT ![file[p]] = p] /\ certKey'[p] = held[p]
        /\ UNCHANGED keyFile
    BY <1>14 DEF WriteCert
  <2>2. /\ file[p] \in Files /\ file'[p] = file[p]
        /\ keyFile[file[p]] # None /\ held[p] # None
    BY <1>0, <1>t, <2>1 DEF Places
  <2>3. Certs'
    BY <1>0, <1>t, <2>1, <2>2 DEF Certs, Signed
  <2> QED
    BY <2>1, <2>3, <1>k, <1>r
<1>15. ASSUME NEW p \in Runs, RemoveCSR(p) PROVE Certs' /\ Keyed' /\ Rivals'
  BY <1>15, <1>s DEF RemoveCSR
<1>16. ASSUME NEW p \in Runs, Record(p) PROVE Certs' /\ Keyed' /\ Rivals'
  BY <1>16, <1>s DEF Record
<1>17. ASSUME NEW p \in Runs, FindSerial(p) PROVE Certs' /\ Keyed' /\ Rivals'
  BY <1>17, <1>s DEF FindSerial
<1>18. ASSUME NEW p \in Runs, Revoke(p) PROVE Certs' /\ Keyed' /\ Rivals'
  BY <1>18, <1>s DEF Revoke
<1>19. ASSUME NEW p \in Runs, Die(p) PROVE Certs' /\ Keyed' /\ Rivals'
  BY <1>19, <1>s DEF Die
<1>20. CASE UNCHANGED vars
  BY <1>20 DEF vars, procVars, argVars, Certs, Keyed, Rivals, Signed
<1> QED
  BY <1>1, <1>2, <1>3, <1>4, <1>5, <1>6, <1>7, <1>8, <1>9, <1>10, <1>11, <1>12, <1>13,
     <1>14, <1>15, <1>16, <1>17, <1>18, <1>19, <1>20 DEF CANext

(* Everything that an invocation whose key is in place makes is of that    *)
(* key, until another one to the same files has met it.                    *)
LEMMA OwnPreserved ==
  CATypeOK /\ Overlaps /\ Places /\ Keyed /\ Rivals /\ Own /\ [CANext]_vars => Own'
<1> SUFFICES ASSUME CATypeOK, Overlaps, Places, Keyed, Rivals, Own, [CANext]_vars
             PROVE  Own'
  OBVIOUS
<1>0. \A r \in Runs : file[r] \in Files =>
        file'[r] = file[r] /\ ((Undisturbed(r))' => Undisturbed(r))
  BY UndisturbedBefore
<1>t. None \notin Files /\ None \notin Runs
  BY CAAssumption
<1> DEFINE
  Mine(k) ==
    file[k] \in Files /\ file'[k] = file[k] /\ keyFile[file[k]] = k /\ Undisturbed(k)
  Kept(k) ==
    /\ pc[k] \in InHand => held[k] = k
    /\ pc[k] = "checking" => csrFile[file[k]] = k
    /\ pc[k] \in {"tidying", "recording", "done"} => certFile[file[k]] = k /\ certKey[k] = k
<1>k. ASSUME UNCHANGED keyFile,
             \A k \in Runs : Mine(k) /\ Kept(k) => (Kept(k))'
      PROVE  Own'
  <2> SUFFICES ASSUME NEW k \in Runs, file'[k] \in Files, keyFile[file'[k]] = k,
                      (Undisturbed(k))'
               PROVE  (Kept(k))'
    BY <1>k DEF Own
  <2>1. file[k] = file'[k]
    BY <1>t DEF Keyed
  <2>2. Mine(k)
    BY <1>0, <2>1
  <2> QED
    BY <1>k, <2>2 DEF Own
<1>s. ASSUME NEW p \in Runs, pc[p] \notin {"recording"} \union Handling \union Ended,
             \A r \in Runs \ {p} :
               pc'[r] = pc[r] /\ held'[r] = held[r] /\ certKey'[r] = certKey[r],
             UNCHANGED <<keyFile, csrFile, certFile>>
      PROVE  Own'
  <2>1. ASSUME NEW k \in Runs, Mine(k), Kept(k) PROVE (Kept(k))'
    <3>1. k # p
      BY <1>s, <1>t, <2>1 DEF Keyed
    <3> QED
      BY <1>s, <2>1, <3>1
  <2> QED
    BY <1>k, <1>s, <2>1
<1>b. ASSUME NEW p \in Runs, NEW place \in UnderWay, Begin(p, place)
      PROVE  Own'
  <2>1. /\ pc' = [pc EXCEPT ![p] = place] /\ pc[p] = "new"
        /\ UNCHANGED <<held, keyFile, csrFile, certFile, certKey>>
    BY <1>b, Beginning
  <2> QED
    BY <2>1, <1>s DEF Handling, InHand, Ended, CATypeOK
<1>m. ASSUME NEW p \in Runs, NEW k \in Runs, Mine(k), k # p, pc[p] \in Handling
      PROVE  file[p] # file[k]
  <2> SUFFICES ASSUME file[p] = file[k] PROVE FALSE
    OBVIOUS
  <2>1. keyFile[file[k]] # None
    BY <1>m, <1>t
  <2>2. {k, p} \in met
    BY <1>m, <2>1 DEF Rivals
  <2> QED
    BY <1>m, <2>2 DEF Undisturbed
<1> USE DEF CATypeOK, UnderWay, Ended, Handling, InHand, Goto, Step, Hold, LetGo, caVars,
        shoreVars
<1>1. ASSUME NEW p \in Runs, StartInit(p) PROVE Own'
  BY <1>1, <1>b DEF StartInit
<1>2. ASSUME NEW p \in Runs, MakeCAKey(p) PROVE Own'
  BY <1>2, <1>s DEF MakeCAKey
<1>3. ASSUME NEW p \in Runs, ReadCAKey(p) PROVE Own'
  BY <1>3, <1>s DEF ReadCAKey
<1>4. ASSUME NEW p \in Runs, WriteCACert(p) PROVE Own'
  BY <1>4, <1>s DEF WriteCACert
<1>5. ASSUME NEW p \in Runs, NEW f \in Files, StartIssue(p, f) PROVE Own'
  BY <1>5, <1>b DEF StartIssue
<1>6. ASSUME NEW p \in Runs, NEW n \in Names, StartRevoke(p, n) PROVE Own'
  BY <1>6, <1>b DEF StartRevoke
<1>7. ASSUME NEW p \in Runs, ReadSerial(p) PROVE Own'
  BY <1>7, <1>s DEF ReadSerial
<1>8. ASSUME NEW p \in Runs, ClearSerial(p) PROVE Own'
  BY <1>8, <1>s DEF ClearSerial
<1>9. ASSUME NEW p \in Runs, WriteSerial(p) PROVE Own'
  BY <1>9, <1>s DEF WriteSerial
<1>10. ASSUME NEW p \in Runs, MakeKey(p) PROVE Own'
  <2>1. /\ \A r \in Runs \ {p} : pc'[r] = pc[r]
        /\ pc[p] = "keying" /\ pc'[p] = "opening"
        /\ keyFile' = [keyFile EXCEPT ![file[p]] = p]
        /\ UNCHANGED <<held, csrFile, certFile, certKey>>
    BY <1>10 DEF MakeKey
  <2>2. file[p] \in Files
    BY <2>1 DEF Places
  <2> SUFFICES ASSUME NEW k \in Runs, file'[k] \in Files, keyFile'[file'[k]] = k,
                      (Undisturbed(k))'
               PROVE  (Kept(k))'
    BY DEF Own
  <2>3. CASE k = p
    BY <2>1, <2>3
  <2>4. CASE k # p
    <3>1. keyFile[file'[k]] = k
      BY <2>1, <2>2, <2>4
    <3>2. file[k] = file'[k]
      BY <1>t, <3>1 DEF Keyed
    <3>3. Kept(k)
      BY <1>0, <3>1, <3>2 DEF Own
    <3> QED
      BY <2>1, <2>4, <3>2, <3>3
  <2> QED
    BY <2>3, <2>4
<1>11. ASSUME NEW p \in Runs, ReadKey(p) PROVE Own'
  <2>1. /\ \A r \in Runs \ {p} : pc'[r] = pc[r] /\ held'[r] = held[r]
        /\ pc'[p] = "requesting" /\ held'[p] = keyFile[file[p]]
        /\ UNCHANGED <<keyFile, csrFile, certFile, certKey>>
    BY <1>11 DEF ReadKey
  <2>2. ASSUME NEW k \in Runs, Mine(k), Kept(k) PROVE (Kept(k))'
    <3>1. CASE k = p
      BY <2>1, <2>2, <3>1
    <3>2. CASE k # p
      BY <2>1, <2>2, <3>2
    <3> QED
      BY <3>1, <3>2
  <2> QED
    BY <2>1, <2>2, <1>k
<1>12. ASSUME NEW p \in Runs, WriteCSR(p) PROVE Own'
  <2>1. /\ \A r \in Runs \ {p} : pc'[r] = pc[r] /\ held'[r] = held[r]
        /\ pc[p] = "requesting" /\ pc'[p] = "checking"
        /\ csrFile' = [csrFile EXCEPT ![file[p]] = held[p]]
        /\ UNCHANGED <<keyFile, certFile, certKey>>
    BY <1>12 DEF WriteCSR
  <2>2. ASSUME NEW k \in Runs, Mine(k), Kept(k) PROVE (Kept(k))'
    <3>1. CASE k = p
      BY <2>1, <2>2, <3>1
    <3>2. CASE k # p
      BY <2>1, <2>2, <3>2, <1>m
    <3> QED
      BY <3>1, <3>2
  <2> QED
    BY <2>1, <2>2, <1>k
<1>13. ASSUME NEW p \in Runs, ReadCSR(p) PROVE Own'
  <2>1. /\ \A r \in Runs \ {p} : pc'[r] = pc[r] /\ held'[r] = held[r]
        /\ pc[p] = "checking" /\ pc'[p] = "signing" /\ held'[p] = csrFile[file[p]]
        /\ UNCHANGED <<keyFile, csrFile, certFile, certKey>>
    BY <1>13 DEF ReadCSR
  <2>2. ASSUME NEW k \in Runs, Mine(k), Kept(k) PROVE (Kept(k))'
    <3>1. CASE k = p
      BY <2>1, <2>2, <3>1
    <3>2. CASE k # p
      BY <2>1, <2>2, <3>2
    <3> QED
      BY <3>1, <3>2
  <2> QED
    BY <2>1, <2>2, <1>k
<1>14. ASSUME NEW p \in Runs, WriteCert(p) PROVE Own'
  <2>1. /\ \A r \in Runs \ {p} :
             pc'[r] = pc[r] /\ held'[r] = held[r] /\ certKey'[r] = certKey[r]
        /\ pc[p] = "signing" /\ pc'[p] = "tidying"
        /\ certFile' = [certFile EXCEPT ![file[p]] = p] /\ certKey'[p] = held[p]
        /\ UNCHANGED <<keyFile, csrFile>>
    BY <1>14 DEF WriteCert
  <2>2. ASSUME NEW k \in Runs, Mine(k), Kept(k) PROVE (Kept(k))'
    <3>1. CASE k = p
      BY <2>1, <2>2, <3>1
    <3>2. CASE k # p
      BY <2>1, <2>2, <3>2, <1>m
    <3> QED
      BY <3>1, <3>2
  <2> QED
    BY <2>1, <2>2, <1>k
<1>15. ASSUME NEW p \in Runs, RemoveCSR(p) PROVE Own'
  <2>1. /\ \A r \in Runs \ {p} : pc'[r] = pc[r]
        /\ pc[p] = "tidying" /\ pc'[p] = "recording"
        /\ csrFile' = [csrFile EXCEPT ![file[p]] = None]
        /\ UNCHANGED <<held, keyFile, certFile, certKey>>
    BY <1>15 DEF RemoveCSR
  <2>2. ASSUME NEW k \in Runs, Mine(k), Kept(k) PROVE (Kept(k))'
    <3>1. CASE k = p
      BY <2>1, <2>2, <3>1
    <3>2. CASE k # p
      BY <2>1, <2>2, <3>2, <1>m
    <3> QED
      BY <3>1, <3>2
  <2> QED
    BY <2>1, <2>2, <1>k
<1>16. ASSUME NEW p \in Runs, Record(p) PROVE Own'
  <2>1. /\ \A r \in Runs \ {p} : pc'[r] = pc[r]
        /\ pc[p] = "recording" /\ pc'[p] = "done"
        /\ UNCHANGED <<held, keyFile, csrFile, certFile, certKey>>
    BY <1>16 DEF Record
  <2>2. ASSUME NEW k \in Runs, Mine(k), Kept(k) PROVE (Kept(k))'
    <3>1. CASE k = p
      BY <2>1, <2>2, <3>1
    <3>2. CASE k # p
      BY <2>1, <2>2, <3>2
    <3> QED
      BY <3>1, <3>2
  <2> QED
    BY <2>1, <2>2, <1>k
<1>17. ASSUME NEW p \in Runs, FindSerial(p) PROVE Own'
  BY <1>17, <1>s DEF FindSerial
<1>18. ASSUME NEW p \in Runs, Revoke(p) PROVE Own'
  BY <1>18, <1>s DEF Revoke
<1>19. ASSUME NEW p \in Runs, Die(p) PROVE Own'
  <2>1. /\ \A r \in Runs \ {p} : pc'[r] = pc[r] /\ held'[r] = held[r]
        /\ pc'[p] = "failed"
        /\ UNCHANGED <<keyFile, csrFile, certFile, certKey>>
    BY <1>19 DEF Die
  <2>2. ASSUME NEW k \in Runs, Mine(k), Kept(k) PROVE (Kept(k))'
    <3>1. CASE k = p
      BY <2>1, <2>2, <3>1
    <3>2. CASE k # p
      BY <2>1, <2>2, <3>2
    <3> QED
      BY <3>1, <3>2
  <2> QED
    BY <2>1, <2>2, <1>k
<1>20. CASE UNCHANGED vars
  <2>1. Own'
    BY <1>20 DEF vars, procVars, argVars, Own, Undisturbed
  <2> QED
    BY <2>1
<1> QED
  BY <1>1, <1>2, <1>3, <1>4, <1>5, <1>6, <1>7, <1>8, <1>9, <1>10, <1>11, <1>12, <1>13,
     <1>14, <1>15, <1>16, <1>17, <1>18, <1>19, <1>20 DEF CANext

(* The last line for a Shore is that of the certificate that lies there,   *)
(* once an invocation that met no other one to those files has signed and  *)
(* filed it; or it is about other files.                                   *)
LEMMA FilingPreserved ==
  CATypeOK /\ Overlaps /\ Places /\ Certs /\ Filing /\ Filed /\ RevokeHitsDeployed /\ [CANext]_vars
    => Filing' /\ Filed' /\ RevokeHitsDeployed'
<1> DEFINE
  Found(f, c) ==
    \E k \in DOMAIN index :
      LastLine(f.name, k) /\ (index[k].file = f => index[k].serial = serial[c])
<1> SUFFICES ASSUME CATypeOK, Overlaps, Places, Certs, Filing, Filed, RevokeHitsDeployed,
                    [CANext]_vars
             PROVE  Filing' /\ Filed' /\ RevokeHitsDeployed'
  OBVIOUS
<1>0. met \subseteq met'
  BY OverlapsPreserved
<1>u. \A r \in Runs : file[r] \in Files =>
        file'[r] = file[r] /\ ((Undisturbed(r))' => Undisturbed(r))
  BY UndisturbedBefore
<1>t. None \notin Files
  BY CAAssumption
<1>k. \A f \in Files : certFile[f] # None =>
        /\ certFile[f] \in Runs /\ file[certFile[f]] = f
        /\ pc[certFile[f]] \in {"tidying", "recording"} \union Ended
  BY DEF CATypeOK, Certs, Places
<1>f. ASSUME NEW p \in Runs, \A r \in Runs \ {p} : pc'[r] = pc[r],
             pc'[p] \in {"tidying", "recording"} => pc[p] \in {"tidying", "recording"},
             UNCHANGED certFile
      PROVE  Filing'
  <2> SUFFICES ASSUME NEW f \in Files, NEW q \in Runs, certFile[f] # None, q # certFile[f],
                      file'[q] = f, pc'[q] \in {"tidying", "recording"}
               PROVE  {certFile[f], q} \in met'
    BY <1>f DEF Filing
  <2>1. pc[q] \in {"tidying", "recording"}
    BY <1>f
  <2>2. file[q] = f
    BY <1>u, <2>1 DEF Places, Handling
  <2> QED
    BY <1>0, <2>1, <2>2 DEF Filing
<1>i. ASSUME UNCHANGED index
      PROVE  Filed'
  <2> SUFFICES ASSUME NEW k \in DOMAIN index
               PROVE  \E q \in Runs : file'[q] = index[k].file
    BY <1>i DEF Filed
  <2>1. PICK q \in Runs : file[q] = index[k].file
    BY DEF Filed
  <2>2. index[k].file \in Files
    BY SerialsOfLines
  <2> QED
    BY <1>u, <2>1, <2>2
<1>s. ASSUME NEW p \in Runs, pc'[p] # "done" \/ ~Signed(p),
             pc'[p] \in {"tidying", "recording"} => pc[p] \in {"tidying", "recording"},
             \A r \in Runs \ {p} : pc'[r] = pc[r] /\ serial'[r] = serial[r],
             UNCHANGED <<index, certFile>>
      PROVE  Filing' /\ Filed' /\ RevokeHitsDeployed'
  <2>1. Filing' /\ Filed'
    BY <1>f, <1>i, <1>s
  <2>2. ASSUME NEW f \in Files, certFile[f] # None, (Undisturbed(certFile[f]))',
               pc'[certFile[f]] = "done"
        PROVE  (Found(f, certFile[f]))'
    <3>1. certFile[f] # p
      BY <1>s, <2>2 DEF Certs
    <3>2. /\ pc[certFile[f]] = "done" /\ serial'[certFile[f]] = serial[certFile[f]]
          /\ Undisturbed(certFile[f])
      BY <1>k, <1>s, <1>u, <2>2, <3>1
    <3>3. Found(f, certFile[f])
      BY <2>2, <3>2 DEF RevokeHitsDeployed
    <3> QED
      BY <1>s, <3>2, <3>3 DEF LastLine, Lines
  <2>3. RevokeHitsDeployed'
    BY <1>s, <2>2 DEF RevokeHitsDeployed
  <2> QED
    BY <2>1, <2>3
<1>b. ASSUME NEW p \in Runs, NEW place \in {"founding", "reading", "finding"}, Begin(p, place)
      PROVE  Filing' /\ Filed' /\ RevokeHitsDeployed'
  <2>1. /\ pc' = [pc EXCEPT ![p] = place] /\ pc[p] = "new"
        /\ UNCHANGED <<serial, index, certFile>>
    BY <1>b, Beginning DEF UnderWay
  <2> QED
    BY <1>b, <1>s, <2>1 DEF CATypeOK
<1> USE DEF UnderWay, Ended, Goto, Step, Hold, LetGo, argVars, caVars, shoreVars, lists
<1>1. ASSUME NEW p \in Runs, StartInit(p) PROVE Filing' /\ Filed' /\ RevokeHitsDeployed'
  BY <1>1, <1>b DEF StartInit
<1>2. ASSUME NEW p \in Runs, MakeCAKey(p) PROVE Filing' /\ Filed' /\ RevokeHitsDeployed'
  BY <1>2, <1>s DEF MakeCAKey, CATypeOK
<1>3. ASSUME NEW p \in Runs, ReadCAKey(p) PROVE Filing' /\ Filed' /\ RevokeHitsDeployed'
  BY <1>3, <1>s DEF ReadCAKey, CATypeOK
<1>4. ASSUME NEW p \in Runs, WriteCACert(p) PROVE Filing' /\ Filed' /\ RevokeHitsDeployed'
  BY <1>4, <1>s DEF WriteCACert, CATypeOK
<1>5. ASSUME NEW p \in Runs, NEW f \in Files, StartIssue(p, f)
      PROVE  Filing' /\ Filed' /\ RevokeHitsDeployed'
  BY <1>5, <1>b DEF StartIssue
<1>6. ASSUME NEW p \in Runs, NEW n \in Names, StartRevoke(p, n)
      PROVE  Filing' /\ Filed' /\ RevokeHitsDeployed'
  BY <1>6, <1>b DEF StartRevoke
<1>7. ASSUME NEW p \in Runs, ReadSerial(p) PROVE Filing' /\ Filed' /\ RevokeHitsDeployed'
  BY <1>7, <1>s DEF ReadSerial, CATypeOK
<1>8. ASSUME NEW p \in Runs, ClearSerial(p) PROVE Filing' /\ Filed' /\ RevokeHitsDeployed'
  BY <1>8, <1>s DEF ClearSerial, CATypeOK
<1>9. ASSUME NEW p \in Runs, WriteSerial(p) PROVE Filing' /\ Filed' /\ RevokeHitsDeployed'
  <2>1. ~Signed(p)
    BY <1>9 DEF WriteSerial, Places
  <2> QED
    BY <1>9, <2>1, <1>s DEF WriteSerial, CATypeOK
<1>10. ASSUME NEW p \in Runs, MakeKey(p) PROVE Filing' /\ Filed' /\ RevokeHitsDeployed'
  BY <1>10, <1>s DEF MakeKey, CATypeOK
<1>11. ASSUME NEW p \in Runs, ReadKey(p) PROVE Filing' /\ Filed' /\ RevokeHitsDeployed'
  BY <1>11, <1>s DEF ReadKey, CATypeOK
<1>12. ASSUME NEW p \in Runs, WriteCSR(p) PROVE Filing' /\ Filed' /\ RevokeHitsDeployed'
  BY <1>12, <1>s DEF WriteCSR, CATypeOK
<1>13. ASSUME NEW p \in Runs, ReadCSR(p) PROVE Filing' /\ Filed' /\ RevokeHitsDeployed'
  BY <1>13, <1>s DEF ReadCSR, CATypeOK
<1>14. ASSUME NEW p \in Runs, WriteCert(p) PROVE Filing' /\ Filed' /\ RevokeHitsDeployed'
  <2>1. /\ \A r \in Runs \ {p} : pc'[r] = pc[r]
        /\ pc[p] = "signing" /\ pc'[p] = "tidying"
        /\ certFile' = [certFile EXCEPT ![file[p]] = p]
        /\ UNCHANGED <<file, serial, index, met>>
    BY <1>14 DEF WriteCert, CATypeOK
  <2>2. file[p] \in Files /\ certFile'[file[p]] = p
        /\ \A f \in Files : f # file[p] => certFile'[f] = certFile[f]
    BY <2>1 DEF Places, Handling, InHand, CATypeOK
  <2>3. \A q \in Runs \ {p} : pc[q] \in {"tidying", "recording"} => {p, q} \in met
    BY <2>1 DEF Overlaps
  <2>4. Filing'
    BY <2>1, <2>2, <2>3 DEF Filing
  <2>5. ASSUME NEW f \in Files, certFile'[f] # None, Undisturbed(certFile'[f]),
               pc'[certFile'[f]] = "done"
        PROVE  Found(f, certFile'[f])
    <3>1. f # file[p] /\ certFile'[f] = certFile[f]
      BY <2>1, <2>2, <2>5
    <3>2. certFile[f] # p
      BY <1>k, <2>5, <3>1
    <3>3. pc[certFile[f]] = "done"
      BY <1>k, <2>1, <2>5, <3>1, <3>2
    <3> QED
      BY <2>5, <3>1, <3>3 DEF RevokeHitsDeployed
  <2>6. RevokeHitsDeployed'
    BY <2>1, <2>5 DEF RevokeHitsDeployed, Undisturbed, LastLine, Lines
  <2> QED
    BY <1>i, <2>1, <2>4, <2>6
<1>15. ASSUME NEW p \in Runs, RemoveCSR(p) PROVE Filing' /\ Filed' /\ RevokeHitsDeployed'
  <2>1. pc[p] = "tidying" /\ pc' = [pc EXCEPT ![p] = "recording"]
        /\ UNCHANGED <<serial, index, certFile>>
    BY <1>15 DEF RemoveCSR
  <2> QED
    BY <2>1, <1>s DEF CATypeOK
<1>16. ASSUME NEW p \in Runs, Record(p) PROVE Filing' /\ Filed' /\ RevokeHitsDeployed'
  <2>1. /\ \A r \in Runs \ {p} : pc'[r] = pc[r]
        /\ pc[p] = "recording" /\ pc'[p] = "done"
        /\ index' = Append(index, [serial |-> serial[p], file |-> file[p]])
        /\ UNCHANGED <<file, serial, certFile, met>>
    BY <1>16 DEF Record, CATypeOK
  <2>2. Filing'
    BY <2>1, <1>f
  <2>3. index \in Seq([serial : Nat \ {0}, file : Files])
    BY DEF CATypeOK
  <2>4. /\ DOMAIN index = 1..Len(index) /\ Len(index) \in Nat
        /\ DOMAIN index' = 1..(Len(index) + 1)
        /\ \A k \in DOMAIN index : index'[k] = index[k]
        /\ index'[Len(index) + 1] = [serial |-> serial[p], file |-> file[p]]
    BY <2>1, <2>3, AppendedLine
  <2>5. PICK last \in DOMAIN index' : last = Len(index) + 1
    BY <2>4
  <2>6. /\ index'[last].serial = serial[p] /\ index'[last].file = file[p]
        /\ \A j \in DOMAIN index' : j # last => j \in DOMAIN index
        /\ \A j \in DOMAIN index' : j <= last
    BY <2>4, <2>5
  <2>7. Filed'
    <3> SUFFICES ASSUME NEW k \in DOMAIN index'
                 PROVE  \E q \in Runs : file[q] = index'[k].file
      BY <2>1 DEF Filed
    <3>1. CASE k = last
      BY <2>6, <3>1
    <3>2. CASE k # last
      BY <2>4, <2>6, <3>2 DEF Filed
    <3> QED
      BY <3>1, <3>2
  <2>8. ASSUME NEW f \in Files, certFile[f] # None, Undisturbed(certFile[f]),
               pc'[certFile[f]] = "done"
        PROVE  (Found(f, certFile[f]))'
    <3>1. CASE file[p].name \in {f.name} \union Alike[f.name]
      <4>1. (LastLine(f.name, last))'
        BY <2>6, <3>1 DEF LastLine, Lines
      <4>2. file[p] = f => certFile[f] = p
        BY <2>1, <2>8, <1>k DEF Filing, Undisturbed
      <4> QED
        BY <2>1, <2>6, <4>1, <4>2
    <3>2. CASE file[p].name \notin {f.name} \union Alike[f.name]
      <4>1. certFile[f] # p
        BY <2>8, <3>2, <1>k
      <4>2. Found(f, certFile[f])
        BY <2>1, <2>8, <4>1, <1>k DEF RevokeHitsDeployed
      <4>3. PICK k \in DOMAIN index :
              LastLine(f.name, k) /\ (index[k].file = f => index[k].serial = serial[certFile[f]])
        BY <4>2
      <4>4. k \in DOMAIN index' /\ index'[k] = index[k]
        BY <2>4
      <4>5. \A j \in DOMAIN index' :
              index'[j].file.name \in {f.name} \union Alike[f.name] =>
                j \in DOMAIN index /\ index'[j] = index[j]
        BY <2>4, <2>6, <3>2
      <4>6. (LastLine(f.name, k))'
        BY <4>3, <4>4, <4>5 DEF LastLine, Lines
      <4> QED
        BY <2>1, <4>3, <4>4, <4>6
    <3> QED
      BY <3>1, <3>2
  <2>9. RevokeHitsDeployed'
    BY <2>1, <2>8 DEF RevokeHitsDeployed, Undisturbed
  <2> QED
    BY <2>2, <2>7, <2>9
<1>17. ASSUME NEW p \in Runs, FindSerial(p) PROVE Filing' /\ Filed' /\ RevokeHitsDeployed'
  <2>1. ~Signed(p) /\ \A r \in Runs \ {p} : serial'[r] = serial[r]
    BY <1>17 DEF FindSerial, Places, CATypeOK
  <2> QED
    BY <1>17, <2>1, <1>s DEF FindSerial, CATypeOK
<1>18. ASSUME NEW p \in Runs, Revoke(p) PROVE Filing' /\ Filed' /\ RevokeHitsDeployed'
  <2>1. ~Signed(p)
    BY <1>18 DEF Revoke, Places
  <2> QED
    BY <1>18, <2>1, <1>s DEF Revoke, CATypeOK
<1>19. ASSUME NEW p \in Runs, Die(p) PROVE Filing' /\ Filed' /\ RevokeHitsDeployed'
  BY <1>19, <1>s DEF Die, CATypeOK
<1>20. CASE UNCHANGED vars
  BY <1>20 DEF vars, procVars, Filing, Filed, RevokeHitsDeployed, Undisturbed, LastLine,
               Lines
<1> QED
  BY <1>1, <1>2, <1>3, <1>4, <1>5, <1>6, <1>7, <1>8, <1>9, <1>10, <1>11, <1>12, <1>13,
     <1>14, <1>15, <1>16, <1>17, <1>18, <1>19, <1>20 DEF CANext

-----------------------------------------------------------------------------
LEMMA CAInvInit == CAInit => CAInv
<1> SUFFICES ASSUME CAInit PROVE CAInv
  OBVIOUS
<1>1. /\ \A p \in Runs : pc[p] = "new" /\ name[p] = None /\ file[p] = None /\ certKey[p] = None
      /\ \A f \in Files : keyFile[f] = None /\ certFile[f] = None
      /\ DOMAIN index = {}
  BY DEF CAInit
<1>2. CATypeOK
  <2>1. pc \in [Runs -> {"new"} \union UnderWay \union Ended]
    BY DEF CAInit
  <2>2. blank \in BOOLEAN
    BY DEF CAInit
  <2>3. index \in Seq([serial : Nat \ {0}, file : Files])
    BY DEF CAInit
  <2> QED
    BY <2>1, <2>2, <2>3 DEF CAInit, CATypeOK
<1>3. Overlaps
  BY <1>1 DEF Overlaps, UnderWay
<1>4. Places /\ Founding /\ Counter
  BY <1>1 DEF CAInit, Places, Handling, InHand, Founding, Counter, Numbered, Signed, UnderWay
<1>5. Certs /\ Keyed /\ Rivals /\ Own /\ Filing /\ Filed /\ RevokeHitsDeployed
  BY <1>1 DEF Certs, Keyed, Rivals, Own, InHand, Filing, Filed, RevokeHitsDeployed
<1>6. CAPairMatches
  BY DEF CAInit, CAPairMatches
<1> QED
  BY <1>2, <1>3, <1>4, <1>5, <1>6 DEF CAInv

LEMMA CAInvPreserved == CAInv /\ [CANext]_vars => CAInv'
<1> SUFFICES ASSUME CAInv, [CANext]_vars PROVE CAInv'
  OBVIOUS
<1> USE DEF CAInv
<1>1. CATypeOK'
  BY CATypePreserved
<1>2. Overlaps' /\ Places'
  BY OverlapsPreserved, PlacesPreserved
<1>3. Founding' /\ CAPairMatches'
  BY FoundingPreserved
<1>4. Counter' /\ Certs' /\ Keyed' /\ Rivals'
  BY CounterPreserved, KeysPreserved
<1>5. Own'
  BY OwnPreserved
<1>6. Filing' /\ Filed' /\ RevokeHitsDeployed'
  BY FilingPreserved
<1> QED
  BY <1>1, <1>2, <1>3, <1>4, <1>5, <1>6

(* However invocations of ca.sh interleave and wherever they die, the      *)
(* inductive invariant holds.                                              *)
THEOREM CAInvHolds == CASpec => []CAInv
  BY CAInvInit, CAInvPreserved, PTL DEF CASpec

(* The files of the CA and of the Shores keep to their types.              *)
THEOREM CAIsTyped == CASpec => []CATypeOK
<1>1. CAInv => CATypeOK
  BY DEF CAInv
<1> QED
  BY <1>1, CAInvHolds, PTL

(* next_serial hands a serial out twice only to issues one of which ran    *)
(* beside another invocation, or after serial.txt was read while empty.    *)
THEOREM DuplicatesHaveCauses == CASpec => []DuplicateHasCause
<1>1. CAInv => DuplicateHasCause
  <2> SUFFICES ASSUME CAInv, NEW p \in Runs, NEW q \in Runs, p # q, Signed(p), Signed(q),
                      Alone(p), Alone(q), ~blank
               PROVE  serial[p] # serial[q]
    BY DEF DuplicateHasCause
  <2>1. Ahead(p)
    BY DEF CAInv, Counter, Numbered
  <2> QED
    BY <2>1 DEF Ahead, Numbered
<1> QED
  BY <1>1, CAInvHolds, PTL

(* cmd_issue leaves a key and a certificate that belong together, once the *)
(* last to generate a key for those files has ended well, if no other      *)
(* issue to the same directory overlapped it.                              *)
THEOREM PairsMatch == CASpec => []PairMatches
<1>1. CAInv => PairMatches
  <2> SUFFICES ASSUME CAInv, NEW f \in Files, certFile[f] # None,
                      pc[keyFile[f]] = "done", Undisturbed(keyFile[f])
               PROVE  certKey[certFile[f]] = keyFile[f]
    BY DEF PairMatches
  <2>1. keyFile[f] # None /\ keyFile[f] \in Runs
    BY DEF CAInv, Certs, CATypeOK
  <2>2. file[keyFile[f]] = f
    BY <2>1 DEF CAInv, Keyed
  <2> QED
    BY <2>1, <2>2 DEF CAInv, Own
<1> QED
  BY <1>1, CAInvHolds, PTL

(* cmd_revoke finds the serial of the certificate that lies in a directory *)
(* or the line of other files, once the issue of that certificate has      *)
(* ended well and no other one to that directory overlapped it.            *)
THEOREM RevokesHit == CASpec => []RevokeHitsDeployed
<1>1. CAInv => RevokeHitsDeployed
  BY DEF CAInv
<1> QED
  BY <1>1, CAInvHolds, PTL

(* Only two runs of cmd_init at once leave a CA whose key and certificate  *)
(* do not belong together.                                                 *)
THEOREM CAPairsMatch == CASpec => []CAPairMatches
<1>1. CAInv => CAPairMatches
  BY DEF CAInv
<1> QED
  BY <1>1, CAInvHolds, PTL
-----------------------------------------------------------------------------
(* What the script does for one operator who waits.  If no invocation      *)
(* begins while another is under way, and none ends between emptying       *)
(* serial.txt and writing it, nobody has met anybody and the file is empty *)
(* only in the hands of the one that is about to write it.                 *)

WaitsForTheLast == \A p \in Runs : pc[p] = "new" /\ pc'[p] # "new" => Running = {}
WritesWhatItCleared == \A p \in Runs : pc[p] = "writing" => pc'[p] # "failed"

Solo ==
  /\ met = {} /\ ~blank
  /\ serialFile = 0 => \E p \in Runs : pc[p] = "writing"

LEMMA SoloPreserved ==
  ASSUME CAInv, Solo, [CANext]_vars, WaitsForTheLast, WritesWhatItCleared
  PROVE  Solo'
<1>t. CATypeOK /\ Overlaps
  BY DEF CAInv
<1>o. \A p, q \in Runs : p # q /\ pc[p] \in UnderWay => pc[q] \notin UnderWay
  BY <1>t DEF Solo, Overlaps
<1>b. ASSUME NEW p \in Runs, NEW place \in UnderWay, Begin(p, place) PROVE Solo'
  <2>1. /\ pc[p] = "new" /\ pc' = [pc EXCEPT ![p] = place]
        /\ UNCHANGED <<serialFile, blank>>
    BY <1>b, <1>t, Beginning
  <2>2. pc'[p] # "new"
    BY <2>1, <1>t DEF CATypeOK, UnderWay
  <2>3. Running = {}
    BY <2>1, <2>2 DEF WaitsForTheLast
  <2>4. met' = met
    BY <1>b, <2>3 DEF Begin
  <2>5. \A q \in Runs : pc[q] # "writing"
    BY <2>3 DEF Running, UnderWay
  <2> QED
    BY <2>1, <2>4, <2>5 DEF Solo
<1>s. ASSUME NEW p \in Runs, NEW to, pc' = [pc EXCEPT ![p] = to],
             pc[p] # "writing" \/ serialFile' # 0,
             UNCHANGED <<met, blank>>, serialFile' # 0 \/ UNCHANGED serialFile
      PROVE  Solo'
  BY <1>s, <1>t DEF Solo, CATypeOK
<1> USE DEF UnderWay, Goto, Step, Hold, LetGo, lists
<1>1. ASSUME NEW p \in Runs, StartInit(p) PROVE Solo'
  BY <1>1, <1>b DEF StartInit
<1>2. ASSUME NEW p \in Runs, MakeCAKey(p) PROVE Solo'
  BY <1>2, <1>s DEF MakeCAKey
<1>3. ASSUME NEW p \in Runs, ReadCAKey(p) PROVE Solo'
  BY <1>3, <1>s DEF ReadCAKey
<1>4. ASSUME NEW p \in Runs, WriteCACert(p) PROVE Solo'
  BY <1>4, <1>s DEF WriteCACert
<1>5. ASSUME NEW p \in Runs, NEW f \in Files, StartIssue(p, f) PROVE Solo'
  BY <1>5, <1>b DEF StartIssue
<1>6. ASSUME NEW p \in Runs, NEW n \in Names, StartRevoke(p, n) PROVE Solo'
  BY <1>6, <1>b DEF StartRevoke
<1>7. ASSUME NEW p \in Runs, ReadSerial(p) PROVE Solo'
  <2>1. serialFile # 0
    BY <1>7, <1>o DEF ReadSerial, Solo
  <2>2. ~blank'
    BY <1>7, <2>1 DEF ReadSerial, Solo
  <2> QED
    BY <1>7, <2>1, <2>2 DEF ReadSerial, Solo
<1>8. ASSUME NEW p \in Runs, ClearSerial(p) PROVE Solo'
  BY <1>8, <1>t DEF ClearSerial, Solo, CATypeOK
<1>9. ASSUME NEW p \in Runs, WriteSerial(p) PROVE Solo'
  <2>1. serialFile' # 0
    BY <1>9, <1>t DEF WriteSerial, CATypeOK
  <2> QED
    BY <1>9, <2>1 DEF WriteSerial, Solo
<1>10. ASSUME NEW p \in Runs, MakeKey(p) PROVE Solo'
  BY <1>10, <1>s DEF MakeKey
<1>11. ASSUME NEW p \in Runs, ReadKey(p) PROVE Solo'
  BY <1>11, <1>s DEF ReadKey
<1>12. ASSUME NEW p \in Runs, WriteCSR(p) PROVE Solo'
  BY <1>12, <1>s DEF WriteCSR
<1>13. ASSUME NEW p \in Runs, ReadCSR(p) PROVE Solo'
  BY <1>13, <1>s DEF ReadCSR
<1>14. ASSUME NEW p \in Runs, WriteCert(p) PROVE Solo'
  BY <1>14, <1>s DEF WriteCert
<1>15. ASSUME NEW p \in Runs, RemoveCSR(p) PROVE Solo'
  BY <1>15, <1>s DEF RemoveCSR
<1>16. ASSUME NEW p \in Runs, Record(p) PROVE Solo'
  BY <1>16, <1>s DEF Record
<1>17. ASSUME NEW p \in Runs, FindSerial(p) PROVE Solo'
  BY <1>17, <1>s DEF FindSerial
<1>18. ASSUME NEW p \in Runs, Revoke(p) PROVE Solo'
  BY <1>18, <1>s DEF Revoke
<1>19. ASSUME NEW p \in Runs, Die(p) PROVE Solo'
  <2>1. pc' = [pc EXCEPT ![p] = "failed"] /\ UNCHANGED <<serialFile, met, blank>>
    BY <1>19 DEF Die
  <2>2. pc'[p] = "failed"
    BY <2>1, <1>t DEF CATypeOK
  <2>3. pc[p] # "writing"
    BY <2>2 DEF WritesWhatItCleared
  <2> QED
    BY <2>1, <2>3, <1>s
<1>20. CASE UNCHANGED vars
  BY <1>20 DEF vars, procVars, Solo
<1> QED
  BY <1>1, <1>2, <1>3, <1>4, <1>5, <1>6, <1>7, <1>8, <1>9, <1>10, <1>11, <1>12, <1>13,
     <1>14, <1>15, <1>16, <1>17, <1>18, <1>19, <1>20 DEF CANext

(* What an operator takes from ca.sh: each certificate has a serial of its *)
(* own, the CA's key and certificate belong together, so do those of a     *)
(* Shore, and "revoke" names the certificate that lies there, once its     *)
(* issue has got to the end.                                               *)
SerialsAreUnique ==
  \A p, q \in Runs : p # q /\ Signed(p) /\ Signed(q) => serial[p] # serial[q]

CAIsAPair == caCert # None => caKey = caCert

PairsMatchAtLast ==
  \A f \in Files :
    certFile[f] # None /\ pc[keyFile[f]] = "done" => certKey[certFile[f]] = keyFile[f]

RevokeHits ==
  \A f \in Files :
    certFile[f] # None /\ pc[certFile[f]] = "done" =>
      \E k \in DOMAIN index : LastLine(f.name, k) /\ index[k].serial = serial[certFile[f]]

(* The last of these asks for more than patience: that a name is always    *)
(* issued to the same directory, and matches no other name as an           *)
(* expression.  "issue" with another --out leaves the certificate before   *)
(* it where no "revoke" by name finds it.                                  *)
OneDirectoryPerName ==
  \A p, q \in Runs :
    /\ file[p] # None /\ file[q] # None
    /\ file[q].name \in {file[p].name} \union Alike[file[p].name]
    => file[q] = file[p]

(* One operator who waits for each invocation of ca.sh to end, whichever   *)
(* way but that one, gets the first three (next_serial, cmd_init,          *)
(* cmd_issue); one who keeps to a directory per name, too, gets the fourth *)
(* (cmd_revoke).                                                           *)
THEOREM OneOperatorIsSafe ==
  CASpec /\ [][WaitsForTheLast /\ WritesWhatItCleared]_vars
    => [](/\ SerialsAreUnique /\ CAIsAPair /\ PairsMatchAtLast
          /\ OneDirectoryPerName => RevokeHits)
<1>1. CAInit => Solo
  BY DEF CAInit, Solo
<1>2. CAInv /\ Solo /\ [CANext]_vars /\ [WaitsForTheLast /\ WritesWhatItCleared]_vars => Solo'
  <2>1. CASE UNCHANGED vars
    BY <2>1 DEF vars, procVars, Solo
  <2> QED
    BY <2>1, SoloPreserved
<1>3. CAInv /\ Solo => /\ SerialsAreUnique /\ CAIsAPair /\ PairsMatchAtLast
                       /\ OneDirectoryPerName => RevokeHits
  <2> SUFFICES ASSUME CAInv, Solo
               PROVE  /\ SerialsAreUnique /\ CAIsAPair /\ PairsMatchAtLast
                      /\ OneDirectoryPerName => RevokeHits
    OBVIOUS
  <2>1. \A p \in Runs : Alone(p) /\ Undisturbed(p)
    BY DEF Solo, Alone, Undisturbed
  <2>2. SerialsAreUnique
    BY <2>1 DEF CAInv, Solo, Counter, Numbered, Ahead, SerialsAreUnique
  <2>3. CAIsAPair
    BY <2>1 DEF CAInv, CAPairMatches, CAIsAPair
  <2>4. PairsMatchAtLast
    <3> SUFFICES ASSUME NEW f \in Files, certFile[f] # None, pc[keyFile[f]] = "done"
                 PROVE  certKey[certFile[f]] = keyFile[f]
      BY DEF PairsMatchAtLast
    <3>1. keyFile[f] # None /\ keyFile[f] \in Runs
      BY DEF CAInv, Certs, CATypeOK
    <3>2. file[keyFile[f]] = f
      BY <3>1 DEF CAInv, Keyed
    <3> QED
      BY <2>1, <3>1, <3>2 DEF CAInv, Own
  <2>5. ASSUME OneDirectoryPerName, NEW f \in Files, certFile[f] # None,
               pc[certFile[f]] = "done"
        PROVE  \E k \in DOMAIN index :
                 LastLine(f.name, k) /\ index[k].serial = serial[certFile[f]]
    <3>1. certFile[f] \in Runs /\ file[certFile[f]] = f
      BY <2>5 DEF CAInv, CATypeOK, Certs
    <3>2. PICK k \in DOMAIN index :
            LastLine(f.name, k) /\ (index[k].file = f => index[k].serial = serial[certFile[f]])
      BY <2>1, <2>5, <3>1 DEF CAInv, RevokeHitsDeployed
    <3>3. index[k].file.name \in {f.name} \union Alike[f.name]
      BY <3>2 DEF LastLine, Lines
    <3>4. PICK q \in Runs : file[q] = index[k].file
      BY DEF CAInv, Filed
    <3>5. file[q] # None /\ f # None
      BY <3>4, SerialsOfLines, CAAssumption DEF CAInv
    <3>6. file[q] = f
      BY <2>5, <3>1, <3>3, <3>4, <3>5 DEF OneDirectoryPerName
    <3> QED
      BY <3>2, <3>4, <3>6
  <2> QED
    BY <2>2, <2>3, <2>4, <2>5 DEF RevokeHits
<1> QED
  BY <1>1, <1>2, <1>3, CAInvHolds, PTL DEF CASpec
=============================================================================
