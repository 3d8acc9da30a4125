---------------------------- MODULE UploadProofs ----------------------------
(***************************************************************************)
(* Proofs about Upload for every body, cut into chunks and sequence of     *)
(* failures: types, that no temporary file is ever lost (UploadInv), what  *)
(* the limit on a body does (LimitInv), and that its parts reach the       *)
(* handler (PartsInv).                                                     *)
(*                                                                         *)
(* The limit cannot be followed at the end of a request only: LimitInv     *)
(* says at every step what has been counted of what has arrived, and that  *)
(* what is on disk comes from events already dealt with, which is what     *)
(* keeps it within the limit after the count itself has passed it.         *)
(*                                                                         *)
(* Nor can the parts: PartsInv says after every event which parts have     *)
(* been delivered, and what the field under assembly holds of the one that *)
(* began last.  g, in Filed and Formed, names the event at which the part  *)
(* behind each upload and each entry begins; that g is one to one and in   *)
(* order gives the counts and places papago_req_files and the form are     *)
(* compared by.                                                            *)
(***************************************************************************)
EXTENDS Upload, SequenceTheorems, FiniteSetTheorems, WellFoundedInduction, TLAPS

UploadInv == TypeOK /\ FieldShape /\ TempFilesOwned

-----------------------------------------------------------------------------
(* The operators the actions are built from                                *)

\* Writing a piece into the value buffer gives a buffer.
LEMMA WrittenType ==
    ASSUME NEW buf \in Seq(Token), NEW at \in Nat, NEW data \in Seq(Token)
    PROVE  Written(buf, at, data) \in Seq(Token)
BY DEF Written, Token, Nul, Junk

\* A prefix of a sequence, of whatever length, is a sequence.
LEMMA CStringType ==
    ASSUME NEW buf \in Seq(Token)
    PROVE  CString(buf) \in Seq(Token)
<1> DEFINE S == {i \in 1 .. Len(buf) : \A j \in 1 .. i : buf[j] # Nul}
<1>1. Cardinality(S) \in Nat /\ Cardinality(S) <= Len(buf)
  <2>1. IsFiniteSet(1 .. Len(buf)) /\ Cardinality(1 .. Len(buf)) = Len(buf)
    <3>1. Len(buf) \in Nat
      OBVIOUS
    <3> HIDE DEF S
    <3> QED BY <3>1, FS_Interval
  <2>2. S \subseteq 1 .. Len(buf)
    OBVIOUS
  <2> QED BY <2>1, <2>2, FS_Subset, FS_CardinalityType
<1>2. PICK n \in 0 .. Len(buf) : n = Cardinality(S)
  <2> HIDE DEF S
  <2>1. Len(buf) \in Nat
    OBVIOUS
  <2> QED BY <1>1, <2>1
<1>3. CString(buf) = SubSeq(buf, 1, n)
  BY <1>2 DEF CString
<1> QED BY <1>3

\* The bytes of an event are a token.
LEMMA ByteType ==
    ASSUME NEW e \in Event
    PROVE  Byte(e) \in Token
<1>1. e.part \in Nat /\ e.off \in Nat
  BY DEF Event
<1> QED BY <1>1 DEF Byte, Token

\* An event carries at most one byte.
LEMMA PieceLength ==
    ASSUME NEW e \in Event
    PROVE  Len(e.data) \in 0 .. 1
<1>1. PICK x \in Piece : x = e.data
  BY DEF Event
<1>2. Len(x) \in Nat /\ Len(x) <= 1
  BY DEF Piece
<1>3. \A n \in Nat : n <= 1 => n \in 0 .. 1
  OBVIOUS
<1> QED BY <1>1, <1>2, <1>3

\* A file put in front of the list of uploads.
LEMMA PrependFile ==
    ASSUME NEW f \in File, files \in Seq(File)
    PROVE  /\ <<f>> \o files \in Seq(File)
           /\ Len(<<f>> \o files) = Len(files) + 1
           /\ (<<f>> \o files)[1] = f
           /\ \A i \in 1 .. Len(files) : (<<f>> \o files)[i + 1] = files[i]
BY DEF File

-----------------------------------------------------------------------------
(* UploadInv is inductive                                                  *)

\* The invariant holds before the first request.
LEMMA InitUpload == Init => UploadInv
<1> SUFFICES ASSUME Init PROVE UploadInv
  OBVIOUS
<1>1. TypeOK
  <2>1. /\ <<>> \in Seq(Event) /\ <<>> \in Seq(Token) /\ <<>> \in Seq(File)
        /\ <<>> \in Seq((Keys \cup {Empty}) \X Seq(Token))
    OBVIOUS
  <2>2. /\ events \in Seq(Event) /\ Len(events) = 0
        /\ body \in Seq(Token) /\ value \in Seq(Token) /\ files \in Seq(File)
        /\ form \in Seq((Keys \cup {Empty}) \X Seq(Token))
        /\ contents \in [TmpNames -> Seq(Token)]
    BY <2>1 DEF Init
  <2>3. /\ body_too_large \in BOOLEAN /\ is_multipart \in BOOLEAN
        /\ post_processor \in BOOLEAN /\ multipart_field \in BOOLEAN
        /\ is_file \in BOOLEAN
    BY DEF Init
  <2>4. /\ pc = "idle" /\ ctype \in ContentTypes
        /\ sent \in 0 .. Len(events) /\ pending \in 0 .. sent
        /\ body_length \in Nat /\ key \in Keys \cup {Empty} /\ value_len \in Nat
        /\ tmp_path \in TmpNames \cup {None} /\ tmp_files \in SUBSET TmpNames
        /\ faults \in 0 .. MaxFaults
    BY ConstantsAssumption, <2>2 DEF Init, ContentTypes
  <2> QED BY <2>2, <2>3, <2>4 DEF TypeOK
<1>2. FieldShape
  BY DEF Init, FieldShape, Parsing
<1>3. TempFilesOwned
  BY DEF Init, TempFilesOwned, Spooled
<1> QED BY <1>1, <1>2, <1>3 DEF UploadInv

\* The event at hand is one of the request's.
LEMMA CurrentEventType ==
    ASSUME TypeOK, pending > 0
    PROVE  CurrentEvent \in Event
BY DEF TypeOK, CurrentEvent

\* The counters of TypeOK as inequalities.
LEMMA Counters ==
    ASSUME TypeOK
    PROVE  /\ Len(events) \in Nat /\ sent \in Nat /\ pending \in Nat
           /\ sent <= Len(events) /\ pending <= sent
           /\ faults \in Nat /\ faults <= MaxFaults /\ MaxFaults \in Nat
BY ConstantsAssumption DEF TypeOK

\* No upload lacks its file's name.
LEMMA SpooledNamed ==
    ASSUME TypeOK
    PROVE  None \notin Spooled
<1>1. \A i \in 1 .. Len(files) : files[i] \in File
  BY DEF TypeOK
<1>2. \A f \in File : f.path # None
  BY ConstantsAssumption DEF File
<1> QED BY <1>1, <1>2 DEF Spooled

\* Every step keeps the types, the shape of the field and the ownership of
\* temporary files.
LEMMA NextUpload == UploadInv /\ [Next]_vars => UploadInv'
<1> SUFFICES ASSUME TypeOK, FieldShape, TempFilesOwned, [Next]_vars
             PROVE  TypeOK' /\ FieldShape' /\ TempFilesOwned'
  BY DEF UploadInv
<1> USE DEF reqVars, arrival, bodyVars, procVars, resultVars, fieldVars,
            diskVars
<1>1. ASSUME NEW r \in Requests, Begin(r)
      PROVE  TypeOK' /\ FieldShape' /\ TempFilesOwned'
  <2> USE <1>1 DEF Begin
  <2>1. TypeOK'
    <3>1. r.ctype \in ContentTypes /\ r.events \in Seq(Event)
      BY ConstantsAssumption
    <3>2. sent = 0 /\ pending = 0 /\ Len(r.events) \in Nat
      BY <3>1 DEF FieldShape
    <3> QED BY <3>1, <3>2 DEF TypeOK
  <2>2. FieldShape'
    BY DEF TypeOK, FieldShape, Parsing, CurrentEvent
  <2>3. TempFilesOwned'
    BY DEF TypeOK, FieldShape, TempFilesOwned, Spooled
  <2> QED BY <2>1, <2>2, <2>3
<1>2. ASSUME NEW r \in Requests, BeginNoMemory(r)
      PROVE  TypeOK' /\ FieldShape' /\ TempFilesOwned'
  <2> USE <1>2 DEF BeginNoMemory, Fails
  <2>1. TypeOK'
    <3>1. r.ctype \in ContentTypes /\ r.events \in Seq(Event)
      BY ConstantsAssumption
    <3>2. sent = 0 /\ pending = 0 /\ Len(r.events) \in Nat
      BY <3>1 DEF FieldShape
    <3> QED BY <3>1, <3>2, Counters DEF TypeOK
  <2>2. FieldShape'
    BY DEF TypeOK, FieldShape, Parsing, CurrentEvent
  <2>3. TempFilesOwned'
    BY DEF TypeOK, FieldShape, TempFilesOwned, Spooled
  <2> QED BY <2>1, <2>2, <2>3
<1>3. ASSUME NEW k \in 1 .. Len(events), ChunkParsed(k)
      PROVE  TypeOK' /\ FieldShape' /\ TempFilesOwned'
  <2> USE <1>3 DEF ChunkParsed, Arrives
  <2>1. TypeOK'
    BY ConstantsAssumption DEF TypeOK
  <2>2. FieldShape'
    BY DEF TypeOK, FieldShape, Parsing, CurrentEvent
  <2>3. TempFilesOwned'
    BY DEF TypeOK, FieldShape, TempFilesOwned, Spooled
  <2> QED BY <2>1, <2>2, <2>3
<1>4. ASSUME NEW k \in 1 .. Len(events), ChunkTooLarge(k)
      PROVE  TypeOK' /\ FieldShape' /\ TempFilesOwned'
  <2> USE <1>4 DEF ChunkTooLarge, Arrives
  <2>1. TypeOK'
    BY ConstantsAssumption DEF TypeOK
  <2>2. FieldShape'
    BY DEF TypeOK, FieldShape, Parsing, CurrentEvent
  <2>3. TempFilesOwned'
    BY DEF TypeOK, FieldShape, TempFilesOwned, Spooled
  <2> QED BY <2>1, <2>2, <2>3
<1>5. ASSUME NEW k \in 1 .. Len(events), RawTooLarge(k)
      PROVE  TypeOK' /\ FieldShape' /\ TempFilesOwned'
  <2> USE <1>5 DEF RawTooLarge, Arrives
  <2>1. TypeOK'
    BY ConstantsAssumption DEF TypeOK
  <2>2. FieldShape'
    BY DEF TypeOK, FieldShape, Parsing, CurrentEvent
  <2>3. TempFilesOwned'
    BY DEF TypeOK, FieldShape, TempFilesOwned, Spooled
  <2> QED BY <2>1, <2>2, <2>3
<1>6. ASSUME NEW k \in 1 .. Len(events), RawAppend(k)
      PROVE  TypeOK' /\ FieldShape' /\ TempFilesOwned'
  <2> USE <1>6 DEF RawAppend, Arrives, Byte
  <2>1. TypeOK'
    <3>1. \A i \in 1 .. Len(events) : Byte(events[i]) \in Token
      <4>1. \A i \in 1 .. Len(events) : events[i] \in Event
        BY DEF TypeOK
      <4> QED BY <4>1, ByteType
    <3>2. sent \in Nat /\ body_length \in Nat /\ sent + k <= Len(events)
      BY Counters DEF TypeOK
    <3>3. \A i \in 1 .. (body_length + k) :
             i > body_length => sent + i - body_length \in 1 .. Len(events)
      BY <3>2
    <3>4. \A i \in 1 .. Len(body) : body[i] \in Token
      BY DEF TypeOK
    <3>5. body' \in Seq(Token)
      <4> DEFINE tok(i) == IF i > body_length
                           THEN Byte(events[sent + i - body_length])
                           ELSE IF i <= Len(body) THEN body[i] ELSE Junk
      <4>1. Junk \in Token /\ Len(body) \in Nat
        BY DEF Junk, Token, TypeOK
      <4>2. \A i \in 1 .. (body_length + k) : tok(i) \in Token
        <5> HIDE DEF RawAppend, Token, Byte, Junk
        <5> QED BY <3>1, <3>2, <3>3, <3>4, <4>1
      <4>3. body' = [i \in 1 .. (body_length + k) |-> tok(i)]
        OBVIOUS
      <4>4. body_length + k \in Nat
        BY <3>2
      <4> HIDE <1>6 DEF tok, RawAppend
      <4> QED BY <4>2, <4>3, <4>4
    <3>6. sent' \in 0 .. Len(events) /\ pending' \in 0 .. sent'
          /\ body_length' \in Nat
      BY <3>2, Counters
    <3>7. UNCHANGED <<pc, ctype, events, pending, body_too_large, is_multipart,
                      post_processor, multipart_field, form, files, key,
                      is_file, value, value_len, tmp_path, tmp_files, contents,
                      faults>>
      OBVIOUS
    <3> HIDE <1>6
    <3> QED BY <3>5, <3>6, <3>7 DEF TypeOK
  <2>2. FieldShape'
    BY DEF TypeOK, FieldShape, Parsing, CurrentEvent
  <2>3. TempFilesOwned'
    BY DEF TypeOK, FieldShape, TempFilesOwned, Spooled
  <2> QED BY <2>1, <2>2, <2>3
<1>7. ASSUME NEW k \in 1 .. Len(events), RawNoMemory(k)
      PROVE  TypeOK' /\ FieldShape' /\ TempFilesOwned'
  <2> USE <1>7 DEF RawNoMemory, Arrives, Fails
  <2>1. TypeOK'
    BY ConstantsAssumption DEF TypeOK
  <2>2. FieldShape'
    BY DEF TypeOK, FieldShape, Parsing, CurrentEvent
  <2>3. TempFilesOwned'
    BY DEF TypeOK, FieldShape, TempFilesOwned, Spooled
  <2> QED BY <2>1, <2>2, <2>3
<1>8. CASE IterateSkip
  <2> USE <1>8 DEF IterateSkip, EventDone
  <2>1. TypeOK'
    BY Counters DEF TypeOK, FieldShape
  <2>2. FieldShape'
    BY DEF TypeOK, FieldShape, Parsing, CurrentEvent
  <2>3. TempFilesOwned'
    <3>1. Spooled' = Spooled /\ pc' # "idle"
      BY DEF Spooled
    <3> QED BY <3>1 DEF TempFilesOwned
  <2> QED BY <2>1, <2>2, <2>3
<1>9. CASE Iterate
  <2> USE <1>9 DEF Iterate
  <2>1. TypeOK'
    BY ConstantsAssumption DEF TypeOK
  <2>2. FieldShape'
    BY DEF TypeOK, FieldShape, Parsing, CurrentEvent
  <2>3. TempFilesOwned'
    BY DEF TypeOK, FieldShape, TempFilesOwned, Spooled
  <2> QED BY <2>1, <2>2, <2>3
<1>10. CASE OpenText
  <2> USE <1>10 DEF OpenText
  <2>1. TypeOK'
    <3>1. CurrentEvent \in Event
      BY CurrentEventType DEF FieldShape
    <3>2. CurrentEvent.key \in Keys \cup {Empty}
      BY <3>1 DEF Event, FieldShape
    <3> QED BY <3>2 DEF TypeOK
  <2>2. FieldShape'
    BY DEF TypeOK, FieldShape, Parsing, CurrentEvent
  <2>3. TempFilesOwned'
    BY DEF TypeOK, FieldShape, TempFilesOwned, Spooled
  <2> QED BY <2>1, <2>2, <2>3
<1>11. ASSUME NEW n \in TmpNames, OpenFile(n)
      PROVE  TypeOK' /\ FieldShape' /\ TempFilesOwned'
  <2> USE <1>11 DEF OpenFile
  <2>1. TypeOK'
    <3>1. CurrentEvent \in Event
      BY CurrentEventType DEF FieldShape
    <3>2. CurrentEvent.key \in Keys \cup {Empty}
      BY <3>1 DEF Event, FieldShape
    <3> QED BY <3>2 DEF TypeOK
  <2>2. FieldShape'
    BY ConstantsAssumption DEF TypeOK, FieldShape, Parsing, CurrentEvent
  <2>3. TempFilesOwned'
    <3>1. Spooled' = Spooled
      BY DEF Spooled
    <3>2. n # None /\ tmp_path = None
      BY ConstantsAssumption DEF FieldShape
    <3> QED BY <3>1, <3>2 DEF TempFilesOwned
  <2> QED BY <2>1, <2>2, <2>3
<1>12. CASE OpenFileFailed
  <2> USE <1>12 DEF OpenFileFailed, Fails, EventFailed
  <2>1. TypeOK'
    <3>1. CurrentEvent \in Event
      BY CurrentEventType DEF FieldShape
    <3>2. CurrentEvent.key \in Keys \cup {Empty}
      BY <3>1 DEF Event, FieldShape
    <3> QED BY <3>2, Counters DEF TypeOK
  <2>2. FieldShape'
    BY DEF TypeOK, FieldShape, Parsing, CurrentEvent
  <2>3. TempFilesOwned'
    BY DEF TypeOK, FieldShape, TempFilesOwned, Spooled
  <2> QED BY <2>1, <2>2, <2>3
<1>13. CASE AppendText
  <2> USE <1>13 DEF AppendText, EventDone
  <2>1. TypeOK'
    <3>1. CurrentEvent \in Event
      BY CurrentEventType DEF FieldShape
    <3>2. CurrentEvent.data \in Seq(Token) /\ Len(CurrentEvent.data) \in Nat
      BY <3>1 DEF Event, Piece
    <3>3. value \in Seq(Token) /\ value_len \in Nat
      BY DEF TypeOK
    <3>4. value' \in Seq(Token) /\ value_len' \in Nat
      BY <3>2, <3>3, WrittenType
    <3> QED BY <3>4, Counters DEF TypeOK, FieldShape
  <2>2. FieldShape'
    BY DEF TypeOK, FieldShape, Parsing, CurrentEvent
  <2>3. TempFilesOwned'
    BY DEF TypeOK, FieldShape, TempFilesOwned, Spooled
  <2> QED BY <2>1, <2>2, <2>3
<1>14. CASE AppendFile
  <2> USE <1>14 DEF AppendFile, EventDone
  <2>1. TypeOK'
    <3>1. CurrentEvent \in Event
      BY CurrentEventType DEF FieldShape
    <3>2. CurrentEvent.data \in Seq(Token) /\ Len(CurrentEvent.data) \in Nat
      BY <3>1 DEF Event, Piece
    <3>3. contents' \in [TmpNames -> Seq(Token)]
      <4>1. contents[tmp_path] \in Seq(Token)
        BY DEF TypeOK, FieldShape
      <4>2. contents[tmp_path] \o CurrentEvent.data \in Seq(Token)
        BY <3>2, <4>1
      <4> QED BY <4>2 DEF TypeOK
    <3>4. value_len' \in Nat
      BY <3>2 DEF TypeOK
    <3> QED BY <3>3, <3>4, Counters DEF TypeOK, FieldShape
  <2>2. FieldShape'
    BY DEF TypeOK, FieldShape, Parsing, CurrentEvent
  <2>3. TempFilesOwned'
    BY DEF TypeOK, FieldShape, TempFilesOwned, Spooled
  <2> QED BY <2>1, <2>2, <2>3
<1>15. CASE AppendFailed \/ Malformed
  <2>0. /\ pc \in {"append", "parse"} /\ pc' = "abort" /\ body_too_large' = TRUE
        /\ faults < MaxFaults /\ faults' = faults + 1
        /\ UNCHANGED <<reqVars, arrival, bodyVars, procVars, resultVars,
                       fieldVars, diskVars>>
    BY <1>15 DEF AppendFailed, Malformed, Fails, EventFailed
  <2>1. TypeOK'
    BY <2>0, ConstantsAssumption DEF TypeOK
  <2>2. FieldShape'
    BY <2>0 DEF TypeOK, FieldShape, Parsing, CurrentEvent
  <2>3. TempFilesOwned'
    BY <2>0 DEF TypeOK, FieldShape, TempFilesOwned, Spooled
  <2> QED BY <2>1, <2>2, <2>3
<1>16. CASE SettleNothing
  <2> USE <1>16 DEF SettleNothing,
             SettleReturns, Committing, Discarding, NoField
  <2>1. TypeOK'
    BY ConstantsAssumption DEF TypeOK
  <2>2. FieldShape'
    BY DEF TypeOK, FieldShape, Parsing, CurrentEvent
  <2>3. TempFilesOwned'
    BY DEF TypeOK, FieldShape, TempFilesOwned, Spooled
  <2> QED BY <2>1, <2>2, <2>3
<1>17. CASE SettleFile
  <2> USE <1>17 DEF SettleFile, FileCleared,
             SettleReturns, Committing, Discarding, NoField
  <2> DEFINE f == [key |-> key, path |-> tmp_path, size |-> value_len]
  <2>0. /\ f \in File /\ f.path = tmp_path
        /\ files' \in Seq(File) /\ Len(files') = Len(files) + 1
        /\ files'[1] = f
        /\ \A i \in 1 .. Len(files) : files'[i + 1] = files[i]
    <3>1. f \in File
      BY DEF TypeOK, FieldShape, File
    <3>2. files \in Seq(File)
      BY DEF TypeOK
    <3> QED BY <3>1, <3>2, PrependFile
  <2>1. TypeOK'
    BY <2>0 DEF TypeOK
  <2>2. FieldShape'
    BY DEF TypeOK, FieldShape, Parsing, CurrentEvent
  <2>3. TempFilesOwned'
    <3>1. Len(files) \in Nat
      BY DEF TypeOK
    <3>2. Spooled' = Spooled \cup {tmp_path}
      <4> HIDE DEF f
      <4> QED BY <2>0, <3>1 DEF Spooled
    <3>3. \A i, j \in 1 .. Len(files') :
             files'[i].path = files'[j].path => i = j
      <4>1. ASSUME NEW i \in 1 .. Len(files'), NEW j \in 1 .. Len(files'),
                   files'[i].path = files'[j].path
            PROVE  i = j
        <5> HIDE DEF f
        <5>1. \A m \in 2 .. Len(files') :
                 m - 1 \in 1 .. Len(files) /\ files'[m] = files[m - 1]
          BY <2>0, <3>1
        <5>2. \A m \in 2 .. Len(files') : files'[m].path # tmp_path
          BY <5>1 DEF TempFilesOwned, Spooled
        <5>3. files'[1].path = tmp_path
          BY <2>0
        <5>4. /\ i = 1 \/ i \in 2 .. Len(files')
              /\ j = 1 \/ j \in 2 .. Len(files')
          BY <2>0, <3>1, <4>1
        <5>5. CASE i \in 2 .. Len(files') /\ j \in 2 .. Len(files')
          <6>1. /\ i - 1 \in 1 .. Len(files) /\ j - 1 \in 1 .. Len(files)
                /\ files[i - 1].path = files[j - 1].path
            BY <4>1, <5>1, <5>5
          <6>2. i - 1 = j - 1
            BY <6>1 DEF TempFilesOwned
          <6> QED BY ONLY <6>2, <5>5
        <5>6. CASE i = 1 \/ j = 1
          BY <4>1, <5>2, <5>3, <5>4, <5>6
        <5> QED BY <5>4, <5>5, <5>6
      <4> QED BY <4>1
    <3>4. None \notin Spooled /\ tmp_path # None
      BY SpooledNamed DEF FieldShape
    <3>5. tmp_path' = None /\ tmp_files' = tmp_files /\ pc' # "idle"
      OBVIOUS
    <3> HIDE <1>17
    <3> QED BY <3>2, <3>3, <3>4, <3>5 DEF TempFilesOwned
  <2> QED BY <2>1, <2>2, <2>3
<1>18. CASE SettleFileNoMemory
  <2> USE <1>18 DEF SettleFileNoMemory, Fails, Unlink, FileCleared,
             SettleReturns, Committing, Discarding, NoField
  <2>1. TypeOK'
    <3>1. contents' \in [TmpNames -> Seq(Token)]
      BY DEF TypeOK
    <3>2. faults' \in 0 .. MaxFaults /\ tmp_files' \subseteq TmpNames
      BY Counters DEF TypeOK
    <3> QED BY <3>1, <3>2 DEF TypeOK
  <2>2. FieldShape'
    BY DEF TypeOK, FieldShape, Parsing, CurrentEvent
  <2>3. TempFilesOwned'
    <3>1. Spooled' = Spooled
      BY DEF Spooled
    <3>2. tmp_path' = None /\ tmp_files' = tmp_files \ {tmp_path}
          /\ pc' # "idle" /\ files' = files
      OBVIOUS
    <3> HIDE <1>18
    <3> QED BY <3>1, <3>2, SpooledNamed DEF TempFilesOwned
  <2> QED BY <2>1, <2>2, <2>3
<1>19. CASE DiscardFile
  <2> USE <1>19 DEF DiscardFile, Unlink, FileCleared,
             SettleReturns, Committing, Discarding, NoField
  <2>1. TypeOK'
    <3>1. contents' \in [TmpNames -> Seq(Token)]
      BY DEF TypeOK
    <3>2. faults' \in 0 .. MaxFaults /\ tmp_files' \subseteq TmpNames
      BY Counters DEF TypeOK
    <3> QED BY <3>1, <3>2 DEF TypeOK
  <2>2. FieldShape'
    BY DEF TypeOK, FieldShape, Parsing, CurrentEvent
  <2>3. TempFilesOwned'
    <3>1. Spooled' = Spooled
      BY DEF Spooled
    <3>2. tmp_path' = None /\ tmp_files' = tmp_files \ {tmp_path}
          /\ pc' # "idle" /\ files' = files
      OBVIOUS
    <3> HIDE <1>19
    <3> QED BY <3>1, <3>2, SpooledNamed DEF TempFilesOwned
  <2> QED BY <2>1, <2>2, <2>3
<1>20. CASE SettleText
  <2> USE <1>20 DEF SettleText, TextCleared,
             SettleReturns, Committing, Discarding, NoField
  <2>1. TypeOK'
    <3>1. key \in Keys \cup {Empty} /\ CString(value) \in Seq(Token)
      BY CStringType DEF TypeOK
    <3>2. form' \in Seq((Keys \cup {Empty}) \X Seq(Token))
      BY <3>1 DEF TypeOK
    <3> QED BY <3>2 DEF TypeOK
  <2>2. FieldShape'
    BY DEF TypeOK, FieldShape, Parsing, CurrentEvent
  <2>3. TempFilesOwned'
    BY DEF TypeOK, FieldShape, TempFilesOwned, Spooled
  <2> QED BY <2>1, <2>2, <2>3
<1>21. CASE SettleTextNoMemory
  <2> USE <1>21 DEF SettleTextNoMemory, TextCleared, Fails,
             SettleReturns, Committing, Discarding, NoField
  <2>1. TypeOK'
    BY ConstantsAssumption DEF TypeOK
  <2>2. FieldShape'
    BY DEF TypeOK, FieldShape, Parsing, CurrentEvent
  <2>3. TempFilesOwned'
    BY DEF TypeOK, FieldShape, TempFilesOwned, Spooled
  <2> QED BY <2>1, <2>2, <2>3
<1>22. CASE DiscardText
  <2> USE <1>22 DEF DiscardText, TextCleared,
             SettleReturns, Committing, Discarding, NoField
  <2>1. TypeOK'
    BY ConstantsAssumption DEF TypeOK
  <2>2. FieldShape'
    BY DEF TypeOK, FieldShape, Parsing, CurrentEvent
  <2>3. TempFilesOwned'
    BY DEF TypeOK, FieldShape, TempFilesOwned, Spooled
  <2> QED BY <2>1, <2>2, <2>3
<1>23. CASE Drop
  <2> USE <1>23 DEF Drop
  <2>1. TypeOK'
    <3>1. pending' \in 0 .. sent'
      BY Counters
    <3> QED BY <3>1 DEF TypeOK
  <2>2. FieldShape'
    BY DEF TypeOK, FieldShape, Parsing, CurrentEvent
  <2>3. TempFilesOwned'
    BY DEF TypeOK, FieldShape, TempFilesOwned, Spooled
  <2> QED BY <2>1, <2>2, <2>3
<1>24. CASE Finish
  <2> USE <1>24 DEF Finish
  <2>1. TypeOK'
    BY ConstantsAssumption DEF TypeOK
  <2>2. FieldShape'
    BY DEF TypeOK, FieldShape, Parsing, CurrentEvent
  <2>3. TempFilesOwned'
    BY DEF TypeOK, FieldShape, TempFilesOwned, Spooled
  <2> QED BY <2>1, <2>2, <2>3
<1>25. CASE FinishForm
  <2> USE <1>25 DEF FinishForm, FormPairs
  <2>1. TypeOK'
    <3>1. form' \in Seq((Keys \cup {Empty}) \X Seq(Token))
      <4>1. \A i \in 1 .. Len(body) : <<body[i]>> \in Seq(Token)
        BY DEF TypeOK
      <4>2. FormPairs(body) \in Seq((Keys \cup {Empty}) \X Seq(Token))
        <5>1. Len(body) \in Nat
          BY DEF TypeOK
        <5>2. \A i \in 1 .. Len(body) :
                 <<Empty, <<body[i]>>>> \in (Keys \cup {Empty}) \X Seq(Token)
          BY <4>1
        <5> QED BY <5>1, <5>2
      <4> HIDE DEF FormPairs
      <4> QED BY <4>2 DEF TypeOK
    <3>2. <<>> \in Seq(Token)
      OBVIOUS
    <3>3. value' \in Seq(Token) /\ value_len' = 0 /\ tmp_path' = None
          /\ key' = Empty /\ is_file' = FALSE /\ pc' = "ready"
          /\ post_processor' = FALSE /\ multipart_field' = FALSE
      BY <3>2
    <3>4. UNCHANGED <<ctype, events, sent, pending, body, body_length,
                      body_too_large, is_multipart, files, tmp_files, contents,
                      faults>>
      OBVIOUS
    <3> HIDE <1>25
    <3> QED BY <3>1, <3>3, <3>4 DEF TypeOK
  <2>2. FieldShape'
    BY DEF TypeOK, FieldShape, Parsing, CurrentEvent
  <2>3. TempFilesOwned'
    BY DEF TypeOK, FieldShape, TempFilesOwned, Spooled
  <2> QED BY <2>1, <2>2, <2>3
<1>26. CASE RequestCompleted
  <2> USE <1>26 DEF RequestCompleted
  <2>1. TypeOK'
    BY ConstantsAssumption DEF TypeOK
  <2>2. FieldShape'
    BY DEF TypeOK, FieldShape, Parsing, CurrentEvent
  <2>3. TempFilesOwned'
    BY DEF TypeOK, FieldShape, TempFilesOwned, Spooled
  <2> QED BY <2>1, <2>2, <2>3
<1>27. CASE Free
  <2> USE <1>27 DEF Free, Unlink
  <2>1. TypeOK'
    <3>1. /\ <<>> \in Seq(Event) /\ <<>> \in Seq(Token) /\ <<>> \in Seq(File)
          /\ <<>> \in Seq((Keys \cup {Empty}) \X Seq(Token))
      OBVIOUS
    <3>2. contents' \in [TmpNames -> Seq(Token)] /\ tmp_files' \subseteq TmpNames
      BY <3>1 DEF TypeOK
    <3>3. /\ events' \in Seq(Event) /\ Len(events') = 0
          /\ body' \in Seq(Token) /\ value' \in Seq(Token)
          /\ files' \in Seq(File)
          /\ form' \in Seq((Keys \cup {Empty}) \X Seq(Token))
      BY <3>1
    <3>4. /\ body_too_large' \in BOOLEAN /\ is_multipart' \in BOOLEAN
          /\ post_processor' \in BOOLEAN /\ multipart_field' \in BOOLEAN
          /\ is_file' \in BOOLEAN
      OBVIOUS
    <3>5. /\ pc' = "idle" /\ ctype' \in ContentTypes
          /\ sent' \in 0 .. Len(events') /\ pending' \in 0 .. sent'
          /\ body_length' \in Nat /\ key' \in Keys \cup {Empty}
          /\ value_len' \in Nat /\ tmp_path' \in TmpNames \cup {None}
          /\ faults' \in 0 .. MaxFaults
      BY <3>3 DEF TypeOK, ContentTypes
    <3> HIDE <1>27
    <3> QED BY <3>2, <3>3, <3>4, <3>5 DEF TypeOK
  <2>2. FieldShape'
    BY DEF TypeOK, FieldShape, Parsing, CurrentEvent
  <2>3. TempFilesOwned'
    BY DEF TypeOK, FieldShape, TempFilesOwned, Spooled
  <2> QED BY <2>1, <2>2, <2>3
<1>28. CASE UNCHANGED vars
  BY <1>28 DEF vars, TypeOK, FieldShape, TempFilesOwned, Spooled, Parsing,
             CurrentEvent
<1> QED
  BY <1>1, <1>2, <1>3, <1>4, <1>5, <1>6, <1>7, <1>8, <1>9, <1>10, <1>11, <1>12,
     <1>13, <1>14, <1>15, <1>16, <1>17, <1>18, <1>19, <1>20, <1>21, <1>22,
     <1>23, <1>24, <1>25, <1>26, <1>27, <1>28
  DEF Next, ChunkArrives, Settle

\* No temporary file is ever lost: for every body, limit and sequence of
\* failures, and wherever the client goes away, the files mkstemp created are
\* those the request owns, and none is left when request_completed returns.
THEOREM NoTempFileLost == Spec => []TempFilesOwned
<1>1. UploadInv => TempFilesOwned
  BY DEF UploadInv
<1> QED BY <1>1, InitUpload, NextUpload, PTL DEF Spec

\* The types of the request, the field and the file system.
THEOREM UploadTypes == Spec => []TypeOK
<1>1. UploadInv => TypeOK
  BY DEF UploadInv
<1> QED BY <1>1, InitUpload, NextUpload, PTL DEF Spec

-----------------------------------------------------------------------------
(* The total size of a list of uploads                                     *)

\* A set of numbers with 0 and all successors has every number.
LEMMA NatSetInduction ==
    ASSUME NEW S, 0 \in S, \A n \in Nat : n \in S => n + 1 \in S
    PROVE  Nat \subseteq S
<1> DEFINE R == OpToRel(<, Nat)
           T == Nat \ S
<1> SUFFICES ASSUME T # {} PROVE FALSE
  OBVIOUS
<1>1. \A x, y \in Nat : <<y, x>> \in R <=> y < x
  BY DEF OpToRel
<1>2. PICK x \in T : \A y \in T : <<y, x>> \notin R
  <2>1. IsWellFoundedOn(R, Nat)
    BY NatLessThanWellFounded, Zenon
  <2>2. T \subseteq Nat /\ T # {}
    OBVIOUS
  <2> HIDE DEF R, T
  <2> QED BY <2>1, <2>2, WFMin
<1> HIDE DEF R
<1>3. x \in Nat /\ x # 0
  OBVIOUS
<1>4. x - 1 \in Nat /\ x - 1 < x /\ (x - 1) + 1 = x
  BY <1>3
<1>5. x - 1 \in S
  BY <1>1, <1>2, <1>3, <1>4
<1> QED BY <1>4, <1>5

\* f holds the total sizes of the last 0, 1, ... uploads of fs.
Sums(fs, f) ==
    f = [i \in 0 .. Len(fs) |->
            IF i = 0 THEN 0 ELSE f[i - 1] + fs[Len(fs) + 1 - i].size]

\* Such an f has natural values, and there is no other.
LEMMA SumsUnique ==
    ASSUME NEW fs \in Seq(File), NEW f, NEW g, Sums(fs, f), Sums(fs, g)
    PROVE  f = g /\ \A i \in 0 .. Len(fs) : f[i] \in Nat
<1>n. Len(fs) \in Nat /\ \A i \in 1 .. Len(fs) : fs[i].size \in Nat
  <2>1. \A i \in 1 .. Len(fs) : fs[i] \in File
    OBVIOUS
  <2> QED BY <2>1 DEF File
<1>f. /\ \A i \in 0 .. Len(fs) :
             f[i] = IF i = 0 THEN 0 ELSE f[i - 1] + fs[Len(fs) + 1 - i].size
      /\ \A i \in 0 .. Len(fs) :
             g[i] = IF i = 0 THEN 0 ELSE g[i - 1] + fs[Len(fs) + 1 - i].size
  BY DEF Sums
<1> DEFINE S == {n \in Nat : n <= Len(fs) => f[n] = g[n] /\ f[n] \in Nat}
<1>1. 0 \in S
  BY <1>n, <1>f
<1>2. ASSUME NEW n \in Nat, n \in S PROVE n + 1 \in S
  <2> SUFFICES ASSUME n + 1 <= Len(fs)
               PROVE  f[n + 1] = g[n + 1] /\ f[n + 1] \in Nat
    OBVIOUS
  <2>1. /\ n + 1 \in 0 .. Len(fs) /\ n + 1 # 0 /\ (n + 1) - 1 = n /\ n <= Len(fs)
        /\ Len(fs) + 1 - (n + 1) \in 1 .. Len(fs)
    BY <1>n
  <2>2. fs[Len(fs) + 1 - (n + 1)].size \in Nat
    BY <1>n, <2>1
  <2>3. /\ f[n + 1] = f[n] + fs[Len(fs) + 1 - (n + 1)].size
        /\ g[n + 1] = g[n] + fs[Len(fs) + 1 - (n + 1)].size
    BY <1>f, <2>1
  <2> QED BY <1>2, <2>1, <2>2, <2>3
<1> HIDE DEF S
<1>3. Nat \subseteq S
  BY <1>1, <1>2, NatSetInduction
<1>4. \A i \in 0 .. Len(fs) : f[i] = g[i] /\ f[i] \in Nat
  BY <1>n, <1>3 DEF S
<1>5. f = [i \in 0 .. Len(fs) |-> f[i]] /\ g = [i \in 0 .. Len(fs) |-> g[i]]
  BY DEF Sums
<1> QED BY <1>4, <1>5

\* From the sums of the older uploads to those with one more in front.
LEMMA SumsExtend ==
    ASSUME NEW fs \in Seq(File), NEW gs \in Seq(File),
           Len(gs) = Len(fs) + 1,
           \A i \in 1 .. Len(fs) : gs[i + 1] = fs[i],
           NEW g, Sums(fs, g)
    PROVE  \E f : Sums(gs, f) /\ f[Len(gs)] = g[Len(fs)] + gs[1].size
<1> DEFINE n == Len(fs)
<1>n. n \in Nat /\ Len(gs) = n + 1 /\ \A i \in 1 .. n : gs[i + 1] = fs[i]
  OBVIOUS
<1>1. \A i \in 0 .. n :
          g[i] = IF i = 0 THEN 0 ELSE g[i - 1] + fs[n + 1 - i].size
  BY DEF Sums
<1> HIDE DEF n
<1> DEFINE f == [i \in 0 .. (n + 1) |->
                    IF i = n + 1 THEN g[n] + gs[1].size ELSE g[i]]
           h == [i \in 0 .. (n + 1) |->
                    IF i = 0 THEN 0 ELSE f[i - 1] + gs[(n + 1) + 1 - i].size]
<1>2. ASSUME NEW i \in 0 .. (n + 1) PROVE f[i] = h[i]
  <2>1. CASE i = 0
    BY <1>n, <1>1, <2>1
  <2>2. CASE i \in 1 .. n
    <3>1. /\ i - 1 \in 0 .. n /\ i \in 0 .. n /\ i # 0 /\ i # n + 1
          /\ i - 1 # n + 1 /\ i - 1 \in 0 .. (n + 1) /\ i \in 0 .. (n + 1)
          /\ n + 1 - i \in 1 .. n
          /\ (n + 1) + 1 - i = (n + 1 - i) + 1
      BY <1>n, <2>2
    <3>2. f[i - 1] = g[i - 1] /\ f[i] = g[i]
      BY <3>1
    <3>3. gs[(n + 1) + 1 - i] = fs[n + 1 - i]
      BY <1>n, <3>1
    <3>4. g[i] = g[i - 1] + fs[n + 1 - i].size
      BY <1>1, <3>1
    <3>5. h[i] = f[i - 1] + gs[(n + 1) + 1 - i].size
      BY <3>1
    <3> QED BY <3>2, <3>3, <3>4, <3>5
  <2>3. CASE i = n + 1
    <3>1. /\ i # 0 /\ i - 1 = n /\ n # n + 1 /\ n \in 0 .. (n + 1)
          /\ (n + 1) + 1 - i = 1
      BY <1>n, <2>3
    <3>2. f[n] = g[n] /\ f[i] = g[n] + gs[1].size
      BY <2>3, <3>1
    <3>3. h[i] = f[i - 1] + gs[(n + 1) + 1 - i].size
      BY <3>1
    <3> QED BY <3>1, <3>2, <3>3
  <2> QED BY <1>n, <2>1, <2>2, <2>3
<1>3. f = h
  BY <1>2
<1>4. f[n + 1] = g[n] + gs[1].size
  BY <1>n
<1> HIDE DEF f
<1>5. Sums(gs, f)
  BY <1>n, <1>3 DEF Sums
<1> QED BY <1>n, <1>4, <1>5 DEF n

\* There is one for every list.
LEMMA SumsExist == \A fs \in Seq(File) : \E f : Sums(fs, f)
<1> DEFINE S == {n \in Nat : \A fs \in Seq(File) :
                     Len(fs) = n => \E f : Sums(fs, f)}
<1>1. 0 \in S
  <2> SUFFICES ASSUME NEW fs \in Seq(File), Len(fs) = 0 PROVE \E f : Sums(fs, f)
    OBVIOUS
  <2> DEFINE f == [i \in 0 .. 0 |-> 0]
  <2>1. f = [i \in 0 .. 0 |->
                IF i = 0 THEN 0 ELSE f[i - 1] + fs[Len(fs) + 1 - i].size]
    OBVIOUS
  <2> HIDE DEF f
  <2> QED BY <2>1 DEF Sums
<1>2. ASSUME NEW n \in Nat, n \in S PROVE n + 1 \in S
  <2> SUFFICES ASSUME NEW fs \in Seq(File), Len(fs) = n + 1
               PROVE  \E f : Sums(fs, f)
    OBVIOUS
  <2> DEFINE p == Tail(fs)
  <2>1. p \in Seq(File) /\ Len(p) = n /\ \A i \in 1 .. n : fs[i + 1] = p[i]
    OBVIOUS
  <2>2. PICK g : Sums(p, g)
    BY <1>2, <2>1
  <2> HIDE DEF p
  <2> QED BY <2>1, <2>2, SumsExtend
<1> HIDE DEF S
<1>3. Nat \subseteq S
  BY <1>1, <1>2, NatSetInduction
<1> SUFFICES ASSUME NEW fs \in Seq(File) PROVE \E f : Sums(fs, f)
  OBVIOUS
<1>4. Len(fs) \in S
  BY <1>3
<1> QED BY <1>4 DEF S

\* The one there is gives TotalSize.
LEMMA TotalSizeIs ==
    ASSUME NEW fs \in Seq(File), NEW f, Sums(fs, f)
    PROVE  TotalSize(fs) = f[Len(fs)] /\ f[Len(fs)] \in Nat
<1> DEFINE e(s) == [i \in 0 .. Len(fs) |->
                       IF i = 0 THEN 0 ELSE s[i - 1] + fs[Len(fs) + 1 - i].size]
           g == CHOOSE s : s = e(s)
<1>1. TotalSize(fs) = g[Len(fs)]
  BY DEF TotalSize
<1>2. f = e(f)
  BY DEF Sums
<1>3. g = e(g)
  BY <1>2
<1>4. Sums(fs, g)
  BY <1>3 DEF Sums
<1> HIDE DEF g
<1>5. f = g /\ f[Len(fs)] \in Nat
  <2>1. Len(fs) \in 0 .. Len(fs)
    OBVIOUS
  <2> QED BY <1>4, <2>1, SumsUnique
<1> QED BY <1>1, <1>5

\* A total size is a number.
LEMMA TotalSizeNat == \A fs \in Seq(File) : TotalSize(fs) \in Nat
<1> SUFFICES ASSUME NEW fs \in Seq(File) PROVE TotalSize(fs) \in Nat
  OBVIOUS
<1>1. PICK f : Sums(fs, f)
  BY SumsExist
<1> QED BY <1>1, TotalSizeIs

\* No uploads, no bytes.
LEMMA TotalSizeEmpty == TotalSize(<<>>) = 0
<1>1. <<>> \in Seq(File) /\ Len(<<>>) = 0
  OBVIOUS
<1>2. PICK f : Sums(<<>>, f)
  BY <1>1, SumsExist
<1>3. f[0] = 0
  BY <1>1, <1>2 DEF Sums
<1> QED BY <1>1, <1>2, <1>3, TotalSizeIs

\* An upload in front adds its size.
LEMMA TotalSizePrepend ==
    ASSUME NEW u \in File, NEW fs \in Seq(File)
    PROVE  TotalSize(<<u>> \o fs) = TotalSize(fs) + u.size
<1> DEFINE gs == <<u>> \o fs
<1>1. /\ gs \in Seq(File) /\ Len(gs) = Len(fs) + 1
      /\ \A i \in 1 .. Len(fs) : gs[i + 1] = fs[i]
      /\ gs[1] = u
  OBVIOUS
<1>2. PICK g : Sums(fs, g)
  BY SumsExist
<1> HIDE DEF gs
<1>3. PICK f : Sums(gs, f) /\ f[Len(gs)] = g[Len(fs)] + u.size
  BY <1>1, <1>2, SumsExtend
<1>4. TotalSize(gs) = f[Len(gs)] /\ TotalSize(fs) = g[Len(fs)]
  BY <1>1, <1>2, <1>3, TotalSizeIs
<1> QED BY <1>3, <1>4 DEF gs

-----------------------------------------------------------------------------
(* The limit                                                               *)

\* Nothing is left of the last request before the first call of the next.
StartsEmpty == pc = "idle" => ~body_too_large /\ body = <<>> /\ body_length = 0

\* The call after the last chunk comes when all events have arrived.
AllArrived == pc \in {"last", "finish", "ready"} => sent = Len(events)

\* While nothing has failed: the body is over the limit exactly if more than
\* the limit has arrived; until then its length is counted, and a raw body is
\* what has arrived.
Counting ==
    faults = 0 =>
        /\ body_too_large <=> sent > max_body_size
        /\ ~body_too_large => body_length = sent
        /\ ~body_too_large /\ ~is_multipart =>
              Len(body) = sent /\ \A i \in 1 .. sent : body[i] = Byte(events[i])

\* While a multipart body is parsed, failures or not, its length is counted
\* and what is on disk comes from the events dealt with.
Metered ==
    /\ post_processor => is_multipart
    /\ post_processor /\ pc \notin {"abort", "drop"} =>
          body_length = sent /\ sent <= max_body_size /\ Held <= sent - pending

\* The inductive invariant of the limit, over UploadInv.
LimitInv == StartsEmpty /\ AllArrived /\ Counting /\ Metered /\ HeldBounded

\* What is on disk is counted by a number.
LEMMA HeldNat == ASSUME TypeOK PROVE Held \in Nat /\ TotalSize(files) \in Nat
<1>1. TotalSize(files) \in Nat
  BY TotalSizeNat DEF TypeOK
<1> QED BY <1>1 DEF TypeOK, Held

\* The limit holds before the first request.
LEMMA InitLimit == Init => LimitInv
<1> SUFFICES ASSUME Init PROVE LimitInv
  OBVIOUS
<1>1. Held = 0
  BY TotalSizeEmpty DEF Init, Held
<1>2. Len(body) = 0
  BY DEF Init
<1>3. StartsEmpty /\ AllArrived
  BY DEF Init, StartsEmpty, AllArrived
<1>4. Counting
  BY <1>2, ConstantsAssumption DEF Init, Counting
<1>5. Metered
  BY DEF Init, Metered
<1>6. HeldBounded
  BY <1>1, <1>2, ConstantsAssumption DEF HeldBounded
<1> QED BY <1>3, <1>4, <1>5, <1>6 DEF LimitInv

\* Every step keeps the limit, for events of at most one byte.
LEMMA NextLimit ==
    ASSUME TypeOK, FieldShape, LimitInv, [Next]_vars
    PROVE  LimitInv'
<1> USE DEF reqVars, arrival, bodyVars, procVars, resultVars, fieldVars,
            diskVars
<1>i. StartsEmpty /\ AllArrived /\ Counting /\ Metered /\ HeldBounded
  BY DEF LimitInv
<1>c. /\ Len(events) \in Nat /\ sent \in Nat /\ pending \in Nat
      /\ sent <= Len(events) /\ pending <= sent
      /\ faults \in Nat /\ max_body_size \in Nat
      /\ body_length \in Nat /\ Len(body) \in Nat
  BY Counters, ConstantsAssumption DEF TypeOK
<1>b. /\ body_too_large \in BOOLEAN /\ is_multipart \in BOOLEAN
      /\ post_processor \in BOOLEAN /\ is_file \in BOOLEAN
  BY DEF TypeOK
<1>h. /\ Held \in Nat /\ TotalSize(files) \in Nat /\ value_len \in Nat
      /\ Held <= max_body_size /\ Len(body) <= max_body_size
      /\ Held = TotalSize(files) + (IF is_file THEN value_len ELSE 0)
  BY <1>i, HeldNat DEF HeldBounded, Held, TypeOK
<1> SUFFICES StartsEmpty' /\ AllArrived' /\ Counting' /\ Metered'
             /\ HeldBounded'
  BY DEF LimitInv
\* What is held stays the same, or shrinks, if the open file does.
<1>s. ASSUME files' = files, is_file' = is_file, value_len' = value_len
      PROVE  Held' = Held
  BY <1>s DEF Held
<1>d. ASSUME files' = files, is_file' = FALSE
      PROVE  Held' \in Nat /\ Held' <= Held
  <2>1. Held' = TotalSize(files) + 0
    BY <1>d DEF Held
  <2> QED BY <1>h, <2>1
<1>1. ASSUME NEW r \in Requests, Begin(r)
      PROVE  StartsEmpty' /\ AllArrived' /\ Counting' /\ Metered'
             /\ HeldBounded'
  <2> USE <1>1 DEF Begin
  <2>1. Held' = Held /\ Held = 0 /\ sent = 0 /\ pending = 0 /\ Len(body) = 0
    <3>1. files = <<>> /\ ~is_file
      BY DEF FieldShape
    <3>2. Held = 0
      BY <3>1, TotalSizeEmpty DEF Held
    <3> QED BY <1>i, <1>s, <3>2 DEF FieldShape, StartsEmpty
  <2>2. StartsEmpty' /\ AllArrived'
    BY <1>i, <1>c, <1>b DEF StartsEmpty, AllArrived
  <2>3. Counting'
    BY <1>i, <1>c, <1>b DEF Counting, StartsEmpty, FieldShape, Parsing
  <2>4. Metered'
    BY <1>i, <1>c, <1>b, <1>h, <2>1 DEF Metered, FieldShape, StartsEmpty, Parsing
  <2>5. HeldBounded'
    BY <1>c, <1>h, <2>1 DEF HeldBounded
  <2> QED BY <2>2, <2>3, <2>4, <2>5
<1>2. ASSUME NEW r \in Requests, BeginNoMemory(r)
      PROVE  StartsEmpty' /\ AllArrived' /\ Counting' /\ Metered'
             /\ HeldBounded'
  <2> USE <1>2 DEF BeginNoMemory, Fails
  <2>1. Held' = Held /\ faults' # 0
    BY <1>c, <1>s
  <2>2. StartsEmpty' /\ AllArrived'
    BY <1>i, <1>c, <1>b DEF StartsEmpty, AllArrived
  <2>3. Counting'
    BY <1>i, <1>c, <1>b DEF Counting, StartsEmpty, FieldShape, Parsing
  <2>4. Metered'
    BY <1>i, <1>c, <1>b, <1>h, <2>1 DEF Metered, FieldShape, StartsEmpty, Parsing
  <2>5. HeldBounded'
    BY <1>c, <1>h, <2>1 DEF HeldBounded
  <2> QED BY <2>2, <2>3, <2>4, <2>5
<1>3. ASSUME NEW k \in 1 .. Len(events), ChunkParsed(k)
      PROVE  StartsEmpty' /\ AllArrived' /\ Counting' /\ Metered'
             /\ HeldBounded'
  <2> USE <1>3 DEF ChunkParsed, Arrives
  <2>1. Held' = Held
    BY <1>s
  <2>2. StartsEmpty' /\ AllArrived'
    BY <1>i, <1>c, <1>b DEF StartsEmpty, AllArrived
  <2>3. Counting'
    BY <1>i, <1>c, <1>b DEF Counting, StartsEmpty, FieldShape, Parsing
  <2>4. Metered'
    BY <1>i, <1>c, <1>b, <1>h, <2>1 DEF Metered, FieldShape, StartsEmpty, Parsing
  <2>5. HeldBounded'
    BY <1>c, <1>h, <2>1 DEF HeldBounded
  <2> QED BY <2>2, <2>3, <2>4, <2>5
<1>4. ASSUME NEW k \in 1 .. Len(events), ChunkTooLarge(k)
      PROVE  StartsEmpty' /\ AllArrived' /\ Counting' /\ Metered'
             /\ HeldBounded'
  <2> USE <1>4 DEF ChunkTooLarge, Arrives
  <2>1. Held' = Held
    BY <1>s
  <2>2. StartsEmpty' /\ AllArrived'
    BY <1>i, <1>c, <1>b DEF StartsEmpty, AllArrived
  <2>3. Counting'
    BY <1>i, <1>c, <1>b DEF Counting, StartsEmpty, FieldShape, Parsing
  <2>4. Metered'
    BY <1>i, <1>c, <1>b, <1>h, <2>1 DEF Metered, FieldShape, StartsEmpty, Parsing
  <2>5. HeldBounded'
    BY <1>c, <1>h, <2>1 DEF HeldBounded
  <2> QED BY <2>2, <2>3, <2>4, <2>5
<1>5. ASSUME NEW k \in 1 .. Len(events), RawTooLarge(k)
      PROVE  StartsEmpty' /\ AllArrived' /\ Counting' /\ Metered'
             /\ HeldBounded'
  <2> USE <1>5 DEF RawTooLarge, Arrives
  <2>1. Held' = Held
    BY <1>s
  <2>2. StartsEmpty' /\ AllArrived'
    BY <1>i, <1>c, <1>b DEF StartsEmpty, AllArrived
  <2>3. Counting'
    BY <1>i, <1>c, <1>b DEF Counting, StartsEmpty, FieldShape, Parsing
  <2>4. Metered'
    BY <1>i, <1>c, <1>b, <1>h, <2>1 DEF Metered, FieldShape, StartsEmpty, Parsing
  <2>5. HeldBounded'
    BY <1>c, <1>h, <2>1 DEF HeldBounded
  <2> QED BY <2>2, <2>3, <2>4, <2>5
<1>6. ASSUME NEW k \in 1 .. Len(events), RawAppend(k)
      PROVE  StartsEmpty' /\ AllArrived' /\ Counting' /\ Metered'
             /\ HeldBounded'
  <2> USE <1>6 DEF RawAppend, Arrives
  <2>1. Held' = Held
    BY <1>s
  <2>2. StartsEmpty' /\ AllArrived'
    BY <1>i, <1>c, <1>b DEF StartsEmpty, AllArrived
  <2>3. Counting'
    BY <1>i, <1>c, <1>b DEF Counting, StartsEmpty, FieldShape, Parsing
  <2>4. Metered'
    BY <1>i, <1>c, <1>b, <1>h, <2>1 DEF Metered, FieldShape, StartsEmpty, Parsing
  <2>5. HeldBounded'
    BY <1>c, <1>h, <2>1 DEF HeldBounded
  <2> QED BY <2>2, <2>3, <2>4, <2>5
<1>7. ASSUME NEW k \in 1 .. Len(events), RawNoMemory(k)
      PROVE  StartsEmpty' /\ AllArrived' /\ Counting' /\ Metered'
             /\ HeldBounded'
  <2> USE <1>7 DEF RawNoMemory, Arrives, Fails
  <2>1. Held' = Held
    BY <1>s
  <2>2. StartsEmpty' /\ AllArrived'
    BY <1>i, <1>c, <1>b DEF StartsEmpty, AllArrived
  <2>3. Counting'
    BY <1>i, <1>c, <1>b DEF Counting, StartsEmpty, FieldShape, Parsing
  <2>4. Metered'
    BY <1>i, <1>c, <1>b, <1>h, <2>1 DEF Metered, FieldShape, StartsEmpty, Parsing
  <2>5. HeldBounded'
    BY <1>c, <1>h, <2>1 DEF HeldBounded
  <2> QED BY <2>2, <2>3, <2>4, <2>5
<1>8. CASE IterateSkip
  <2> USE <1>8 DEF IterateSkip, EventDone
  <2>1. Held' = Held
    BY <1>s
  <2>2. StartsEmpty' /\ AllArrived'
    BY <1>i, <1>c, <1>b DEF StartsEmpty, AllArrived
  <2>3. Counting'
    BY <1>i, <1>c, <1>b DEF Counting, StartsEmpty, FieldShape, Parsing
  <2>4. Metered'
    BY <1>i, <1>c, <1>b, <1>h, <2>1 DEF Metered, FieldShape, StartsEmpty, Parsing
  <2>5. HeldBounded'
    BY <1>c, <1>h, <2>1 DEF HeldBounded
  <2> QED BY <2>2, <2>3, <2>4, <2>5
<1>9. CASE Iterate
  <2> USE <1>9 DEF Iterate
  <2>1. Held' = Held
    BY <1>s
  <2>2. StartsEmpty' /\ AllArrived'
    BY <1>i, <1>c, <1>b DEF StartsEmpty, AllArrived
  <2>3. Counting'
    BY <1>i, <1>c, <1>b DEF Counting, StartsEmpty, FieldShape, Parsing
  <2>4. Metered'
    BY <1>i, <1>c, <1>b, <1>h, <2>1 DEF Metered, FieldShape, StartsEmpty, Parsing
  <2>5. HeldBounded'
    BY <1>c, <1>h, <2>1 DEF HeldBounded
  <2> QED BY <2>2, <2>3, <2>4, <2>5
<1>10. CASE OpenText
  <2> USE <1>10 DEF OpenText
  <2>1. Held' \in Nat /\ Held' <= Held
    BY <1>d
  <2>2. StartsEmpty' /\ AllArrived'
    BY <1>i, <1>c, <1>b DEF StartsEmpty, AllArrived
  <2>3. Counting'
    BY <1>i, <1>c, <1>b DEF Counting, StartsEmpty, FieldShape, Parsing
  <2>4. Metered'
    BY <1>i, <1>c, <1>b, <1>h, <2>1 DEF Metered, FieldShape, StartsEmpty, Parsing
  <2>5. HeldBounded'
    BY <1>c, <1>h, <2>1 DEF HeldBounded
  <2> QED BY <2>2, <2>3, <2>4, <2>5
<1>11. ASSUME NEW n \in TmpNames, OpenFile(n)
      PROVE  StartsEmpty' /\ AllArrived' /\ Counting' /\ Metered'
             /\ HeldBounded'
  <2> USE <1>11 DEF OpenFile
  <2>1. Held' = Held
    <3>1. ~is_file
      BY DEF FieldShape
    <3>2. Held' = TotalSize(files) + 0
      BY DEF Held
    <3> QED BY <1>h, <3>1, <3>2
  <2>2. StartsEmpty' /\ AllArrived'
    BY <1>i, <1>c, <1>b DEF StartsEmpty, AllArrived
  <2>3. Counting'
    BY <1>i, <1>c, <1>b DEF Counting, StartsEmpty, FieldShape, Parsing
  <2>4. Metered'
    BY <1>i, <1>c, <1>b, <1>h, <2>1 DEF Metered, FieldShape, StartsEmpty, Parsing
  <2>5. HeldBounded'
    BY <1>c, <1>h, <2>1 DEF HeldBounded
  <2> QED BY <2>2, <2>3, <2>4, <2>5
<1>12. CASE OpenFileFailed
  <2> USE <1>12 DEF OpenFileFailed, EventFailed, Fails
  <2>1. Held' = Held
    <3>1. ~is_file
      BY DEF FieldShape
    <3>2. Held' = TotalSize(files) + 0
      BY DEF Held
    <3> QED BY <1>h, <3>1, <3>2
  <2>2. StartsEmpty' /\ AllArrived'
    BY <1>i, <1>c, <1>b DEF StartsEmpty, AllArrived
  <2>3. Counting'
    BY <1>i, <1>c, <1>b DEF Counting, StartsEmpty, FieldShape, Parsing
  <2>4. Metered'
    BY <1>i, <1>c, <1>b, <1>h, <2>1 DEF Metered, FieldShape, StartsEmpty, Parsing
  <2>5. HeldBounded'
    BY <1>c, <1>h, <2>1 DEF HeldBounded
  <2> QED BY <2>2, <2>3, <2>4, <2>5
<1>13. CASE AppendText
  <2> USE <1>13 DEF AppendText, EventDone
  <2>1. Held' \in Nat /\ Held' <= Held
    <3>1. is_file' = FALSE
      BY <1>b
    <3> QED BY <1>d, <3>1
  <2>2. StartsEmpty' /\ AllArrived'
    BY <1>i, <1>c, <1>b DEF StartsEmpty, AllArrived
  <2>3. Counting'
    BY <1>i, <1>c, <1>b DEF Counting, StartsEmpty, FieldShape, Parsing
  <2>4. Metered'
    BY <1>i, <1>c, <1>b, <1>h, <2>1 DEF Metered, FieldShape, StartsEmpty, Parsing
  <2>5. HeldBounded'
    BY <1>c, <1>h, <2>1 DEF HeldBounded
  <2> QED BY <2>2, <2>3, <2>4, <2>5
<1>14. CASE AppendFile
  <2> USE <1>14 DEF AppendFile, EventDone
  <2>1. Held' \in Nat /\ Held' <= Held + 1 /\ Held' <= max_body_size
    <3>1. pending > 0
      BY DEF FieldShape
    <3>2. CurrentEvent \in Event
      BY <3>1, CurrentEventType
    <3>3. Len(CurrentEvent.data) \in 0 .. 1
      BY <3>2, PieceLength
    <3>4. Held' = TotalSize(files) + (value_len + Len(CurrentEvent.data))
      BY DEF Held
    <3>5. Held = TotalSize(files) + value_len
      BY <1>h
    <3>6. post_processor
      BY DEF FieldShape, Parsing
    <3>7. Held <= sent - pending /\ sent <= max_body_size
      BY <1>i, <3>6 DEF Metered
    <3>8. PICK l \in 0 .. 1 : l = Len(CurrentEvent.data)
      BY <3>3
    <3>9. Held' = TotalSize(files) + (value_len + l)
      BY <3>4, <3>8
    <3> HIDE <1>14
    <3> QED BY <1>c, <1>h, <3>1, <3>5, <3>7, <3>9
  <2>2. StartsEmpty' /\ AllArrived'
    BY <1>i, <1>c, <1>b DEF StartsEmpty, AllArrived
  <2>3. Counting'
    BY <1>i, <1>c, <1>b DEF Counting, StartsEmpty, FieldShape, Parsing
  <2>4. Metered'
    BY <1>i, <1>c, <1>b, <1>h, <2>1 DEF Metered, FieldShape, StartsEmpty, Parsing
  <2>5. HeldBounded'
    BY <1>c, <1>h, <2>1 DEF HeldBounded
  <2> QED BY <2>2, <2>3, <2>4, <2>5
<1>15. CASE AppendFailed \/ Malformed
  <2> USE <1>15 DEF AppendFailed, Malformed, EventFailed, Fails
  <2>1. Held' = Held
    BY <1>s
  <2>2. StartsEmpty' /\ AllArrived'
    BY <1>i, <1>c, <1>b DEF StartsEmpty, AllArrived
  <2>3. Counting'
    BY <1>i, <1>c, <1>b DEF Counting, StartsEmpty, FieldShape, Parsing
  <2>4. Metered'
    BY <1>i, <1>c, <1>b, <1>h, <2>1 DEF Metered, FieldShape, StartsEmpty, Parsing
  <2>5. HeldBounded'
    BY <1>c, <1>h, <2>1 DEF HeldBounded
  <2> QED BY <2>2, <2>3, <2>4, <2>5
<1>16. CASE SettleNothing
  <2> USE <1>16 DEF SettleNothing,
             SettleReturns, Committing, Discarding, NoField
  <2>1. Held' = Held
    BY <1>s
  <2>2. StartsEmpty' /\ AllArrived'
    BY <1>i, <1>c, <1>b DEF StartsEmpty, AllArrived
  <2>3. Counting'
    BY <1>i, <1>c, <1>b DEF Counting, StartsEmpty, FieldShape, Parsing
  <2>4. Metered'
    BY <1>i, <1>c, <1>b, <1>h, <2>1 DEF Metered, FieldShape, StartsEmpty, Parsing
  <2>5. HeldBounded'
    BY <1>c, <1>h, <2>1 DEF HeldBounded
  <2> QED BY <2>2, <2>3, <2>4, <2>5
<1>17. CASE SettleFile
  <2> USE <1>17 DEF SettleFile, FileCleared,
             SettleReturns, Committing, Discarding, NoField
  <2>1. Held' = Held
    <3> DEFINE u == [key |-> key, path |-> tmp_path, size |-> value_len]
    <3>1. u \in File /\ u.size = value_len
      BY DEF TypeOK, FieldShape, File
    <3>2. TotalSize(files') = TotalSize(files) + value_len
      BY <3>1, TotalSizePrepend DEF TypeOK
    <3>3. Held' = TotalSize(files') + 0
      BY DEF Held
    <3> QED BY <1>h, <3>2, <3>3
  <2>2. StartsEmpty' /\ AllArrived'
    BY <1>i, <1>c, <1>b DEF StartsEmpty, AllArrived
  <2>3. Counting'
    BY <1>i, <1>c, <1>b DEF Counting, StartsEmpty, FieldShape, Parsing
  <2>4. Metered'
    BY <1>i, <1>c, <1>b, <1>h, <2>1 DEF Metered, FieldShape, StartsEmpty, Parsing
  <2>5. HeldBounded'
    BY <1>c, <1>h, <2>1 DEF HeldBounded
  <2> QED BY <2>2, <2>3, <2>4, <2>5
<1>18. CASE SettleFileNoMemory
  <2> USE <1>18 DEF SettleFileNoMemory, FileCleared, Fails,
             SettleReturns, Committing, Discarding, NoField
  <2>1. Held' \in Nat /\ Held' <= Held
    BY <1>d
  <2>2. StartsEmpty' /\ AllArrived'
    BY <1>i, <1>c, <1>b DEF StartsEmpty, AllArrived
  <2>3. Counting'
    BY <1>i, <1>c, <1>b DEF Counting, StartsEmpty, FieldShape, Parsing
  <2>4. Metered'
    BY <1>i, <1>c, <1>b, <1>h, <2>1 DEF Metered, FieldShape, StartsEmpty, Parsing
  <2>5. HeldBounded'
    BY <1>c, <1>h, <2>1 DEF HeldBounded
  <2> QED BY <2>2, <2>3, <2>4, <2>5
<1>19. CASE DiscardFile
  <2> USE <1>19 DEF DiscardFile, FileCleared,
             SettleReturns, Committing, Discarding, NoField
  <2>1. Held' \in Nat /\ Held' <= Held
    BY <1>d
  <2>2. StartsEmpty' /\ AllArrived'
    BY <1>i, <1>c, <1>b DEF StartsEmpty, AllArrived
  <2>3. Counting'
    BY <1>i, <1>c, <1>b DEF Counting, StartsEmpty, FieldShape, Parsing
  <2>4. Metered'
    BY <1>i, <1>c, <1>b, <1>h, <2>1 DEF Metered, FieldShape, StartsEmpty, Parsing
  <2>5. HeldBounded'
    BY <1>c, <1>h, <2>1 DEF HeldBounded
  <2> QED BY <2>2, <2>3, <2>4, <2>5
<1>20. CASE SettleText
  <2> USE <1>20 DEF SettleText, TextCleared,
             SettleReturns, Committing, Discarding, NoField
  <2>1. Held' \in Nat /\ Held' <= Held
    <3>1. is_file' = FALSE
      BY <1>b
    <3> QED BY <1>d, <3>1
  <2>2. StartsEmpty' /\ AllArrived'
    BY <1>i, <1>c, <1>b DEF StartsEmpty, AllArrived
  <2>3. Counting'
    BY <1>i, <1>c, <1>b DEF Counting, StartsEmpty, FieldShape, Parsing
  <2>4. Metered'
    BY <1>i, <1>c, <1>b, <1>h, <2>1 DEF Metered, FieldShape, StartsEmpty, Parsing
  <2>5. HeldBounded'
    BY <1>c, <1>h, <2>1 DEF HeldBounded
  <2> QED BY <2>2, <2>3, <2>4, <2>5
<1>21. CASE SettleTextNoMemory
  <2> USE <1>21 DEF SettleTextNoMemory, TextCleared, Fails,
             SettleReturns, Committing, Discarding, NoField
  <2>1. Held' \in Nat /\ Held' <= Held
    <3>1. is_file' = FALSE
      BY <1>b
    <3> QED BY <1>d, <3>1
  <2>2. StartsEmpty' /\ AllArrived'
    BY <1>i, <1>c, <1>b DEF StartsEmpty, AllArrived
  <2>3. Counting'
    BY <1>i, <1>c, <1>b DEF Counting, StartsEmpty, FieldShape, Parsing
  <2>4. Metered'
    BY <1>i, <1>c, <1>b, <1>h, <2>1 DEF Metered, FieldShape, StartsEmpty, Parsing
  <2>5. HeldBounded'
    BY <1>c, <1>h, <2>1 DEF HeldBounded
  <2> QED BY <2>2, <2>3, <2>4, <2>5
<1>22. CASE DiscardText
  <2> USE <1>22 DEF DiscardText, TextCleared,
             SettleReturns, Committing, Discarding, NoField
  <2>1. Held' \in Nat /\ Held' <= Held
    <3>1. is_file' = FALSE
      BY <1>b
    <3> QED BY <1>d, <3>1
  <2>2. StartsEmpty' /\ AllArrived'
    BY <1>i, <1>c, <1>b DEF StartsEmpty, AllArrived
  <2>3. Counting'
    BY <1>i, <1>c, <1>b DEF Counting, StartsEmpty, FieldShape, Parsing
  <2>4. Metered'
    BY <1>i, <1>c, <1>b, <1>h, <2>1 DEF Metered, FieldShape, StartsEmpty, Parsing
  <2>5. HeldBounded'
    BY <1>c, <1>h, <2>1 DEF HeldBounded
  <2> QED BY <2>2, <2>3, <2>4, <2>5
<1>23. CASE Drop
  <2> USE <1>23 DEF Drop
  <2>1. Held' = Held
    BY <1>s
  <2>2. StartsEmpty' /\ AllArrived'
    BY <1>i, <1>c, <1>b DEF StartsEmpty, AllArrived
  <2>3. Counting'
    BY <1>i, <1>c, <1>b DEF Counting, StartsEmpty, FieldShape, Parsing
  <2>4. Metered'
    BY <1>i, <1>c, <1>b, <1>h, <2>1 DEF Metered, FieldShape, StartsEmpty, Parsing
  <2>5. HeldBounded'
    BY <1>c, <1>h, <2>1 DEF HeldBounded
  <2> QED BY <2>2, <2>3, <2>4, <2>5
<1>24. CASE Finish
  <2> USE <1>24 DEF Finish
  <2>1. Held' = Held
    BY <1>s
  <2>2. StartsEmpty' /\ AllArrived'
    BY <1>i, <1>c, <1>b DEF StartsEmpty, AllArrived
  <2>3. Counting'
    BY <1>i, <1>c, <1>b DEF Counting, StartsEmpty, FieldShape, Parsing
  <2>4. Metered'
    BY <1>i, <1>c, <1>b, <1>h, <2>1 DEF Metered, FieldShape, StartsEmpty, Parsing
  <2>5. HeldBounded'
    BY <1>c, <1>h, <2>1 DEF HeldBounded
  <2> QED BY <2>2, <2>3, <2>4, <2>5
<1>25. CASE FinishForm
  <2> USE <1>25 DEF FinishForm
  <2>1. Held' \in Nat /\ Held' <= Held
    BY <1>d
  <2>2. StartsEmpty' /\ AllArrived'
    BY <1>i, <1>c, <1>b DEF StartsEmpty, AllArrived
  <2>3. Counting'
    BY <1>i, <1>c, <1>b DEF Counting, StartsEmpty, FieldShape, Parsing
  <2>4. Metered'
    BY <1>i, <1>c, <1>b, <1>h, <2>1 DEF Metered, FieldShape, StartsEmpty, Parsing
  <2>5. HeldBounded'
    BY <1>c, <1>h, <2>1 DEF HeldBounded
  <2> QED BY <2>2, <2>3, <2>4, <2>5
<1>26. CASE RequestCompleted
  <2> USE <1>26 DEF RequestCompleted
  <2>1. Held' = Held
    BY <1>s
  <2>2. StartsEmpty' /\ AllArrived'
    BY <1>i, <1>c, <1>b DEF StartsEmpty, AllArrived
  <2>3. Counting'
    BY <1>i, <1>c, <1>b DEF Counting, StartsEmpty, FieldShape, Parsing
  <2>4. Metered'
    BY <1>i, <1>c, <1>b, <1>h, <2>1 DEF Metered, FieldShape, StartsEmpty, Parsing
  <2>5. HeldBounded'
    BY <1>c, <1>h, <2>1 DEF HeldBounded
  <2> QED BY <2>2, <2>3, <2>4, <2>5
<1>27. CASE Free
  <2> USE <1>27 DEF Free
  <2>1. Held' = 0 /\ Len(body') = 0
    BY TotalSizeEmpty DEF Held
  <2>2. StartsEmpty' /\ AllArrived'
    BY <1>i, <1>c, <1>b DEF StartsEmpty, AllArrived
  <2>3. Counting'
    BY <1>i, <1>c, <1>b DEF Counting, StartsEmpty, FieldShape, Parsing
  <2>4. Metered'
    BY <1>i, <1>c, <1>b, <1>h, <2>1 DEF Metered, FieldShape, StartsEmpty, Parsing
  <2>5. HeldBounded'
    BY <1>c, <1>h, <2>1 DEF HeldBounded
  <2> QED BY <2>2, <2>3, <2>4, <2>5
<1>28. CASE UNCHANGED vars
  <2> USE <1>28 DEF vars
  <2>1. Held' = Held
    BY <1>s
  <2> QED
    BY <1>i, <2>1 DEF StartsEmpty, AllArrived, Counting, Metered, HeldBounded
<1> QED
  BY <1>1, <1>2, <1>3, <1>4, <1>5, <1>6, <1>7, <1>8, <1>9, <1>10, <1>11, <1>12,
     <1>13, <1>14, <1>15, <1>16, <1>17, <1>18, <1>19, <1>20, <1>21, <1>22,
     <1>23, <1>24, <1>25, <1>26, <1>27, <1>28
  DEF Next, ChunkArrives, Settle

\* For every body, cut and limit: a raw body that nothing failed on reaches the
\* handler whole, a request is turned away exactly when its body is over the
\* limit, and no request, failing or not, holds more than the limit.
THEOREM LimitIsKept == Spec => []BodyLimited
<1>1. UploadInv /\ LimitInv => BodyLimited
  <2> SUFFICES ASSUME TypeOK, LimitInv PROVE BodyLimited
    BY DEF UploadInv
  <2>1. RawBodyExact
    <3> SUFFICES ASSUME Handling, ~is_multipart, faults = 0
                 PROVE  body = [i \in 1 .. Len(events) |-> Byte(events[i])]
      BY DEF RawBodyExact
    <3>1. /\ Len(body) = Len(events)
          /\ \A i \in 1 .. Len(events) : body[i] = Byte(events[i])
      BY DEF LimitInv, AllArrived, Counting, Handling
    <3>2. body = [i \in 1 .. Len(body) |-> body[i]]
      BY DEF TypeOK
    <3> QED BY <3>1, <3>2
  <2>2. TooLargeExact
    BY DEF LimitInv, AllArrived, Counting, TooLargeExact
  <2> QED BY <2>1, <2>2 DEF BodyLimited, LimitInv
<1>2. UploadInv /\ LimitInv /\ [Next]_vars => LimitInv'
  BY NextLimit DEF UploadInv
<1> QED BY <1>1, <1>2, InitUpload, NextUpload, InitLimit, PTL DEF Spec

-----------------------------------------------------------------------------
(* Parts                                                                   *)

\* The uploads in fs, the newest first, are those of the file parts that begin
\* before event s: g says where each of them does.
Filed(fs, cts, s) ==
    \E g \in [1 .. Len(fs) -> DOMAIN events] :
        /\ \A o, q \in 1 .. Len(fs) : o < q => g[q] < g[o]
        /\ {g[o] : o \in 1 .. Len(fs)} = {i \in Starts(TRUE) : i < s}
        /\ \A o \in 1 .. Len(fs) :
              /\ fs[o].key = events[g[o]].key
              /\ cts[fs[o].path] = PartData(events[g[o]].part)
              /\ fs[o].size = Len(cts[fs[o].path])

\* The entries of the form fm are those of the named text parts that begin
\* before event s, in order.
Formed(fm, s) ==
    \E g \in [1 .. Len(fm) -> DOMAIN events] :
        /\ \A o, q \in 1 .. Len(fm) : o < q => g[o] < g[q]
        /\ {g[o] : o \in 1 .. Len(fm)} = {i \in Starts(FALSE) : i < s}
        /\ \A o \in 1 .. Len(fm) :
              /\ fm[o][1] = events[g[o]].key
              /\ AfterText(events[g[o]].part) =>
                    fm[o][2] = PartData(events[g[o]].part)

\* The parts that begin before event s have been delivered, and no others.
Delivered(s) == Filed(files, contents, s) /\ Formed(form, s)

\* Event s begins a named part, and those after it up to n are of that part or
\* of one without a name.
Begins(s, n) ==
    /\ events[s].off = 0 /\ events[s].key # None
    /\ \A j \in s .. n :
          /\ events[j].key = None <=> events[j].part # events[s].part
          /\ events[j].part = events[s].part => events[j].file = events[s].file

\* The field under assembly is the part that begins at s and has the data of
\* the first n events; a text only if its buffer was empty when it began.
Assembled(s, n) ==
    LET d == DataUpTo(events, events[s].part, n) IN
    /\ key = events[s].key /\ is_file = events[s].file
    /\ is_file => contents[tmp_path] = d /\ value_len = Len(d)
    /\ ~is_file => \A i \in DOMAIN d : d[i] # Nul
    /\ ~is_file /\ AfterText(events[s].part) =>
          value_len = Len(d) /\ value = IF d = <<>> THEN <<>> ELSE Append(d, Nul)

\* No part among the first n events has a name.
NoPart(n) ==
    /\ \A j \in 1 .. n : events[j].key = None
    /\ key = Empty /\ ~is_file /\ value = <<>> /\ value_len = 0

\* The first n events have been dealt with.
DealtWith(n) ==
    \/ NoPart(n) /\ Delivered(0)
    \/ \E s \in 1 .. n : Begins(s, n) /\ Assembled(s, n) /\ Delivered(s)

\* The part before the one that begins now is settled.
Settled(n) ==
    /\ Delivered(n + 1)
    /\ key = Empty /\ ~is_file
    /\ AfterText(events[n + 1].part) => value = <<>> /\ value_len = 0

\* The event at hand is one of the field under assembly.
Continued(n) ==
    \E s \in 1 .. n + 1 :
        /\ Begins(s, n) /\ Assembled(s, n) /\ Delivered(s)
        /\ events[s].part = events[n + 1].part
        /\ events[s].file = events[n + 1].file
        /\ events[n + 1].key # None

\* A multipart body of which nothing has been lost or refused.
Clean == is_multipart /\ faults = 0 /\ ~body_too_large

\* What the first n events have come to.
Stage(n) ==
    /\ pc \notin {"abort", "drop"}
    /\ pc \notin {"idle", "cleanup", "free"} => ctype = "multipart"
    /\ pc \in {"wait", "parse", "settle", "open", "append", "last"} =>
          post_processor
    /\ pc \in {"wait", "parse", "settle", "last"} => DealtWith(n)
    /\ pc \in {"settle", "open"} => events[n + 1].off = 0
    /\ pc = "open" => Settled(n)
    /\ pc = "append" => Continued(n)
    /\ pc \in {"finish", "ready"} => Delivered(n + 1)

\* How far the parts of a body have come while nothing has failed.
Progress == Clean => \E n \in Nat : n = sent - pending /\ Stage(n)

\* What a request starts from, and what it rests on.
Grounds ==
    /\ ctype = "multipart" => Iterates(events)
    /\ pc \in {"wait", "last", "finish", "ready"} => pending = 0
    /\ pc = "idle" => form = <<>> /\ key = Empty /\ value = <<>> /\ value_len = 0
    /\ \A f \in TmpNames \ tmp_files : contents[f] = <<>>

\* The inductive invariant of the parts, over UploadInv and LimitInv.
PartsInv == Grounds /\ Progress

\* f holds the data of part p in the first 0, 1, ... n events.
Grows(evs, p, n, f) ==
    f = [m \in 0 .. n |->
            IF m = 0 THEN <<>>
            ELSE IF evs[m].part = p THEN f[m - 1] \o evs[m].data
            ELSE f[m - 1]]

\* Data are sequences of bytes.
LEMMA DataType ==
    ASSUME NEW evs \in Seq(Event), NEW m \in 1 .. Len(evs)
    PROVE  evs[m] \in Event /\ evs[m].data \in Seq(Token)
<1>1. evs[m] \in Event
  OBVIOUS
<1>2. evs[m].data \in Piece
  BY <1>1 DEF Event
<1> QED BY <1>1, <1>2 DEF Piece

\* Such functions agree as far as they go.
LEMMA GrowsUnique ==
    ASSUME NEW evs \in Seq(Event), NEW p, NEW n \in 0 .. Len(evs),
           NEW k \in 0 .. n, NEW f, NEW g, Grows(evs, p, n, f),
           Grows(evs, p, k, g)
    PROVE  \A m \in 0 .. k : f[m] = g[m] /\ f[m] \in Seq(Token)
<1>n. n \in Nat /\ k \in Nat /\ k <= n /\ n <= Len(evs) /\ Len(evs) \in Nat
  OBVIOUS
<1>f. \A m \in 0 .. n : f[m] = IF m = 0 THEN <<>>
          ELSE IF evs[m].part = p THEN f[m - 1] \o evs[m].data ELSE f[m - 1]
  BY DEF Grows
<1>g. \A m \in 0 .. k : g[m] = IF m = 0 THEN <<>>
          ELSE IF evs[m].part = p THEN g[m - 1] \o evs[m].data ELSE g[m - 1]
  BY DEF Grows
<1> DEFINE S == {m \in Nat : m <= k => f[m] = g[m] /\ f[m] \in Seq(Token)}
<1>1. 0 \in S
  <2>1. f[0] = <<>> /\ g[0] = <<>>
    BY <1>n, <1>f, <1>g
  <2>2. <<>> \in Seq(Token)
    OBVIOUS
  <2> QED BY ONLY <2>1, <2>2
<1>2. ASSUME NEW m \in Nat, m \in S PROVE m + 1 \in S
  <2> SUFFICES ASSUME m + 1 <= k
               PROVE  f[m + 1] = g[m + 1] /\ f[m + 1] \in Seq(Token)
    OBVIOUS
  <2>1. /\ m + 1 \in 0 .. n /\ m + 1 \in 0 .. k /\ m + 1 # 0
        /\ (m + 1) - 1 = m /\ m <= k /\ m + 1 \in 1 .. Len(evs)
    BY <1>n
  <2>2. f[m] = g[m] /\ f[m] \in Seq(Token)
    BY <1>2, <2>1
  <2>3. evs[m + 1].data \in Seq(Token)
    BY <2>1, DataType
  <2>4. /\ f[m + 1] = IF evs[m + 1].part = p THEN f[m] \o evs[m + 1].data
                                             ELSE f[m]
        /\ g[m + 1] = IF evs[m + 1].part = p THEN g[m] \o evs[m + 1].data
                                             ELSE g[m]
    BY <1>f, <1>g, <2>1
  <2>5. f[m] \o evs[m + 1].data \in Seq(Token)
    BY <2>2, <2>3, ConcatProperties
  <2> QED BY <2>2, <2>4, <2>5
<1> HIDE DEF S
<1>3. Nat \subseteq S
  BY <1>1, <1>2, NatSetInduction
<1> QED BY <1>n, <1>3 DEF S

\* There is one for every number of events.
LEMMA GrowsExist ==
    ASSUME NEW evs, NEW p
    PROVE  \A n \in Nat : \E f : Grows(evs, p, n, f)
<1> DEFINE S == {n \in Nat : \E f : Grows(evs, p, n, f)}
<1>1. 0 \in S
  <2> DEFINE f == [m \in 0 .. 0 |-> <<>>]
  <2>1. f = [m \in 0 .. 0 |->
                IF m = 0 THEN <<>>
                ELSE IF evs[m].part = p THEN f[m - 1] \o evs[m].data
                ELSE f[m - 1]]
    OBVIOUS
  <2> HIDE DEF f
  <2> QED BY <2>1 DEF Grows
<1>2. ASSUME NEW n \in Nat, n \in S PROVE n + 1 \in S
  <2>1. PICK g : Grows(evs, p, n, g)
    BY <1>2
  <2>g. \A m \in 0 .. n : g[m] = IF m = 0 THEN <<>>
            ELSE IF evs[m].part = p THEN g[m - 1] \o evs[m].data ELSE g[m - 1]
    BY <2>1 DEF Grows
  <2> DEFINE x == IF evs[n + 1].part = p THEN g[n] \o evs[n + 1].data ELSE g[n]
             f == [m \in 0 .. n + 1 |-> IF m = n + 1 THEN x ELSE g[m]]
             h == [m \in 0 .. n + 1 |->
                      IF m = 0 THEN <<>>
                      ELSE IF evs[m].part = p THEN f[m - 1] \o evs[m].data
                      ELSE f[m - 1]]
  <2>2. ASSUME NEW m \in 0 .. n + 1 PROVE f[m] = h[m]
    <3> HIDE DEF x
    <3>1. CASE m = n + 1
      <4>1. m # 0 /\ m - 1 = n /\ n # n + 1 /\ n \in 0 .. n + 1
        BY <3>1
      <4>2. f[m] = x /\ f[m - 1] = g[n]
        BY <3>1, <4>1
      <4>3. h[m] = IF evs[m].part = p THEN f[m - 1] \o evs[m].data
                                      ELSE f[m - 1]
        BY <4>1
      <4> HIDE DEF f, h
      <4> QED BY <3>1, <4>2, <4>3 DEF x
    <3>2. CASE m = 0
      <4>1. m # n + 1 /\ m \in 0 .. n
        BY <3>2
      <4>2. f[m] = g[m] /\ g[m] = <<>> /\ h[m] = <<>>
        BY <2>g, <3>2, <4>1
      <4> QED BY <4>2
    <3>3. CASE m # 0 /\ m # n + 1
      <4>1. m \in 0 .. n /\ m - 1 \in 0 .. n + 1 /\ m - 1 # n + 1
        BY <3>3
      <4>2. f[m] = g[m] /\ f[m - 1] = g[m - 1]
        BY <3>3, <4>1
      <4>3. h[m] = IF evs[m].part = p THEN f[m - 1] \o evs[m].data
                                      ELSE f[m - 1]
        BY <3>3
      <4>4. g[m] = IF evs[m].part = p THEN g[m - 1] \o evs[m].data
                                      ELSE g[m - 1]
        BY <2>g, <3>3, <4>1
      <4> HIDE DEF f, h
      <4> QED BY <4>2, <4>3, <4>4
    <3> QED BY <3>1, <3>2, <3>3
  <2>3. f = h
    BY <2>2
  <2> HIDE DEF f
  <2>4. Grows(evs, p, n + 1, f)
    BY <2>3 DEF Grows
  <2> QED BY <2>4
<1> HIDE DEF S
<1>3. Nat \subseteq S
  BY <1>1, <1>2, NatSetInduction
<1> QED BY <1>3 DEF S

\* The one there is gives DataUpTo.
LEMMA DataIs ==
    ASSUME NEW evs \in Seq(Event), NEW p, NEW n \in 0 .. Len(evs), NEW f,
           Grows(evs, p, n, f)
    PROVE  DataUpTo(evs, p, n) = f[n] /\ f[n] \in Seq(Token)
<1> DEFINE e(s) == [m \in 0 .. n |->
                       IF m = 0 THEN <<>>
                       ELSE IF evs[m].part = p THEN s[m - 1] \o evs[m].data
                       ELSE s[m - 1]]
           g == CHOOSE s : s = e(s)
<1>1. DataUpTo(evs, p, n) = g[n]
  BY DEF DataUpTo
<1>2. f = e(f)
  BY DEF Grows
<1>3. g = e(g)
  BY <1>2
<1>4. Grows(evs, p, n, g)
  BY <1>3 DEF Grows
<1> HIDE DEF g
<1>5. n \in 0 .. n
  OBVIOUS
<1>6. \A m \in 0 .. n : g[m] = f[m] /\ g[m] \in Seq(Token)
  BY <1>4, <1>5, GrowsUnique
<1> QED BY <1>1, <1>5, <1>6

\* The data of a part: nothing at first, then what each of its events adds.
LEMMA DataSteps ==
    ASSUME NEW evs \in Seq(Event), NEW p
    PROVE  /\ DataUpTo(evs, p, 0) = <<>>
           /\ \A n \in 0 .. Len(evs) : DataUpTo(evs, p, n) \in Seq(Token)
           /\ \A n \in 1 .. Len(evs) :
                 DataUpTo(evs, p, n) =
                     IF evs[n].part = p
                       THEN DataUpTo(evs, p, n - 1) \o evs[n].data
                       ELSE DataUpTo(evs, p, n - 1)
<1>n. Len(evs) \in Nat
  OBVIOUS
<1>1. ASSUME NEW n \in 0 .. Len(evs)
      PROVE  DataUpTo(evs, p, n) \in Seq(Token)
  <2>1. n \in Nat
    BY <1>n
  <2>2. PICK f : Grows(evs, p, n, f)
    BY <2>1, GrowsExist
  <2> QED BY <2>2, DataIs
<1>2. DataUpTo(evs, p, 0) = <<>>
  <2>1. 0 \in Nat /\ 0 \in 0 .. Len(evs)
    BY <1>n
  <2>2. PICK f : Grows(evs, p, 0, f)
    BY <2>1, GrowsExist
  <2>3. f[0] = <<>>
    BY <2>2 DEF Grows
  <2> QED BY <2>1, <2>2, <2>3, DataIs
<1>3. ASSUME NEW n \in 1 .. Len(evs)
      PROVE  DataUpTo(evs, p, n) =
                 IF evs[n].part = p THEN DataUpTo(evs, p, n - 1) \o evs[n].data
                                    ELSE DataUpTo(evs, p, n - 1)
  <2>1. /\ n \in Nat /\ n - 1 \in Nat /\ n \in 0 .. Len(evs)
        /\ n - 1 \in 0 .. Len(evs) /\ n - 1 \in 0 .. n /\ n # 0 /\ n \in 0 .. n
        /\ n - 1 \in 0 .. n - 1
    BY <1>n
  <2>2. PICK f : Grows(evs, p, n, f)
    BY <2>1, GrowsExist
  <2>3. PICK g : Grows(evs, p, n - 1, g)
    BY <2>1, GrowsExist
  <2>4. DataUpTo(evs, p, n) = f[n]
    BY <2>1, <2>2, DataIs
  <2>5. DataUpTo(evs, p, n - 1) = g[n - 1]
    BY <2>1, <2>3, DataIs
  <2>6. f[n - 1] = g[n - 1]
    BY <2>1, <2>2, <2>3, GrowsUnique
  <2>7. f[n] = IF evs[n].part = p THEN f[n - 1] \o evs[n].data ELSE f[n - 1]
    BY <2>1, <2>2 DEF Grows
  <2> QED BY <2>4, <2>5, <2>6, <2>7
<1> QED BY <1>1, <1>2, <1>3

\* Events of other parts add nothing.
LEMMA DataKeeps ==
    ASSUME NEW evs \in Seq(Event), NEW p, NEW a \in Nat, NEW b \in Nat,
           a <= b, b <= Len(evs),
           \A j \in 1 .. Len(evs) : a < j /\ j <= b => evs[j].part # p
    PROVE  DataUpTo(evs, p, b) = DataUpTo(evs, p, a)
<1>n. Len(evs) \in Nat
  OBVIOUS
<1> DEFINE S == {m \in Nat : a + m <= b =>
                    DataUpTo(evs, p, a + m) = DataUpTo(evs, p, a)}
<1>1. 0 \in S
  OBVIOUS
<1>2. ASSUME NEW m \in Nat, m \in S PROVE m + 1 \in S
  <2> SUFFICES ASSUME a + (m + 1) <= b
               PROVE  DataUpTo(evs, p, a + (m + 1)) = DataUpTo(evs, p, a)
    OBVIOUS
  <2>1. PICK k \in Nat : k = a + (m + 1)
    OBVIOUS
  <2>2. k \in 1 .. Len(evs) /\ a < k /\ k <= b /\ k - 1 = a + m /\ a + m <= b
    BY <1>n, <2>1
  <2>3. evs[k].part # p
    BY <2>2
  <2>4. DataUpTo(evs, p, k) = DataUpTo(evs, p, k - 1)
    BY <2>2, <2>3, DataSteps
  <2>5. DataUpTo(evs, p, a + m) = DataUpTo(evs, p, a)
    BY <1>2, <2>2
  <2> QED BY <2>1, <2>2, <2>4, <2>5
<1> HIDE DEF S
<1>3. Nat \subseteq S
  BY <1>1, <1>2, NatSetInduction
<1>4. PICK m \in Nat : a + m = b
  <2>1. b - a \in Nat /\ a + (b - a) = b
    OBVIOUS
  <2> QED BY <2>1
<1>5. m \in S
  BY <1>3
<1> QED BY <1>4, <1>5 DEF S

\* Part follows part.
LEMMA PartsRise ==
    ASSUME NEW evs \in Seq(Event), Iterates(evs)
    PROVE  \A j \in 1 .. Len(evs) :
               /\ evs[j].part \in Nat
               /\ \A i \in 1 .. j : evs[i].part <= evs[j].part
<1>n. Len(evs) \in Nat /\ DOMAIN evs = 1 .. Len(evs)
  OBVIOUS
<1>t. \A j \in 1 .. Len(evs) : evs[j].part \in Nat
  <2>1. \A j \in 1 .. Len(evs) : evs[j] \in Event
    OBVIOUS
  <2> QED BY <2>1 DEF Event
<1>i. ASSUME NEW j \in 1 .. Len(evs)
      PROVE  /\ evs[j].off = 0 =>
                   \A i \in 1 .. j - 1 : evs[i].part < evs[j].part
             /\ evs[j].off # 0 => j # 1 /\ evs[j - 1].part = evs[j].part
  BY <1>n DEF Iterates
<1> DEFINE S == {m \in Nat : m <= Len(evs) =>
                    \A i \in 1 .. m : evs[i].part <= evs[m].part}
<1>1. 0 \in S
  OBVIOUS
<1>2. ASSUME NEW m \in Nat, m \in S PROVE m + 1 \in S
  <2> SUFFICES ASSUME m + 1 <= Len(evs), NEW i \in 1 .. m + 1
               PROVE  evs[i].part <= evs[m + 1].part
    OBVIOUS
  <2>1. /\ m + 1 \in 1 .. Len(evs) /\ m <= Len(evs) /\ (m + 1) - 1 = m
        /\ i \in 1 .. Len(evs) /\ (i = m + 1 \/ i \in 1 .. m)
    BY <1>n
  <2>2. evs[i].part \in Nat /\ evs[m + 1].part \in Nat
    BY <1>t, <2>1
  <2>3. CASE i = m + 1
    BY <2>2, <2>3
  <2>4. CASE i \in 1 .. m /\ evs[m + 1].off = 0
    <3>1. evs[i].part < evs[m + 1].part
      BY <1>i, <2>1, <2>4
    <3> QED BY <2>2, <3>1
  <2>5. CASE i \in 1 .. m /\ evs[m + 1].off # 0
    <3>1. evs[i].part <= evs[m].part
      BY <1>2, <2>1, <2>5
    <3>2. evs[m].part = evs[m + 1].part
      BY <1>i, <2>1, <2>5
    <3> QED BY <3>1, <3>2
  <2> QED BY <2>1, <2>3, <2>4, <2>5
<1> HIDE DEF S
<1>3. Nat \subseteq S
  BY <1>1, <1>2, NatSetInduction
<1>4. ASSUME NEW j \in 1 .. Len(evs), NEW i \in 1 .. j
      PROVE  evs[i].part <= evs[j].part
  <2>1. j \in Nat /\ j <= Len(evs)
    BY <1>n
  <2>2. j \in S
    BY <1>3, <2>1
  <2> QED BY <2>1, <2>2 DEF S
<1> QED BY <1>t, <1>4

\* When the next part begins, or the body ends, a part has all its data.
LEMMA PartOver ==
    ASSUME events \in Seq(Event), Iterates(events), NEW n \in Nat,
           n <= Len(events), NEW s \in 1 .. n,
           n = Len(events) \/ events[n + 1].off = 0
    PROVE  DataUpTo(events, events[s].part, n) = PartData(events[s].part)
<1>n. Len(events) \in Nat /\ DOMAIN events = 1 .. Len(events)
  OBVIOUS
<1>1. ASSUME NEW j \in 1 .. Len(events), n < j
      PROVE  events[j].part # events[s].part
  <2>1. /\ n + 1 \in 1 .. Len(events) /\ n # Len(events) /\ n + 1 \in 1 .. j
        /\ s \in 1 .. (n + 1) - 1 /\ s \in 1 .. Len(events)
    <3>1. PICK m \in Nat : m = Len(events)
      BY <1>n
    <3>2. j \in 1 .. m /\ n < j /\ n \in Nat /\ s \in 1 .. n
      BY <1>1, <3>1
    <3>3. /\ n + 1 \in 1 .. m /\ n # m /\ n + 1 \in 1 .. j
          /\ s \in 1 .. (n + 1) - 1 /\ s \in 1 .. m
      BY ONLY <3>1, <3>2
    <3> QED BY <3>1, <3>3
  <2>2. events[s].part < events[n + 1].part
    BY <1>n, <2>1 DEF Iterates
  <2>3. events[n + 1].part <= events[j].part
    BY <2>1, PartsRise
  <2>4. /\ events[s].part \in Nat /\ events[n + 1].part \in Nat
        /\ events[j].part \in Nat
    BY <2>1, PartsRise
  <2> QED BY <2>2, <2>3, <2>4
<1>2. \A j \in 1 .. Len(events) :
          n < j /\ j <= Len(events) => events[j].part # events[s].part
  BY <1>1
<1>3. Len(events) <= Len(events)
  BY ONLY <1>n
<1> QED BY <1>n, <1>2, <1>3, DataKeeps DEF PartData

\* When a part begins it has no data yet.
LEMMA PartBegins ==
    ASSUME events \in Seq(Event), Iterates(events), NEW n \in Nat,
           n + 1 <= Len(events), events[n + 1].off = 0
    PROVE  DataUpTo(events, events[n + 1].part, n) = <<>>
<1>n. Len(events) \in Nat /\ DOMAIN events = 1 .. Len(events)
  OBVIOUS
<1>1. n + 1 \in 1 .. Len(events) /\ (n + 1) - 1 = n /\ n <= Len(events)
  BY <1>n
<1>2. ASSUME NEW j \in 1 .. Len(events), 0 < j, j <= n
      PROVE  events[j].part # events[n + 1].part
  <2>1. j \in 1 .. (n + 1) - 1
    BY <1>n, <1>2
  <2>2. events[j].part < events[n + 1].part
    BY <1>n, <1>1, <2>1 DEF Iterates
  <2>3. events[j].part \in Nat /\ events[n + 1].part \in Nat
    BY <1>1, PartsRise
  <2> QED BY <2>2, <2>3
<1>3. DataUpTo(events, events[n + 1].part, n) =
          DataUpTo(events, events[n + 1].part, 0)
  BY <1>1, <1>2, DataKeeps
<1> QED BY <1>3, DataSteps

\* Of the named parts up to n, the one that begins at s is the last.
LEMMA StartsMore ==
    ASSUME events \in Seq(Event), Iterates(events), NEW n \in Nat,
           n <= Len(events), NEW s \in 1 .. n, Begins(s, n),
           NEW b \in BOOLEAN
    PROVE  {i \in Starts(b) : i < n + 1} =
               {i \in Starts(b) : i < s} \cup ({s} \cap Starts(b))
<1>n. Len(events) \in Nat /\ DOMAIN events = 1 .. Len(events)
  OBVIOUS
<1>1. ASSUME NEW i \in Starts(b), i < n + 1, ~(i < s) PROVE i = s
  <2> SUFFICES ASSUME i # s PROVE FALSE
    OBVIOUS
  <2>1. i \in 1 .. Len(events) /\ events[i].off = 0 /\ events[i].key # None
    BY <1>n DEF Starts
  <2>2. i \in s .. n /\ s \in 1 .. i - 1 /\ s \in 1 .. Len(events)
    BY <1>n, <1>1, <2>1
  <2>3. events[i].part = events[s].part
    BY <2>1, <2>2 DEF Begins
  <2>4. events[s].part < events[i].part
    BY <1>n, <2>1, <2>2 DEF Iterates
  <2>5. events[s].part \in Nat
    BY <2>2, PartsRise
  <2> QED BY <2>3, <2>4, <2>5
<1>2. Starts(b) \subseteq Nat
  BY <1>n DEF Starts
<1>3. \A i \in Starts(b) : i < s \/ i = s => i < n + 1
  BY <1>2
<1> QED BY <1>1, <1>3

\* Without a named part among the first n events, none has begun.
LEMMA StartsNone ==
    ASSUME events \in Seq(Event), NEW n \in Nat, n <= Len(events),
           \A j \in 1 .. n : events[j].key = None, NEW b \in BOOLEAN
    PROVE  {i \in Starts(b) : i < n + 1} = {i \in Starts(b) : i < 0}
<1>n. Len(events) \in Nat /\ DOMAIN events = 1 .. Len(events)
  OBVIOUS
<1>1. ASSUME NEW i \in Starts(b) PROVE ~(i < n + 1) /\ ~(i < 0)
  <2>1. i \in 1 .. Len(events) /\ events[i].key # None
    BY <1>n DEF Starts
  <2> QED BY <1>n, <2>1
<1> QED BY <1>1

\* A text buffer is known to be empty only behind a named text.
LEMMA NotAfterText ==
    ASSUME events \in Seq(Event), Iterates(events), NEW n \in Nat,
           n + 1 <= Len(events), NEW s \in 1 .. n, Begins(s, n),
           events[n + 1].off = 0, AfterText(events[n + 1].part)
    PROVE  ~events[s].file /\ events[s].key # Empty
<1>n. Len(events) \in Nat /\ DOMAIN events = 1 .. Len(events)
  OBVIOUS
<1>1. /\ n + 1 \in 1 .. Len(events) /\ (n + 1) - 1 = n
      /\ s \in 1 .. Len(events) /\ s \in s .. n
  BY <1>n
<1>p. \A j \in 1 .. Len(events) : events[j].part \in Nat
  BY PartsRise
<1>2. events[s].part < events[n + 1].part /\ events[s].key # None
  BY <1>n, <1>1 DEF Iterates, Begins
<1>3. ASSUME NEW j \in s + 1 .. Len(events), events[j].part < events[n + 1].part
      PROVE  events[j].part = events[s].part \/ events[j].key = None
  <2>1. j \in 1 .. Len(events)
    BY <1>n
  <2>2. CASE j <= n
    <3>1. j \in s .. n
      BY <1>n, <2>2
    <3> QED BY <3>1 DEF Begins
  <2>3. CASE ~(j <= n)
    <3>1. n + 1 \in 1 .. j
      BY <1>n, <2>1, <2>3
    <3>2. events[n + 1].part <= events[j].part
      BY <2>1, <3>1, PartsRise
    <3> QED BY <1>3, <1>p, <1>1, <2>1, <3>2
  <2> QED BY <2>2, <2>3
<1> QED BY <1>1, <1>2, <1>3 DEF AfterText

\* Sets that correspond one to one are of the same size.
LEMMA SameCount ==
    ASSUME NEW S, IsFiniteSet(S), NEW T, NEW g,
           \A x \in S : g[x] \in T,
           \A x, y \in S : g[x] = g[y] => x = y,
           \A t \in T : \E x \in S : g[x] = t
    PROVE  Cardinality(T) = Cardinality(S)
<1> DEFINE h == [x \in S |-> g[x]]
<1>1. h \in Bijection(S, T)
  BY DEF Bijection, Injection, Surjection, IsInjective
<1>2. ExistsBijection(S, T)
  BY <1>1 DEF ExistsBijection
<1> QED BY <1>2, FS_Bijection

\* The list of uploads is about the same parts, and its files are untouched.
LEMMA FiledSame ==
    ASSUME NEW fs, NEW cts, NEW ctt, NEW s, NEW t, Filed(fs, cts, s),
           {i \in Starts(TRUE) : i < t} = {i \in Starts(TRUE) : i < s},
           \A o \in 1 .. Len(fs) : ctt[fs[o].path] = cts[fs[o].path]
    PROVE  Filed(fs, ctt, t)
<1>1. PICK g \in [1 .. Len(fs) -> DOMAIN events] :
        /\ \A o, q \in 1 .. Len(fs) : o < q => g[q] < g[o]
        /\ {g[o] : o \in 1 .. Len(fs)} = {i \in Starts(TRUE) : i < s}
        /\ \A o \in 1 .. Len(fs) :
              /\ fs[o].key = events[g[o]].key
              /\ cts[fs[o].path] = PartData(events[g[o]].part)
              /\ fs[o].size = Len(cts[fs[o].path])
  BY DEF Filed
<1>2. {g[o] : o \in 1 .. Len(fs)} = {i \in Starts(TRUE) : i < t}
  BY <1>1
<1>3. ASSUME NEW o \in 1 .. Len(fs)
      PROVE  /\ fs[o].key = events[g[o]].key
             /\ ctt[fs[o].path] = PartData(events[g[o]].part)
             /\ fs[o].size = Len(ctt[fs[o].path])
  BY <1>1
<1> QED BY <1>1, <1>2, <1>3 DEF Filed

\* The upload of the part that begins at s is put in front.
LEMMA FiledMore ==
    ASSUME NEW fs \in Seq(File), NEW f \in File, NEW cts, NEW s, NEW t,
           events \in Seq(Event), Filed(fs, cts, s), s \in 1 .. Len(events),
           {i \in Starts(TRUE) : i < t} = {i \in Starts(TRUE) : i < s} \cup {s},
           f.key = events[s].key, cts[f.path] = PartData(events[s].part),
           f.size = Len(cts[f.path])
    PROVE  Filed(<<f>> \o fs, cts, t)
<1>1. PICK g \in [1 .. Len(fs) -> DOMAIN events] :
        /\ \A o, q \in 1 .. Len(fs) : o < q => g[q] < g[o]
        /\ {g[o] : o \in 1 .. Len(fs)} = {i \in Starts(TRUE) : i < s}
        /\ \A o \in 1 .. Len(fs) :
              /\ fs[o].key = events[g[o]].key
              /\ cts[fs[o].path] = PartData(events[g[o]].part)
              /\ fs[o].size = Len(cts[fs[o].path])
  BY DEF Filed
<1> DEFINE fs2 == <<f>> \o fs
<1>n. Len(fs) \in Nat /\ DOMAIN events = 1 .. Len(events)
  OBVIOUS
<1>2. /\ Len(fs2) = Len(fs) + 1 /\ fs2[1] = f
      /\ \A o \in 1 .. Len(fs) : fs2[o + 1] = fs[o]
  OBVIOUS
<1> HIDE DEF fs2
<1> DEFINE h == [o \in 1 .. Len(fs) + 1 |-> IF o = 1 THEN s ELSE g[o - 1]]
<1>3. /\ h[1] = s /\ 1 \in 1 .. Len(fs) + 1
      /\ \A o \in 1 .. Len(fs) : h[o + 1] = g[o] /\ o + 1 \in 1 .. Len(fs) + 1
  BY <1>n
<1>4. \A o \in 1 .. Len(fs) + 1 :
          o = 1 \/ (o - 1 \in 1 .. Len(fs) /\ o = (o - 1) + 1)
  BY <1>n
<1>5. h \in [1 .. Len(fs) + 1 -> DOMAIN events]
  <2>1. \A o \in 1 .. Len(fs) + 1 :
            (IF o = 1 THEN s ELSE g[o - 1]) \in DOMAIN events
    BY <1>n, <1>1, <1>4
  <2> QED BY <2>1
<1> HIDE DEF h
<1>6. \A o \in 1 .. Len(fs) : g[o] < s
  BY <1>1
<1>7. ASSUME NEW o \in 1 .. Len(fs) + 1, NEW q \in 1 .. Len(fs) + 1, o < q
      PROVE  h[q] < h[o]
  <2>1. q - 1 \in 1 .. Len(fs) /\ q = (q - 1) + 1 /\ h[q] = g[q - 1]
    <3>1. q # 1
      BY <1>n, <1>7
    <3>2. q - 1 \in 1 .. Len(fs) /\ q = (q - 1) + 1
      BY <1>4, <3>1
    <3> QED BY <1>3, <3>2
  <2>2. CASE o = 1
    BY <1>3, <1>6, <2>1, <2>2
  <2>3. CASE o # 1
    <3>1. o - 1 \in 1 .. Len(fs) /\ o = (o - 1) + 1 /\ o - 1 < q - 1
      BY <1>n, <1>7, <2>3
    <3>2. h[o] = g[o - 1]
      BY <1>3, <3>1
    <3>3. g[q - 1] < g[o - 1]
      BY <1>1, <2>1, <3>1
    <3> QED BY <2>1, <3>2, <3>3
  <2> QED BY <2>2, <2>3
<1>8. {h[o] : o \in 1 .. Len(fs) + 1} = {i \in Starts(TRUE) : i < t}
  <2>1. ASSUME NEW o \in 1 .. Len(fs) + 1
        PROVE  h[o] \in {g[q] : q \in 1 .. Len(fs)} \cup {s}
    <3>1. CASE o = 1
      BY <1>3, <3>1
    <3>2. CASE o - 1 \in 1 .. Len(fs) /\ o = (o - 1) + 1
      <4>1. h[o] = g[o - 1]
        BY <1>3, <3>2
      <4> QED BY <3>2, <4>1
    <3> QED BY <1>4, <3>1, <3>2
  <2>2. ASSUME NEW o \in 1 .. Len(fs)
        PROVE  g[o] \in {h[q] : q \in 1 .. Len(fs) + 1}
    BY <1>3
  <2>3. s \in {h[q] : q \in 1 .. Len(fs) + 1}
    BY <1>3
  <2>4. {h[o] : o \in 1 .. Len(fs) + 1} = {g[o] : o \in 1 .. Len(fs)} \cup {s}
    BY <2>1, <2>2, <2>3
  <2> QED BY <1>1, <2>4
<1>9. ASSUME NEW o \in 1 .. Len(fs) + 1
      PROVE  /\ fs2[o].key = events[h[o]].key
             /\ cts[fs2[o].path] = PartData(events[h[o]].part)
             /\ fs2[o].size = Len(cts[fs2[o].path])
  <2>1. CASE o = 1
    BY <1>2, <1>3, <2>1
  <2>2. CASE o # 1
    <3>1. o - 1 \in 1 .. Len(fs) /\ fs2[o] = fs[o - 1] /\ h[o] = g[o - 1]
      BY <1>2, <1>3, <1>4, <2>2
    <3> QED BY <1>1, <3>1
  <2> QED BY <2>1, <2>2
<1>10. Filed(fs2, cts, t)
  <2>1. PICK m : m = Len(fs) + 1
    OBVIOUS
  <2>2. /\ h \in [1 .. m -> DOMAIN events] /\ Len(fs2) = m
        /\ {h[o] : o \in 1 .. m} = {i \in Starts(TRUE) : i < t}
    BY <1>2, <1>5, <1>8, <2>1
  <2>3. \A o, q \in 1 .. m : o < q => h[q] < h[o]
    BY <1>7, <2>1
  <2>4. \A o \in 1 .. m : /\ fs2[o].key = events[h[o]].key
                          /\ cts[fs2[o].path] = PartData(events[h[o]].part)
                          /\ fs2[o].size = Len(cts[fs2[o].path])
    BY <1>9, <2>1
  <2> QED BY ONLY <2>2, <2>3, <2>4 DEF Filed
<1> QED BY <1>10 DEF fs2

\* The form is about the same parts.
LEMMA FormedSame ==
    ASSUME NEW fm, NEW s, NEW t, Formed(fm, s),
           {i \in Starts(FALSE) : i < t} = {i \in Starts(FALSE) : i < s}
    PROVE  Formed(fm, t)
  BY DEF Formed

\* An entry of the form.
FormEntry == (Keys \cup {Empty}) \X Seq(Token)

\* The entry of the part that begins at s is put behind.
LEMMA FormedMore ==
    ASSUME NEW fm \in Seq(FormEntry), NEW e \in FormEntry, NEW s, NEW t,
           events \in Seq(Event), Formed(fm, s), s \in 1 .. Len(events),
           {i \in Starts(FALSE) : i < t} =
               {i \in Starts(FALSE) : i < s} \cup {s},
           e[1] = events[s].key,
           AfterText(events[s].part) => e[2] = PartData(events[s].part)
    PROVE  Formed(Append(fm, e), t)
<1>1. PICK g \in [1 .. Len(fm) -> DOMAIN events] :
        /\ \A o, q \in 1 .. Len(fm) : o < q => g[o] < g[q]
        /\ {g[o] : o \in 1 .. Len(fm)} = {i \in Starts(FALSE) : i < s}
        /\ \A o \in 1 .. Len(fm) :
              /\ fm[o][1] = events[g[o]].key
              /\ AfterText(events[g[o]].part) =>
                    fm[o][2] = PartData(events[g[o]].part)
  BY DEF Formed
<1> DEFINE fm2 == Append(fm, e)
<1>n. Len(fm) \in Nat /\ DOMAIN events = 1 .. Len(events)
  OBVIOUS
<1>2. /\ Len(fm2) = Len(fm) + 1 /\ fm2[Len(fm) + 1] = e
      /\ \A o \in 1 .. Len(fm) : fm2[o] = fm[o]
  BY AppendProperties
<1> HIDE DEF fm2
<1> DEFINE h == [o \in 1 .. Len(fm) + 1 |-> IF o = Len(fm) + 1 THEN s ELSE g[o]]
<1>3. /\ h[Len(fm) + 1] = s /\ Len(fm) + 1 \in 1 .. Len(fm) + 1
      /\ \A o \in 1 .. Len(fm) : h[o] = g[o] /\ o \in 1 .. Len(fm) + 1
  BY <1>n
<1>4. \A o \in 1 .. Len(fm) + 1 : o = Len(fm) + 1 \/ o \in 1 .. Len(fm)
  BY <1>n
<1>5. h \in [1 .. Len(fm) + 1 -> DOMAIN events]
  <2>1. \A o \in 1 .. Len(fm) + 1 :
            (IF o = Len(fm) + 1 THEN s ELSE g[o]) \in DOMAIN events
    BY <1>n, <1>1, <1>4
  <2> QED BY <2>1
<1> HIDE DEF h
<1>6. \A o \in 1 .. Len(fm) : g[o] < s
  BY <1>1
<1>7. ASSUME NEW o \in 1 .. Len(fm) + 1, NEW q \in 1 .. Len(fm) + 1, o < q
      PROVE  h[o] < h[q]
  <2>1. o \in 1 .. Len(fm)
    BY <1>n, <1>7
  <2>2. CASE q = Len(fm) + 1
    BY <1>3, <1>6, <2>1, <2>2
  <2>3. CASE q \in 1 .. Len(fm)
    BY <1>1, <1>3, <1>7, <2>1, <2>3
  <2> QED BY <1>4, <2>2, <2>3
<1>8. {h[o] : o \in 1 .. Len(fm) + 1} = {i \in Starts(FALSE) : i < t}
  <2>1. {h[o] : o \in 1 .. Len(fm) + 1} = {g[o] : o \in 1 .. Len(fm)} \cup {s}
    BY <1>3, <1>4
  <2> QED BY <1>1, <2>1
<1>9. ASSUME NEW o \in 1 .. Len(fm) + 1
      PROVE  /\ fm2[o][1] = events[h[o]].key
             /\ AfterText(events[h[o]].part) =>
                   fm2[o][2] = PartData(events[h[o]].part)
  <2>1. CASE o = Len(fm) + 1
    BY <1>2, <1>3, <2>1
  <2>2. CASE o \in 1 .. Len(fm)
    <3>1. fm2[o] = fm[o] /\ h[o] = g[o]
      BY <1>2, <1>3, <2>2
    <3> QED BY <1>1, <2>2, <3>1
  <2> QED BY <1>4, <2>1, <2>2
<1>10. Formed(fm2, t)
  <2>1. PICK m : m = Len(fm) + 1
    OBVIOUS
  <2>2. /\ h \in [1 .. m -> DOMAIN events] /\ Len(fm2) = m
        /\ {h[o] : o \in 1 .. m} = {i \in Starts(FALSE) : i < t}
    BY <1>2, <1>5, <1>8, <2>1
  <2>3. \A o, q \in 1 .. m : o < q => h[o] < h[q]
    BY <1>7, <2>1
  <2>4. \A o \in 1 .. m : /\ fm2[o][1] = events[h[o]].key
                          /\ AfterText(events[h[o]].part) =>
                                fm2[o][2] = PartData(events[h[o]].part)
    BY <1>9, <2>1
  <2> QED BY ONLY <2>2, <2>3, <2>4 DEF Formed
<1> QED BY <1>10 DEF fm2

\* The places counted are a finite set.
LEMMA StartsFinite ==
    ASSUME events \in Seq(Event), NEW b
    PROVE  /\ Starts(b) \subseteq 1 .. Len(events) /\ IsFiniteSet(Starts(b))
           /\ Starts(b) \subseteq Nat
           /\ {i \in Starts(b) : i < Len(events) + 1} = Starts(b)
<1>n. Len(events) \in Nat /\ DOMAIN events = 1 .. Len(events)
  OBVIOUS
<1>1. Starts(b) \subseteq 1 .. Len(events)
  BY <1>n DEF Starts
<1>2. IsFiniteSet(1 .. Len(events))
  <2>1. 1 \in Int /\ Len(events) \in Int
    BY <1>n
  <2> QED BY ONLY <2>1, FS_Interval
<1>3. IsFiniteSet(Starts(b))
  BY <1>1, <1>2, FS_Subset
<1>4. Starts(b) \subseteq Nat
  BY <1>n, <1>1
<1>5. {i \in Starts(b) : i < Len(events) + 1} = Starts(b)
  <2>1. PICK m \in Nat : m = Len(events)
    BY <1>n
  <2>2. \A i \in 1 .. m : i < m + 1
    BY ONLY <2>1
  <2>3. \A i \in Starts(b) : i < Len(events) + 1
    BY <1>1, <2>1, <2>2
  <2> QED BY ONLY <2>3
<1> QED BY <1>1, <1>3, <1>4, <1>5

\* A form made of the parts in order says of each what FormKeepsFields asks.
LEMMA FormIsRight ==
    ASSUME events \in Seq(Event), NEW fm \in Seq(FormEntry),
           Formed(fm, Len(events) + 1)
    PROVE  /\ Len(fm) = Cardinality(Starts(FALSE))
           /\ \A i \in Starts(FALSE) :
                 LET entry == fm[Number(i, Starts(FALSE))] IN
                 /\ entry[1] = events[i].key
                 /\ AfterText(events[i].part) =>
                       entry[2] = PartData(events[i].part)
<1> DEFINE texts == Starts(FALSE)
<1>n. Len(fm) \in Nat /\ Len(events) \in Nat
  OBVIOUS
<1>t. texts \subseteq 1 .. Len(events) /\ texts \subseteq Nat
  BY StartsFinite
<1>1. {i \in texts : i < Len(events) + 1} = texts
  BY StartsFinite
<1>2. PICK g \in [1 .. Len(fm) -> DOMAIN events] :
        /\ \A o, q \in 1 .. Len(fm) : o < q => g[o] < g[q]
        /\ {g[o] : o \in 1 .. Len(fm)} = texts
        /\ \A o \in 1 .. Len(fm) :
              /\ fm[o][1] = events[g[o]].key
              /\ AfterText(events[g[o]].part) =>
                    fm[o][2] = PartData(events[g[o]].part)
  BY <1>1 DEF Formed
<1> HIDE DEF texts
<1>3. \A o \in 1 .. Len(fm) : g[o] \in texts /\ g[o] \in Nat
  BY <1>2, <1>t
<1>4. \A t \in texts : \E o \in 1 .. Len(fm) : g[o] = t
  BY <1>2
<1>5. ASSUME NEW o \in 1 .. Len(fm), NEW q \in 1 .. Len(fm)
      PROVE  o <= q <=> g[o] <= g[q]
  <2>1. g[o] \in Nat /\ g[q] \in Nat /\ o \in Nat /\ q \in Nat
    BY <1>3
  <2>2. (o < q => g[o] < g[q]) /\ (q < o => g[q] < g[o])
    BY <1>2
  <2>3. o < q \/ o = q \/ q < o
    BY <2>1
  <2> QED BY ONLY <2>1, <2>2, <2>3
<1>6. ASSUME NEW o \in 1 .. Len(fm), NEW q \in 1 .. Len(fm), g[o] = g[q]
      PROVE  o = q
  <2>1. o <= q /\ q <= o
    <3>1. g[o] <= g[q] /\ g[q] <= g[o]
      BY <1>3, <1>6
    <3> QED BY <1>5, <3>1
  <2> QED BY <2>1
<1>7. ASSUME NEW m \in 0 .. Len(fm)
      PROVE  IsFiniteSet(1 .. m) /\ Cardinality(1 .. m) = m
  <2>1. 1 \in Int /\ m \in Int /\ m \in Nat
    BY <1>n
  <2> QED BY ONLY <2>1, FS_Interval
<1>8. Cardinality(texts) = Len(fm)
  <2>1. Len(fm) \in 0 .. Len(fm)
    BY <1>n
  <2>2. IsFiniteSet(1 .. Len(fm)) /\ Cardinality(1 .. Len(fm)) = Len(fm)
    BY <1>7, <2>1
  <2>3. Cardinality(texts) = Cardinality(1 .. Len(fm))
    BY ONLY <1>3, <1>4, <1>6, <2>2, SameCount
  <2> QED BY <2>2, <2>3
<1>9. ASSUME NEW i \in texts
      PROVE  \E o \in 1 .. Len(fm) : g[o] = i /\ Number(i, texts) = o
  <2>1. PICK o \in 1 .. Len(fm) : g[o] = i
    BY <1>4
  <2> DEFINE T == {j \in texts : j <= i}
  <2>2. o \in 0 .. Len(fm) /\ \A q \in 1 .. o : q \in 1 .. Len(fm) /\ q <= o
    BY <1>n
  <2>3. \A q \in 1 .. o : g[q] \in T
    BY <1>3, <1>5, <2>1, <2>2
  <2>4. \A p, q \in 1 .. o : g[p] = g[q] => p = q
    BY <1>6, <2>2
  <2>5. ASSUME NEW j \in T PROVE \E q \in 1 .. o : g[q] = j
    <3>1. PICK q \in 1 .. Len(fm) : g[q] = j
      BY <1>4
    <3>2. q <= o
      BY <1>5, <2>1, <3>1
    <3>3. q \in 1 .. o
      BY <3>2
    <3> QED BY <3>1, <3>3
  <2>6. IsFiniteSet(1 .. o) /\ Cardinality(1 .. o) = o
    BY <1>7, <2>2
  <2> HIDE DEF T
  <2>7. Cardinality(T) = Cardinality(1 .. o)
    BY ONLY <2>3, <2>4, <2>5, <2>6, SameCount
  <2>8. Number(i, texts) = o
    BY <2>6, <2>7 DEF Number, T
  <2> QED BY <2>1, <2>8
<1>10. ASSUME NEW i \in texts
       PROVE  /\ fm[Number(i, texts)][1] = events[i].key
              /\ AfterText(events[i].part) =>
                    fm[Number(i, texts)][2] = PartData(events[i].part)
  <2>1. PICK o \in 1 .. Len(fm) : g[o] = i /\ Number(i, texts) = o
    BY <1>9
  <2> QED BY <1>2, <2>1
<1> QED BY <1>8, <1>10 DEF texts

\* How many of S there are from o on.
Behind(S, o) == Cardinality({q \in S : q >= o})

\* Of a finite set of numbers no two have as many from them on.
LEMMA RankUnique ==
    ASSUME NEW S, S \subseteq Nat, IsFiniteSet(S), NEW o \in S, NEW p \in S,
           Behind(S, o) = Behind(S, p)
    PROVE  o = p
<1>1. ASSUME NEW x \in S, NEW y \in S, x < y
      PROVE  Cardinality({q \in S : q >= y}) < Cardinality({q \in S : q >= x})
  <2> DEFINE X == {q \in S : q >= x}
             Y == {q \in S : q >= y}
  <2>1. x \in Nat /\ y \in Nat
    OBVIOUS
  <2>2. \A q \in S : q >= y => q >= x
    BY <1>1, <2>1
  <2>3. x \in X /\ x \notin Y /\ Y \subseteq X
    <3>1. x >= x /\ ~(x >= y)
      BY <1>1, <2>1
    <3>2. x \in X /\ x \notin Y
      BY <3>1
    <3>3. Y \subseteq X
      BY <2>2
    <3> QED BY <3>2, <3>3
  <2>4. IsFiniteSet(X)
    <3>1. X \subseteq S
      OBVIOUS
    <3> HIDE DEF X
    <3> QED BY <3>1, FS_Subset
  <2> HIDE DEF X, Y
  <2>5. Cardinality(Y) <= Cardinality(X)
    BY <2>3, <2>4, FS_Subset
  <2>6. Cardinality(Y) = Cardinality(X) => Y = X
    BY <2>3, <2>4, FS_Subset
  <2>7. Cardinality(Y) # Cardinality(X)
    BY <2>3, <2>6
  <2>8. Cardinality(X) \in Nat /\ Cardinality(Y) \in Nat
    BY <2>3, <2>4, FS_Subset, FS_CardinalityType
  <2>9. Cardinality(Y) < Cardinality(X)
    BY ONLY <2>5, <2>7, <2>8
  <2> QED BY <2>9 DEF X, Y
<1>2. Cardinality({q \in S : q >= o}) \in Nat
  <2>1. IsFiniteSet({q \in S : q >= o})
    <3>1. {q \in S : q >= o} \subseteq S
      OBVIOUS
    <3> QED BY <3>1, FS_Subset
  <2> QED BY <2>1, FS_CardinalityType
<1>3. ~(o < p) /\ ~(p < o)
  <2>1. PICK c \in Nat : c = Cardinality({q \in S : q >= o})
    BY <1>2
  <2>2. o < p => c < c
    BY <1>1, <2>1 DEF Behind
  <2>3. p < o => c < c
    BY <1>1, <2>1 DEF Behind
  <2> QED BY ONLY <2>1, <2>2, <2>3
<1> QED BY <1>3

\* Uploads in the order in which they came, the newest first, are what
\* FilesExact asks papago_req_files for.
LEMMA FilesAreRight ==
    ASSUME events \in Seq(Event), files \in Seq(File),
           Filed(files, contents, Len(events) + 1), NEW k, NEW max_out \in Nat
    PROVE  LET out == papago_req_files(k, max_out)
               sentFiles == {i \in Starts(TRUE) : events[i].key = k}
               count == Cardinality(sentFiles)
           IN  /\ Len(out) = IF count > max_out THEN max_out ELSE count
               /\ \A i \in sentFiles :
                     LET n == Number(i, sentFiles) IN
                     n <= max_out =>
                         /\ contents[out[n].path] = PartData(events[i].part)
                         /\ out[n].size = Len(contents[out[n].path])
<1> DEFINE out == papago_req_files(k, max_out)
           named == {o \in DOMAIN files : files[o].key = k}
           sentFiles == {i \in Starts(TRUE) : events[i].key = k}
           count == Cardinality(sentFiles)
           least == IF count > max_out THEN max_out ELSE count
<1>n. /\ Len(files) \in Nat /\ Len(events) \in Nat
      /\ DOMAIN files = 1 .. Len(files)
  OBVIOUS
<1>t. /\ Starts(TRUE) \subseteq 1 .. Len(events) /\ Starts(TRUE) \subseteq Nat
      /\ IsFiniteSet(Starts(TRUE))
  BY StartsFinite
<1>1. {i \in Starts(TRUE) : i < Len(events) + 1} = Starts(TRUE)
  BY StartsFinite
<1>2. PICK g \in [1 .. Len(files) -> DOMAIN events] :
        /\ \A o, q \in 1 .. Len(files) : o < q => g[q] < g[o]
        /\ {g[o] : o \in 1 .. Len(files)} = Starts(TRUE)
        /\ \A o \in 1 .. Len(files) :
              /\ files[o].key = events[g[o]].key
              /\ contents[files[o].path] = PartData(events[g[o]].part)
              /\ files[o].size = Len(contents[files[o].path])
  BY <1>1 DEF Filed
<1>3. /\ named \subseteq 1 .. Len(files) /\ named \subseteq Nat
      /\ sentFiles \subseteq Starts(TRUE) /\ sentFiles \subseteq Nat
  <2>1. named \subseteq 1 .. Len(files) /\ sentFiles \subseteq Starts(TRUE)
    BY <1>n
  <2>2. 1 .. Len(files) \subseteq Nat
    BY <1>n
  <2> HIDE DEF named, sentFiles
  <2> QED BY <1>t, <2>1, <2>2
<1>f. IsFiniteSet(named)
  <2>1. 1 \in Int /\ Len(files) \in Int
    BY <1>n
  <2>2. IsFiniteSet(1 .. Len(files))
    BY ONLY <2>1, FS_Interval
  <2> HIDE DEF named
  <2> QED BY ONLY <1>3, <2>2, FS_Subset
<1>4. \A o \in named : g[o] \in sentFiles /\ g[o] \in Nat
  BY <1>2, <1>3
<1>5. ASSUME NEW t \in sentFiles PROVE \E o \in named : g[o] = t
  <2>1. t \in {g[o] : o \in 1 .. Len(files)} /\ events[t].key = k
    BY <1>2
  <2>2. PICK o \in 1 .. Len(files) : g[o] = t
    BY <2>1
  <2>3. o \in named
    BY <1>n, <1>2, <2>1, <2>2
  <2> QED BY <2>2, <2>3
<1> HIDE DEF sentFiles
<1>6. ASSUME NEW o \in named, NEW q \in named
      PROVE  /\ q >= o <=> g[q] <= g[o]
             /\ g[o] = g[q] => o = q
  <2>1. g[o] \in Nat /\ g[q] \in Nat /\ o \in Nat /\ q \in Nat
    BY <1>3, <1>4
  <2>2. (o < q => g[q] < g[o]) /\ (q < o => g[o] < g[q])
    BY <1>2, <1>3
  <2> HIDE DEF named
  <2>3. o < q \/ o = q \/ q < o
    BY <2>1
  <2> QED BY ONLY <2>1, <2>2, <2>3
<1>7. Cardinality(named) = count /\ IsFiniteSet(sentFiles) /\ count \in Nat
  <2>1. \A x, y \in named : g[x] = g[y] => x = y
    BY <1>6
  <2> HIDE DEF named
  <2>2. Cardinality(sentFiles) = Cardinality(named)
    BY ONLY <1>4, <1>5, <1>f, <2>1, SameCount
  <2>3. IsFiniteSet(sentFiles)
    BY ONLY <1>3, <1>t, FS_Subset
  <2>4. Cardinality(sentFiles) \in Nat
    BY ONLY <2>3, FS_CardinalityType
  <2> QED BY <2>2, <2>3, <2>4
<1>8. out = [i \in 1 .. least |->
                files[CHOOSE o \in named :
                          Cardinality({q \in named : q >= o}) = i]]
  <2> DEFINE c == Cardinality(named)
  <2>1. out = [i \in 1 .. (IF c > max_out THEN max_out ELSE c) |->
                files[CHOOSE o \in named :
                          Cardinality({q \in named : q >= o}) = i]]
    BY DEF papago_req_files
  <2> HIDE DEF named, out
  <2>2. c = count
    BY <1>7
  <2> HIDE DEF c
  <2> QED BY <2>1, <2>2
<1> HIDE DEF named, out
<1>9. /\ least \in Nat /\ least <= count
      /\ \A n \in Nat : n <= count /\ n <= max_out => n <= least
  BY <1>7
<1> HIDE DEF least
<1>10. Len(out) = least
  BY <1>8, <1>9
<1>11. ASSUME NEW i \in sentFiles, Number(i, sentFiles) <= max_out
       PROVE  \E o \in named : g[o] = i /\ out[Number(i, sentFiles)] = files[o]
  <2>1. PICK o \in named : g[o] = i
    BY <1>5
  <2> DEFINE T == {j \in sentFiles : j <= i}
             S == {q \in named : q >= o}
             n == Number(i, sentFiles)
  <2>2. \A q \in S : g[q] \in T
    BY <1>4, <1>6, <2>1
  <2>3. \A p, q \in S : g[p] = g[q] => p = q
    BY <1>6
  <2>4. ASSUME NEW j \in T PROVE \E q \in S : g[q] = j
    <3>1. PICK q \in named : g[q] = j
      BY <1>5
    <3>2. q >= o
      BY <1>6, <2>1, <3>1
    <3> QED BY <3>1, <3>2
  <2>5. IsFiniteSet(S)
    <3>1. S \subseteq named
      OBVIOUS
    <3> HIDE DEF S
    <3> QED BY ONLY <1>f, <3>1, FS_Subset
  <2>6. n = Cardinality(T)
    BY DEF Number
  <2>7. T \subseteq sentFiles /\ T # {}
    <3>1. i <= i
      BY <1>3
    <3> QED BY <3>1
  <2>s. S = {q \in named : q >= o}
    OBVIOUS
  <2> HIDE DEF S, T, n
  <2>8. n = Cardinality(S)
    <3>1. Cardinality(T) = Cardinality(S)
      BY ONLY <2>2, <2>3, <2>4, <2>5, SameCount
    <3> QED BY <2>6, <3>1
  <2>9. n \in 1 .. least
    <3>1. IsFiniteSet(T) /\ Cardinality(T) <= count
      BY ONLY <1>7, <2>7, FS_Subset
    <3>2. Cardinality(T) \in Nat /\ Cardinality(T) # 0
      BY ONLY <2>7, <3>1, FS_CardinalityType, FS_EmptySet
    <3>3. n \in Nat /\ n # 0 /\ n <= count /\ n <= max_out
      BY <1>11, <2>6, <3>1, <3>2 DEF n
    <3>4. n <= least
      BY <1>9, <3>3
    <3> QED BY <1>9, <3>3, <3>4
  <2>10. (CHOOSE x \in named : Cardinality({q \in named : q >= x}) = n) = o
    <3> DEFINE P(x) == Cardinality({q \in named : q >= x}) = n
    <3>1. P(o)
      BY <2>8, <2>s
    <3>2. ASSUME NEW x \in named, P(x) PROVE x = o
      <4>1. Behind(named, x) = Behind(named, o)
        BY <3>1, <3>2 DEF Behind
      <4> QED BY ONLY <1>3, <1>f, <4>1, x \in named, o \in named, RankUnique
    <3> HIDE DEF P
    <3>3. (CHOOSE x \in named : P(x)) = o
      BY <3>1, <3>2
    <3> QED BY <3>3 DEF P
  <2>11. out[n] = files[o]
    BY <1>8, <2>9, <2>10
  <2> QED BY <2>1, <2>11 DEF n
<1>12. ASSUME NEW i \in sentFiles, Number(i, sentFiles) <= max_out
       PROVE  LET n == Number(i, sentFiles)
              IN  /\ contents[out[n].path] = PartData(events[i].part)
                  /\ out[n].size = Len(contents[out[n].path])
  <2>1. PICK o \in named : g[o] = i /\ out[Number(i, sentFiles)] = files[o]
    BY <1>11, <1>12
  <2> QED BY <1>2, <1>3, <2>1
<1> QED BY <1>10, <1>12 DEF out, sentFiles, least

\* While the request stays the same, so does what is said of its events.
LEMMA PartsFrame ==
    ASSUME events' = events, NEW s, NEW n
    PROVE  /\ Begins(s, n)' <=> Begins(s, n)
           /\ Delivered(s)' <=> Filed(files', contents', s) /\ Formed(form', s)
           /\ Assembled(s, n)' <=>
                 LET d == DataUpTo(events, events[s].part, n) IN
                 /\ key' = events[s].key /\ is_file' = events[s].file
                 /\ is_file' => contents'[tmp_path'] = d /\ value_len' = Len(d)
                 /\ ~is_file' => \A i \in DOMAIN d : d[i] # Nul
                 /\ ~is_file' /\ AfterText(events[s].part) =>
                       /\ value_len' = Len(d)
                       /\ value' = IF d = <<>> THEN <<>> ELSE Append(d, Nul)
           /\ Settled(n)' <=>
                 /\ Delivered(n + 1)' /\ key' = Empty /\ ~is_file'
                 /\ AfterText(events[n + 1].part) =>
                       value' = <<>> /\ value_len' = 0
<1>1. Begins(s, n)' <=> Begins(s, n)
  BY DEF Begins
<1>2. Filed(files, contents, s)' <=> Filed(files', contents', s)
  BY DEF Filed, PartData, Starts
<1>3. Formed(form, s)' <=> Formed(form', s)
  BY DEF Formed, PartData, Starts, AfterText
<1>4. AfterText(events[s].part)' <=> AfterText(events[s].part)
  BY DEF AfterText
<1>5. AfterText(events[n + 1].part)' <=> AfterText(events[n + 1].part)
  BY DEF AfterText
<1>6. Assembled(s, n)' <=>
        LET d == DataUpTo(events, events[s].part, n) IN
        /\ key' = events[s].key /\ is_file' = events[s].file
        /\ is_file' => contents'[tmp_path'] = d /\ value_len' = Len(d)
        /\ ~is_file' => \A i \in DOMAIN d : d[i] # Nul
        /\ ~is_file' /\ AfterText(events[s].part) =>
              /\ value_len' = Len(d)
              /\ value' = IF d = <<>> THEN <<>> ELSE Append(d, Nul)
  BY <1>4 DEF Assembled
<1>7. Settled(n)' <=>
        /\ Delivered(n + 1)' /\ key' = Empty /\ ~is_file'
        /\ AfterText(events[n + 1].part) => value' = <<>> /\ value_len' = 0
  BY <1>5 DEF Settled
<1> QED BY <1>1, <1>2, <1>3, <1>6, <1>7 DEF Delivered

\* A step that touches neither the field nor what is delivered changes nothing
\* of this.
LEMMA PartsUntouched ==
    ASSUME UNCHANGED <<events, fieldVars, resultVars, contents>>, NEW n
    PROVE  /\ Delivered(n)' <=> Delivered(n)
           /\ DealtWith(n)' <=> DealtWith(n)
           /\ Settled(n)' <=> Settled(n)
           /\ Continued(n)' <=> Continued(n)
<1>u. /\ events' = events /\ files' = files /\ form' = form
      /\ contents' = contents /\ key' = key /\ is_file' = is_file
      /\ value' = value /\ value_len' = value_len /\ tmp_path' = tmp_path
  BY DEF fieldVars, resultVars
<1>1. \A s : Delivered(s)' <=> Delivered(s)
  BY <1>u, PartsFrame DEF Delivered
<1>2. \A s, m : Begins(s, m)' <=> Begins(s, m)
  BY <1>u, PartsFrame
<1>3. ASSUME NEW s, NEW m PROVE Assembled(s, m)' <=> Assembled(s, m)
  BY <1>u, PartsFrame DEF Assembled
<1>4. NoPart(n)' <=> NoPart(n)
  BY <1>u DEF NoPart
<1>5. Settled(n)' <=> Settled(n)
  <2>1. Delivered(n + 1)' <=> Delivered(n + 1)
    BY <1>1
  <2>2. AfterText(events[n + 1].part)' <=> AfterText(events[n + 1].part)
    BY <1>u DEF AfterText
  <2> QED BY <1>u, <2>1, <2>2 DEF Settled
<1>6. DealtWith(n)' <=> DealtWith(n)
  BY <1>1, <1>2, <1>3, <1>4 DEF DealtWith
<1>7. Continued(n)' <=> Continued(n)
  BY <1>u, <1>1, <1>2, <1>3 DEF Continued
<1> QED BY <1>1, <1>5, <1>6, <1>7

\* An event of a part without a name.
LEMMA SkipKeeps ==
    ASSUME events \in Seq(Event), Iterates(events), NEW n \in Nat,
           n + 1 <= Len(events), events[n + 1].key = None, DealtWith(n)
    PROVE  DealtWith(n + 1)
<1>n. /\ Len(events) \in Nat /\ DOMAIN events = 1 .. Len(events)
      /\ n + 1 \in 1 .. Len(events) /\ n + 1 \in 0 .. Len(events)
      /\ (n + 1) - 1 = n /\ n + 1 \in Nat
  OBVIOUS
<1>1. CASE NoPart(n) /\ Delivered(0)
  <2>1. \A j \in 1 .. n + 1 : j \in 1 .. n \/ j = n + 1
    OBVIOUS
  <2>2. NoPart(n + 1)
    BY <1>1, <2>1 DEF NoPart
  <2> QED BY <1>1, <2>2 DEF DealtWith
<1>2. CASE \E s \in 1 .. n : Begins(s, n) /\ Assembled(s, n) /\ Delivered(s)
  <2>1. PICK s \in 1 .. n : Begins(s, n) /\ Assembled(s, n) /\ Delivered(s)
    BY <1>2
  <2>s. /\ s \in 1 .. n + 1 /\ s \in 1 .. (n + 1) - 1 /\ n \in s .. n
        /\ s \in 1 .. Len(events)
        /\ \A j \in s .. n + 1 : j \in s .. n \/ j = n + 1
    BY <1>n
  <2>2. events[n + 1].part # events[s].part
    <3>1. CASE events[n + 1].off = 0
      <4>1. events[s].part < events[n + 1].part
        BY <1>n, <2>s, <3>1 DEF Iterates
      <4>2. events[s].part \in Nat
        BY <2>s, PartsRise
      <4> QED BY <4>1, <4>2
    <3>2. CASE events[n + 1].off # 0
      <4>1. /\ events[n].part = events[n + 1].part
            /\ events[n].key = events[n + 1].key
        BY <1>n, <3>2 DEF Iterates
      <4> QED BY <2>1, <2>s, <4>1 DEF Begins
    <3> QED BY <3>1, <3>2
  <2>3. Begins(s, n + 1)
    <3>1. ASSUME NEW j \in s .. n + 1
          PROVE  /\ events[j].key = None <=> events[j].part # events[s].part
                 /\ events[j].part = events[s].part =>
                       events[j].file = events[s].file
      <4>1. CASE j = n + 1
        BY <2>2, <4>1
      <4>2. CASE j \in s .. n
        BY <2>1, <4>2 DEF Begins
      <4> QED BY <2>s, <4>1, <4>2
    <3> QED BY <2>1, <3>1 DEF Begins
  <2>4. DataUpTo(events, events[s].part, n + 1) =
            DataUpTo(events, events[s].part, n)
    <3>1. PICK m \in 1 .. Len(events) : m = n + 1 /\ m - 1 = n
      BY <1>n
    <3>2. events[m].part # events[s].part
      BY <2>2, <3>1
    <3>3. DataUpTo(events, events[s].part, m) =
              DataUpTo(events, events[s].part, m - 1)
      BY <3>2, DataSteps
    <3> QED BY <3>1, <3>3
  <2>5. Assembled(s, n + 1)
    BY <2>1, <2>4 DEF Assembled
  <2> QED BY <2>1, <2>3, <2>5, <2>s DEF DealtWith
<1> QED BY <1>1, <1>2 DEF DealtWith

\* A further event of a part is one of the field under assembly.
LEMMA FieldGoesOn ==
    ASSUME events \in Seq(Event), Iterates(events), NEW n \in Nat,
           n + 1 <= Len(events), events[n + 1].key # None,
           events[n + 1].off # 0, DealtWith(n)
    PROVE  Continued(n)
<1>n. /\ Len(events) \in Nat /\ DOMAIN events = 1 .. Len(events)
      /\ n + 1 \in 1 .. Len(events) /\ (n + 1) - 1 = n
  OBVIOUS
<1>1. /\ n + 1 # 1 /\ events[n].part = events[n + 1].part
      /\ events[n].key = events[n + 1].key
      /\ events[n].file = events[n + 1].file
  BY <1>n DEF Iterates
<1>2. CASE NoPart(n)
  <2>1. n \in 1 .. n
    BY <1>1
  <2> QED BY <1>1, <1>2, <2>1 DEF NoPart
<1>3. CASE \E s \in 1 .. n : Begins(s, n) /\ Assembled(s, n) /\ Delivered(s)
  <2>1. PICK s \in 1 .. n : Begins(s, n) /\ Assembled(s, n) /\ Delivered(s)
    BY <1>3
  <2>s. s \in 1 .. n + 1 /\ n \in s .. n
    OBVIOUS
  <2>2. events[n].part = events[s].part /\ events[n].file = events[s].file
    BY <1>1, <2>1, <2>s DEF Begins
  <2> QED BY <1>1, <2>1, <2>2, <2>s DEF Continued
<1> QED BY <1>2, <1>3 DEF DealtWith

\* A part begins: nothing of it is there yet.
LEMMA FieldBegins ==
    ASSUME events \in Seq(Event), Iterates(events), NEW n \in Nat,
           n + 1 <= Len(events), events[n + 1].key # None,
           events[n + 1].off = 0
    PROVE  /\ Begins(n + 1, n) /\ n + 1 \in 1 .. n + 1
           /\ DataUpTo(events, events[n + 1].part, n) = <<>>
<1>1. \A j \in n + 1 .. n : FALSE
  OBVIOUS
<1>2. Begins(n + 1, n)
  BY <1>1 DEF Begins
<1> QED BY <1>2, PartBegins

\* A piece is added to the field under assembly.
LEMMA PieceAdded ==
    ASSUME events \in Seq(Event), Iterates(events), NEW n \in Nat,
           n + 1 <= Len(events), NEW s \in 1 .. n + 1, Begins(s, n),
           events[s].part = events[n + 1].part,
           events[s].file = events[n + 1].file, events[n + 1].key # None
    PROVE  LET d == DataUpTo(events, events[s].part, n)
               data == events[n + 1].data
           IN  /\ Begins(s, n + 1)
               /\ d \in Seq(Token) /\ data \in Seq(Token)
               /\ DataUpTo(events, events[s].part, n + 1) = d \o data
               /\ ~events[s].file => \A i \in DOMAIN data : data[i] # Nul
<1>n. /\ Len(events) \in Nat /\ DOMAIN events = 1 .. Len(events)
      /\ n + 1 \in 1 .. Len(events) /\ n \in 0 .. Len(events)
      /\ (n + 1) - 1 = n
      /\ \A j \in s .. n + 1 : j \in s .. n \/ j = n + 1
  OBVIOUS
<1>1. ASSUME NEW j \in s .. n + 1
      PROVE  /\ events[j].key = None <=> events[j].part # events[s].part
             /\ events[j].part = events[s].part =>
                   events[j].file = events[s].file
  <2>1. CASE j = n + 1
    BY <2>1
  <2>2. CASE j \in s .. n
    BY <2>2 DEF Begins
  <2> QED BY <1>n, <2>1, <2>2
<1>2. Begins(s, n + 1)
  BY <1>1 DEF Begins
<1>3. DataUpTo(events, events[s].part, n) \in Seq(Token)
  BY <1>n, DataSteps
<1>4. events[n + 1].data \in Seq(Token)
  BY <1>n, DataType
<1>5. DataUpTo(events, events[s].part, n + 1) =
          DataUpTo(events, events[s].part, n) \o events[n + 1].data
  <2>1. PICK m \in 1 .. Len(events) : m = n + 1 /\ m - 1 = n
    BY <1>n
  <2>2. events[m].part = events[s].part
    BY <2>1
  <2>3. DataUpTo(events, events[s].part, m) =
            DataUpTo(events, events[s].part, m - 1) \o events[m].data
    BY <2>2, DataSteps
  <2> QED BY <2>1, <2>3
<1>6. ~events[s].file =>
          \A i \in DOMAIN events[n + 1].data : events[n + 1].data[i] # Nul
  BY <1>n DEF Iterates
<1> QED BY <1>2, <1>3, <1>4, <1>5, <1>6

\* The buffer of a text, written on: its bytes and a terminator.
LEMMA WrittenIs ==
    ASSUME NEW d \in Seq(Token), NEW data \in Seq(Token), NEW buf,
           buf = IF d = <<>> THEN <<>> ELSE Append(d, Nul)
    PROVE  Written(buf, Len(d), data) = Append(d \o data, Nul)
<1>n. Len(d) \in Nat /\ Len(data) \in Nat
  OBVIOUS
<1>1. d \o data \in Seq(Token) /\ Len(d \o data) = Len(d) + Len(data)
  OBVIOUS
<1>2. Nul \in Token
  BY DEF Nul, Token
<1>3. /\ Append(d \o data, Nul) \in Seq(Token)
      /\ Len(Append(d \o data, Nul)) = Len(d) + Len(data) + 1
  BY <1>1, <1>2, AppendProperties
<1>4. ASSUME NEW i \in 1 .. Len(d)
      PROVE  i <= Len(buf) /\ buf[i] = d[i]
  <2>1. d # <<>>
    OBVIOUS
  <2>2. buf = Append(d, Nul)
    BY <2>1
  <2>3. Len(buf) = Len(d) + 1 /\ buf[i] = d[i]
    BY <1>2, <2>2, AppendProperties
  <2> QED BY <1>n, <2>3
<1>5. ASSUME NEW i \in 1 .. (Len(d) + Len(data) + 1)
      PROVE  Append(d \o data, Nul)[i] =
                 IF i > Len(d) + Len(data) THEN Nul
                 ELSE IF i > Len(d) THEN data[i - Len(d)]
                 ELSE IF i <= Len(buf) THEN buf[i] ELSE Junk
  <2>1. CASE i > Len(d) + Len(data)
    <3>1. PICK a \in Nat : a = Len(d) + Len(data)
      BY <1>n
    <3>2. i \in 1 .. a + 1 /\ i > a
      BY <2>1, <3>1
    <3>3. i = a + 1
      BY ONLY <3>1, <3>2
    <3>4. i = Len(d \o data) + 1
      BY <1>1, <3>1, <3>3
    <3> QED BY <1>1, <1>2, <2>1, <3>4, AppendProperties
  <2>2. CASE ~(i > Len(d) + Len(data)) /\ i > Len(d)
    <3>1. i \in 1 .. Len(d \o data)
      BY <1>n, <1>1, <2>2
    <3>2. Append(d \o data, Nul)[i] = (d \o data)[i]
      BY <1>1, <1>2, <3>1, AppendProperties
    <3>3. (d \o data)[i] = data[i - Len(d)]
      BY <1>n, <1>1, <2>2, <3>1
    <3> QED BY <2>2, <3>2, <3>3
  <2>3. CASE ~(i > Len(d))
    <3>1. /\ i \in 1 .. Len(d) /\ i \in 1 .. Len(d \o data)
          /\ ~(i > Len(d) + Len(data))
      BY <1>n, <1>1, <2>3
    <3>2. Append(d \o data, Nul)[i] = (d \o data)[i]
      BY <1>1, <1>2, <3>1, AppendProperties
    <3>3. (d \o data)[i] = d[i]
      BY <1>n, <1>1, <3>1
    <3> QED BY <1>4, <2>3, <3>1, <3>2, <3>3
  <2> QED BY <2>1, <2>2, <2>3
<1>6. Append(d \o data, Nul) =
          [i \in 1 .. (Len(d) + Len(data) + 1) |-> Append(d \o data, Nul)[i]]
  <2>1. \A x \in Seq(Token) : x = [i \in 1 .. Len(x) |-> x[i]]
    OBVIOUS
  <2> QED BY <1>3, <2>1
<1> QED BY <1>5, <1>6 DEF Written

\* The C string of such a buffer is the text.
LEMMA CStringIs ==
    ASSUME NEW d \in Seq(Token), \A i \in DOMAIN d : d[i] # Nul
    PROVE  /\ CString(Append(d, Nul)) = d
           /\ CString(<<>>) = <<>>
<1> DEFINE buf == Append(d, Nul)
           S == {i \in 1 .. Len(buf) : \A j \in 1 .. i : buf[j] # Nul}
<1>n. Len(d) \in Nat /\ DOMAIN d = 1 .. Len(d)
  OBVIOUS
<1>1. /\ Len(buf) = Len(d) + 1 /\ buf[Len(d) + 1] = Nul
      /\ \A i \in 1 .. Len(d) : buf[i] = d[i]
      /\ buf \in Seq(Token)
  <2>1. Nul \in Token
    BY DEF Nul, Token
  <2> QED BY <2>1, AppendProperties
<1> HIDE DEF buf
<1>2. S = 1 .. Len(d)
  <2>1. ASSUME NEW i \in S PROVE i \in 1 .. Len(d)
    <3>1. i \in 1 .. Len(d) + 1 /\ (i = Len(d) + 1 => i \in 1 .. i)
      BY <1>n, <1>1
    <3>2. i # Len(d) + 1
      BY <1>1, <3>1
    <3> QED BY <1>n, <3>1, <3>2
  <2>2. ASSUME NEW i \in 1 .. Len(d) PROVE i \in S
    <3>1. i \in 1 .. Len(buf) /\ \A j \in 1 .. i : j \in 1 .. Len(d)
      BY <1>n, <1>1
    <3>2. \A j \in 1 .. i : buf[j] # Nul
      BY <1>n, <1>1, <3>1
    <3> QED BY <3>1, <3>2
  <2> HIDE DEF S
  <2> QED BY <2>1, <2>2
<1>3. Cardinality(1 .. Len(d)) = Len(d)
  <2>1. 1 \in Int /\ Len(d) \in Int
    BY <1>n
  <2>2. Cardinality(1 .. Len(d)) = IF 1 > Len(d) THEN 0 ELSE Len(d) - 1 + 1
    BY ONLY <2>1, FS_Interval
  <2> QED BY <1>n, <2>2
<1>4. CString(buf) = SubSeq(buf, 1, Len(d))
  <2>1. CString(buf) = SubSeq(buf, 1, Cardinality(S))
    BY DEF CString
  <2> HIDE DEF S
  <2> QED BY <1>2, <1>3, <2>1
<1>5. SubSeq(buf, 1, Len(d)) = d
  <2>1. SubSeq(buf, 1, Len(d)) = [i \in 1 .. Len(d) |-> buf[i]]
    BY <1>n, <1>1
  <2>2. d = [i \in 1 .. Len(d) |-> d[i]]
    OBVIOUS
  <2>3. [i \in 1 .. Len(d) |-> buf[i]] = [i \in 1 .. Len(d) |-> d[i]]
    BY <1>1
  <2> QED BY <2>1, <2>2, <2>3
<1>6. CString(<<>>) = <<>>
  <2>1. <<>> \in Seq(Token)
    OBVIOUS
  <2>2. {i \in 1 .. Len(<<>>) : \A j \in 1 .. i : <<>>[j] # Nul} = {}
    OBVIOUS
  <2>3. Cardinality({}) = 0
    BY FS_EmptySet
  <2>4. CString(<<>>) = SubSeq(<<>>, 1, 0)
    BY <2>2, <2>3 DEF CString
  <2> QED BY <2>1, <2>4
<1> QED BY <1>4, <1>5, <1>6 DEF buf

\* Every step keeps what a request rests on.
LEMMA NextGrounds ==
    ASSUME TypeOK, FieldShape, TempFilesOwned, Grounds, [Next]_vars
    PROVE  Grounds'
<1> USE DEF reqVars, arrival, bodyVars, procVars, resultVars, fieldVars,
            diskVars
<1>g. /\ ctype = "multipart" => Iterates(events)
      /\ pc \in {"wait", "last", "finish", "ready"} => pending = 0
      /\ pc = "idle" =>
            form = <<>> /\ key = Empty /\ value = <<>> /\ value_len = 0
      /\ \A f \in TmpNames \ tmp_files : contents[f] = <<>>
  BY DEF Grounds
<1>c. pending \in Nat
  BY Counters
<1>k. ASSUME ctype' = "multipart" => Iterates(events'), pc' # "idle",
             UNCHANGED diskVars,
             pc' \in {"wait", "last", "finish", "ready"} => pending' = 0
      PROVE  Grounds'
  BY <1>g, <1>k DEF Grounds
<1>1. ASSUME NEW r \in Requests, Begin(r) PROVE Grounds'
  <2>1. ctype' = "multipart" => Iterates(events')
    BY <1>1, ConstantsAssumption DEF Begin
  <2>2. pending' = 0 /\ pc' = "wait" /\ UNCHANGED diskVars
    BY <1>1 DEF Begin, FieldShape
  <2> QED BY <1>k, <2>1, <2>2
<1>2. ASSUME NEW r \in Requests, BeginNoMemory(r) PROVE Grounds'
  <2>1. ctype' = "multipart" => Iterates(events')
    BY <1>2, ConstantsAssumption DEF BeginNoMemory
  <2>2. pending' = 0 /\ pc' = "wait" /\ UNCHANGED diskVars
    BY <1>2 DEF BeginNoMemory, Fails, FieldShape
  <2> QED BY <1>k, <2>1, <2>2
<1>3. ASSUME NEW k \in 1 .. Len(events), ChunkParsed(k) PROVE Grounds'
  BY <1>3, <1>g, <1>k DEF ChunkParsed, Arrives
<1>4. ASSUME NEW k \in 1 .. Len(events), ChunkTooLarge(k) PROVE Grounds'
  BY <1>4, <1>g, <1>k DEF ChunkTooLarge, Arrives
<1>5. ASSUME NEW k \in 1 .. Len(events), RawTooLarge(k) PROVE Grounds'
  BY <1>5, <1>g, <1>k DEF RawTooLarge, Arrives
<1>6. ASSUME NEW k \in 1 .. Len(events), RawAppend(k) PROVE Grounds'
  BY <1>6, <1>g, <1>k DEF RawAppend, Arrives
<1>7. ASSUME NEW k \in 1 .. Len(events), RawNoMemory(k) PROVE Grounds'
  BY <1>7, <1>g, <1>k DEF RawNoMemory, Arrives, Fails
<1>8. CASE IterateSkip
  BY <1>8, <1>g, <1>c, <1>k DEF IterateSkip, EventDone
<1>9. CASE Iterate
  BY <1>9, <1>g, <1>k DEF Iterate
<1>10. CASE OpenText
  BY <1>10, <1>g, <1>k DEF OpenText
<1>11. ASSUME NEW f \in TmpNames, OpenFile(f) PROVE Grounds'
  <2>1. \A x \in TmpNames \ tmp_files' : contents'[x] = <<>>
    BY <1>11, <1>g DEF OpenFile
  <2>2. ctype' = ctype /\ events' = events /\ pc' = "append"
    BY <1>11 DEF OpenFile
  <2> QED BY <1>g, <2>1, <2>2 DEF Grounds
<1>12. CASE OpenFileFailed
  BY <1>12, <1>g, <1>k DEF OpenFileFailed, Fails, EventFailed
<1>13. CASE AppendText
  BY <1>13, <1>g, <1>c, <1>k DEF AppendText, EventDone
<1>14. CASE AppendFile
  <2>1. tmp_path \in tmp_files
    BY <1>14 DEF AppendFile, FieldShape, TempFilesOwned
  <2>2. \A f \in TmpNames \ tmp_files' : contents'[f] = <<>>
    BY <1>14, <1>g, <2>1 DEF AppendFile, TypeOK
  <2>3. /\ ctype' = ctype /\ events' = events /\ pc' # "idle"
        /\ pc' \in {"wait", "last", "finish", "ready"} => pending' = 0
    BY <1>14, <1>g, <1>c DEF AppendFile, EventDone
  <2> QED BY <1>g, <2>2, <2>3 DEF Grounds
<1>15. CASE AppendFailed \/ Malformed
  BY <1>15, <1>g, <1>k DEF AppendFailed, Malformed, Fails, EventFailed
<1>16. CASE SettleNothing
  BY <1>16, <1>g, <1>k DEF SettleNothing, SettleReturns, Committing, Discarding
<1>17. CASE SettleFile
  BY <1>17, <1>g, <1>k DEF SettleFile, SettleReturns, Committing, Discarding
<1>18. CASE SettleFileNoMemory
  <2>1. \A f \in TmpNames \ tmp_files' : contents'[f] = <<>>
    BY <1>18, <1>g DEF SettleFileNoMemory, Unlink
  <2>2. /\ ctype' = ctype /\ events' = events /\ pc' # "idle"
        /\ pc' \in {"wait", "last", "finish", "ready"} => pending' = 0
    BY <1>18, <1>g DEF SettleFileNoMemory, SettleReturns, Committing, Discarding
  <2> QED BY <1>g, <2>1, <2>2 DEF Grounds
<1>19. CASE DiscardFile
  <2>1. \A f \in TmpNames \ tmp_files' : contents'[f] = <<>>
    BY <1>19, <1>g DEF DiscardFile, Unlink
  <2>2. /\ ctype' = ctype /\ events' = events /\ pc' # "idle"
        /\ pc' \in {"wait", "last", "finish", "ready"} => pending' = 0
    BY <1>19, <1>g DEF DiscardFile, SettleReturns, Committing, Discarding
  <2> QED BY <1>g, <2>1, <2>2 DEF Grounds
<1>20. CASE SettleText
  BY <1>20, <1>g, <1>k DEF SettleText, SettleReturns, Committing, Discarding
<1>21. CASE SettleTextNoMemory
  BY <1>21, <1>g, <1>k DEF SettleTextNoMemory, SettleReturns, Fails, Committing,
                         Discarding
<1>22. CASE DiscardText
  BY <1>22, <1>g, <1>k DEF DiscardText, SettleReturns, Committing, Discarding
<1>23. CASE Drop
  BY <1>23, <1>g, <1>k DEF Drop
<1>24. CASE Finish
  BY <1>24, <1>g, <1>k DEF Finish
<1>25. CASE FinishForm
  BY <1>25, <1>g, <1>k DEF FinishForm
<1>26. CASE RequestCompleted
  BY <1>26, <1>g, <1>k DEF RequestCompleted
<1>27. CASE Free
  <2>1. \A f \in TmpNames \ tmp_files' : contents'[f] = <<>>
    BY <1>27, <1>g DEF Free, Unlink
  <2>2. /\ ctype' = "other" /\ pc' = "idle" /\ form' = <<>> /\ key' = Empty
        /\ value' = <<>> /\ value_len' = 0
    BY <1>27 DEF Free
  <2> QED BY <2>1, <2>2 DEF Grounds
<1>28. CASE UNCHANGED vars
  BY <1>28, <1>g DEF vars, Grounds
<1> QED
  BY <1>1, <1>2, <1>3, <1>4, <1>5, <1>6, <1>7, <1>8, <1>9, <1>10, <1>11,
     <1>12, <1>13, <1>14, <1>15, <1>16, <1>17, <1>18, <1>19, <1>20, <1>21,
     <1>22, <1>23, <1>24, <1>25, <1>26, <1>27, <1>28
  DEF Next, ChunkArrives, Settle

\* What is to be shown of the place the thread has come to.
LEMMA StageIs ==
    ASSUME NEW n, ctype' = "multipart"
    PROVE  /\ pc' \in {"wait", "parse", "last"} /\ post_processor'
              /\ DealtWith(n)' => Stage(n)'
           /\ pc' = "settle" /\ post_processor' /\ events'[n + 1].off = 0
              /\ DealtWith(n)' => Stage(n)'
           /\ pc' = "open" /\ post_processor' /\ events'[n + 1].off = 0
              /\ Settled(n)' => Stage(n)'
           /\ pc' = "append" /\ post_processor' /\ Continued(n)' => Stage(n)'
           /\ pc' \in {"finish", "ready"} /\ Delivered(n + 1)' => Stage(n)'
<1>1. pc' \in {"wait", "parse", "last"} /\ post_processor'
      /\ DealtWith(n)' => Stage(n)'
  BY DEF Stage
<1>2. pc' = "settle" /\ post_processor' /\ events'[n + 1].off = 0
      /\ DealtWith(n)' => Stage(n)'
  BY DEF Stage
<1>3. pc' = "open" /\ post_processor' /\ events'[n + 1].off = 0
      /\ Settled(n)' => Stage(n)'
  BY DEF Stage
<1>4. pc' = "append" /\ post_processor' /\ Continued(n)' => Stage(n)'
  BY DEF Stage
<1>5. pc' \in {"finish", "ready"} /\ Delivered(n + 1)' => Stage(n)'
  BY DEF Stage
<1> QED BY <1>1, <1>2, <1>3, <1>4, <1>5

\* Nothing has been delivered before the first part.
LEMMA BeginsEmpty ==
    ASSUME events' \in Seq(Event), files' = <<>>, form' = <<>>, key' = Empty,
           ~is_file', value' = <<>>, value_len' = 0
    PROVE  DealtWith(0)'
<1>n. Len(events') \in Nat /\ DOMAIN events' = 1 .. Len(events')
  OBVIOUS
<1>1. \A b : Starts(b)' \subseteq 1 .. Len(events')
  BY <1>n DEF Starts
<1>2. \A b : {i \in Starts(b)' : i < 0} = {}
  BY <1>n, <1>1
<1>3. 1 .. 0 = {} /\ Len(<<>>) = 0
  OBVIOUS
<1>4. PICK g : g \in [{} -> DOMAIN events']
  <2>1. [x \in {} |-> x] \in [{} -> DOMAIN events']
    OBVIOUS
  <2> QED BY <2>1
<1>5. Filed(files, contents, 0)'
  BY <1>2, <1>3, <1>4 DEF Filed
<1>6. Formed(form, 0)'
  BY <1>2, <1>3, <1>4 DEF Formed
<1>7. NoPart(0)'
  BY <1>3 DEF NoPart
<1> QED BY <1>5, <1>6, <1>7 DEF DealtWith, Delivered

\* A text begins behind a settled part.
LEMMA TextOpened ==
    ASSUME events \in Seq(Event), Iterates(events), NEW n \in Nat,
           n + 1 <= Len(events), events[n + 1].key # None,
           events[n + 1].off = 0, events[n + 1].file = FALSE, Settled(n),
           key' = events[n + 1].key, is_file' = FALSE,
           UNCHANGED <<events, value, value_len, contents, files, form>>
    PROVE  Continued(n)'
<1>1. /\ Begins(n + 1, n) /\ n + 1 \in 1 .. n + 1
      /\ DataUpTo(events, events[n + 1].part, n) = <<>>
  BY FieldBegins
<1>2. Len(<<>>) = 0 /\ DOMAIN <<>> = {}
  OBVIOUS
<1>3. AfterText(events[n + 1].part) => value' = <<>> /\ value_len' = 0
  BY DEF Settled
<1>4. Assembled(n + 1, n)'
  BY <1>1, <1>2, <1>3, PartsFrame
<1>5. Delivered(n + 1)' /\ Begins(n + 1, n)'
  BY <1>1, PartsFrame DEF Settled, Delivered
<1> QED BY <1>1, <1>4, <1>5 DEF Continued

\* A file begins, with a fresh name.
LEMMA FileOpened ==
    ASSUME events \in Seq(Event), Iterates(events), NEW n \in Nat,
           n + 1 <= Len(events), events[n + 1].key # None,
           events[n + 1].off = 0, events[n + 1].file = TRUE, Settled(n),
           NEW f, contents[f] = <<>>, tmp_path' = f,
           key' = events[n + 1].key, is_file' = TRUE, value_len' = 0,
           UNCHANGED <<events, contents, files, form>>
    PROVE  Continued(n)'
<1>1. /\ Begins(n + 1, n) /\ n + 1 \in 1 .. n + 1
      /\ DataUpTo(events, events[n + 1].part, n) = <<>>
  BY FieldBegins
<1>2. Len(<<>>) = 0
  OBVIOUS
<1>3. contents'[tmp_path'] = <<>>
  OBVIOUS
<1>4. Assembled(n + 1, n)'
  BY <1>1, <1>2, <1>3, PartsFrame
<1>5. Delivered(n + 1)' /\ Begins(n + 1, n)'
  BY <1>1, PartsFrame DEF Settled, Delivered
<1> QED BY <1>1, <1>4, <1>5 DEF Continued

\* A piece of a text is written into the buffer.
LEMMA TextAppended ==
    ASSUME events \in Seq(Event), Iterates(events), NEW n \in Nat,
           n + 1 <= Len(events), Continued(n), is_file = FALSE,
           value_len \in Nat,
           value' = IF events[n + 1].data = <<>> THEN value
                    ELSE Written(value, value_len, events[n + 1].data),
           value_len' = value_len + Len(events[n + 1].data),
           UNCHANGED <<events, key, is_file, contents, files, form>>
    PROVE  DealtWith(n + 1)'
<1>1. PICK s \in 1 .. n + 1 :
        /\ Begins(s, n) /\ Assembled(s, n) /\ Delivered(s)
        /\ events[s].part = events[n + 1].part
        /\ events[s].file = events[n + 1].file
        /\ events[n + 1].key # None
  BY DEF Continued
<1> DEFINE d == DataUpTo(events, events[s].part, n)
           data == events[n + 1].data
           all == DataUpTo(events, events[s].part, n + 1)
<1>2. /\ Begins(s, n + 1) /\ d \in Seq(Token) /\ data \in Seq(Token)
      /\ all = d \o data
      /\ ~events[s].file => \A i \in DOMAIN data : data[i] # Nul
  BY <1>1, PieceAdded
<1>3. /\ key = events[s].key /\ is_file = events[s].file
      /\ \A i \in DOMAIN d : d[i] # Nul
      /\ AfterText(events[s].part) =>
            /\ value_len = Len(d)
            /\ value = IF d = <<>> THEN <<>> ELSE Append(d, Nul)
  BY <1>1 DEF Assembled
<1>4. /\ value' = IF data = <<>> THEN value ELSE Written(value, value_len, data)
      /\ value_len' = value_len + Len(data)
  OBVIOUS
<1> HIDE DEF d, data, all
<1>5. ASSUME NEW i \in DOMAIN all PROVE all[i] # Nul
  <2>1. \A j \in DOMAIN data : data[j] # Nul
    BY <1>2, <1>3
  <2>2. i \in 1 .. Len(d) + Len(data) /\ Len(d) \in Nat /\ Len(data) \in Nat
    BY <1>2
  <2>3. CASE i <= Len(d)
    <3>1. i \in DOMAIN d /\ all[i] = d[i]
      BY <1>2, <2>2, <2>3
    <3> QED BY <1>3, <3>1
  <2>4. CASE ~(i <= Len(d))
    <3>1. i - Len(d) \in DOMAIN data /\ all[i] = data[i - Len(d)]
      BY <1>2, <2>2, <2>4
    <3> QED BY <2>1, <3>1
  <2> QED BY <2>3, <2>4
<1>6. ASSUME AfterText(events[s].part)
      PROVE  /\ value_len' = Len(all)
             /\ value' = IF all = <<>> THEN <<>> ELSE Append(all, Nul)
  <2>l. Len(all) = Len(d) + Len(data)
    BY ONLY <1>2, ConcatProperties
  <2>1. value_len' = Len(all)
    BY ONLY <1>3, <1>4, <1>6, <2>l
  <2>2. CASE data = <<>>
    <3>1. all = d
      BY <1>2, <2>2
    <3> QED BY <1>3, <1>4, <1>6, <2>1, <2>2, <3>1
  <2>3. CASE data # <<>>
    <3>1. Written(value, Len(d), data) = Append(d \o data, Nul)
      BY <1>2, <1>3, <1>6, WrittenIs
    <3>2. all # <<>>
      BY <1>2, <2>3
    <3> QED BY <1>2, <1>3, <1>4, <1>6, <2>1, <2>3, <3>1, <3>2
  <2> QED BY <2>2, <2>3
<1>7. Assembled(s, n + 1)'
  BY <1>3, <1>5, <1>6, PartsFrame DEF all
<1>8. Delivered(s)' /\ Begins(s, n + 1)'
  BY <1>1, <1>2, PartsFrame DEF Delivered
<1> QED BY <1>7, <1>8 DEF DealtWith

\* A piece of a file is written to it, and to no other.
LEMMA FileAppended ==
    ASSUME events \in Seq(Event), Iterates(events), NEW n \in Nat,
           n + 1 <= Len(events), Continued(n), is_file = TRUE,
           tmp_path \in TmpNames, contents \in [TmpNames -> Seq(Token)],
           files \in Seq(File), tmp_path \notin Spooled,
           contents' = [contents EXCEPT ![tmp_path] = @ \o events[n + 1].data],
           value_len' = value_len + Len(events[n + 1].data),
           UNCHANGED <<events, key, is_file, tmp_path, files, form>>
    PROVE  DealtWith(n + 1)'
<1>1. PICK s \in 1 .. n + 1 :
        /\ Begins(s, n) /\ Assembled(s, n) /\ Delivered(s)
        /\ events[s].part = events[n + 1].part
        /\ events[s].file = events[n + 1].file
        /\ events[n + 1].key # None
  BY DEF Continued
<1> DEFINE d == DataUpTo(events, events[s].part, n)
           data == events[n + 1].data
           all == DataUpTo(events, events[s].part, n + 1)
<1>2. /\ Begins(s, n + 1) /\ d \in Seq(Token) /\ data \in Seq(Token)
      /\ all = d \o data
  BY <1>1, PieceAdded
<1>3. /\ key = events[s].key /\ is_file = events[s].file
      /\ contents[tmp_path] = d /\ value_len = Len(d)
  BY <1>1 DEF Assembled
<1>4. contents'[tmp_path'] = d \o data /\ value_len' = Len(d) + Len(data)
  BY <1>3
<1> HIDE DEF d, data, all
<1>l. Len(all) = Len(d) + Len(data)
  BY ONLY <1>2, ConcatProperties
<1>5. contents'[tmp_path'] = all /\ value_len' = Len(all)
  BY ONLY <1>2, <1>4, <1>l
<1>6. Assembled(s, n + 1)'
  BY <1>3, <1>5, PartsFrame DEF all
<1>7. \A o \in 1 .. Len(files) :
          contents'[files[o].path] = contents[files[o].path]
  <2>1. ASSUME NEW o \in 1 .. Len(files)
        PROVE  contents'[files[o].path] = contents[files[o].path]
    <3>1. files[o].path # tmp_path
      BY DEF Spooled
    <3>2. files[o].path \in TmpNames
      <4>1. files[o] \in File
        OBVIOUS
      <4> QED BY <4>1 DEF File
    <3> QED BY <3>1, <3>2
  <2> QED BY <2>1
<1>8. Filed(files, contents', s)
  BY <1>1, <1>7, FiledSame DEF Delivered
<1>9. Delivered(s)' /\ Begins(s, n + 1)'
  BY <1>1, <1>2, <1>8, PartsFrame DEF Delivered
<1> QED BY <1>6, <1>9 DEF DealtWith

\* A committed field, or none, leaves everything before the next part
\* delivered, and the buffer known to be empty behind a named text.
LEMMA NothingSettled ==
    ASSUME events \in Seq(Event), Iterates(events), NEW n \in Nat,
           n <= Len(events), DealtWith(n), key = Empty, is_file = FALSE,
           n = Len(events) \/ events[n + 1].off = 0,
           UNCHANGED <<events, key, is_file, value, value_len, contents,
                       files, form>>
    PROVE  Delivered(n + 1)' /\ (n + 1 <= Len(events) => Settled(n)')
<1>n. Len(events) \in Nat /\ (n + 1 <= Len(events) => n # Len(events))
  OBVIOUS
<1>1. CASE NoPart(n) /\ Delivered(0)
  <2>1. \A b \in BOOLEAN :
            {i \in Starts(b) : i < n + 1} = {i \in Starts(b) : i < 0}
    BY <1>1, StartsNone DEF NoPart
  <2>2. Filed(files, contents, n + 1)
    BY <1>1, <2>1, FiledSame DEF Delivered
  <2>3. Formed(form, n + 1)
    BY <1>1, <2>1, FormedSame DEF Delivered
  <2>4. Delivered(n + 1)'
    BY <2>2, <2>3, PartsFrame
  <2>5. Settled(n)'
    BY <1>1, <2>4, PartsFrame DEF NoPart
  <2> QED BY <2>4, <2>5
<1>2. CASE \E s \in 1 .. n : Begins(s, n) /\ Assembled(s, n) /\ Delivered(s)
  <2>1. PICK s \in 1 .. n : Begins(s, n) /\ Assembled(s, n) /\ Delivered(s)
    BY <1>2
  <2>2. events[s].key = Empty /\ events[s].file = FALSE
    BY <2>1 DEF Assembled
  <2>3. \A b \in BOOLEAN : s \notin Starts(b)
    BY <2>2 DEF Starts
  <2>4. ASSUME NEW b \in BOOLEAN
        PROVE  {i \in Starts(b) : i < n + 1} = {i \in Starts(b) : i < s}
    <3>1. {i \in Starts(b) : i < n + 1} =
              {i \in Starts(b) : i < s} \cup ({s} \cap Starts(b))
      BY <2>1, StartsMore
    <3>2. {s} \cap Starts(b) = {}
      BY <2>3
    <3> QED BY <3>1, <3>2
  <2>5. Filed(files, contents, n + 1)
    BY <2>1, <2>4, FiledSame DEF Delivered
  <2>6. Formed(form, n + 1)
    BY <2>1, <2>4, FormedSame DEF Delivered
  <2>7. Delivered(n + 1)'
    BY <2>5, <2>6, PartsFrame
  <2>8. ASSUME n + 1 <= Len(events) PROVE Settled(n)'
    <3>1. ~AfterText(events[n + 1].part)
      BY <1>n, <2>1, <2>2, <2>8, NotAfterText
    <3> QED BY <2>7, <3>1, PartsFrame
  <2> QED BY <2>7, <2>8
<1> QED BY <1>1, <1>2 DEF DealtWith

\* The same for the commit of an upload.
LEMMA FileSettled ==
    ASSUME events \in Seq(Event), Iterates(events), NEW n \in Nat,
           n <= Len(events), DealtWith(n), is_file = TRUE,
           n = Len(events) \/ events[n + 1].off = 0, files \in Seq(File),
           NEW f \in File, f.key = key, f.path = tmp_path, f.size = value_len,
           files' = <<f>> \o files, key' = Empty, is_file' = FALSE,
           UNCHANGED <<events, value, value_len, contents, form>>
    PROVE  Delivered(n + 1)' /\ (n + 1 <= Len(events) => Settled(n)')
<1>n. /\ Len(events) \in Nat /\ (n + 1 <= Len(events) => n # Len(events))
      /\ DOMAIN events = 1 .. Len(events)
  OBVIOUS
<1>1. PICK s \in 1 .. n : Begins(s, n) /\ Assembled(s, n) /\ Delivered(s)
  BY DEF DealtWith, NoPart
<1>2. s \in 1 .. Len(events)
  <2>1. PICK m \in Nat : m = Len(events) /\ n <= m
    BY <1>n
  <2>2. s \in 1 .. m
    BY ONLY <2>1, s \in 1 .. n, n \in Nat
  <2> QED BY <2>1, <2>2
<1>3. /\ events[s].key = key /\ events[s].file = TRUE
      /\ contents[tmp_path] = DataUpTo(events, events[s].part, n)
      /\ value_len = Len(contents[tmp_path])
      /\ events[s].off = 0 /\ events[s].key # None
  BY <1>1 DEF Assembled, Begins
<1>4. contents[tmp_path] = PartData(events[s].part)
  BY <1>3, PartOver
<1>5. s \in Starts(TRUE) /\ s \notin Starts(FALSE)
  BY <1>n, <1>2, <1>3 DEF Starts
<1>6. {i \in Starts(TRUE) : i < n + 1} = {i \in Starts(TRUE) : i < s} \cup {s}
  <2>1. {i \in Starts(TRUE) : i < n + 1} =
            {i \in Starts(TRUE) : i < s} \cup ({s} \cap Starts(TRUE))
    BY <1>1, StartsMore
  <2>2. {s} \cap Starts(TRUE) = {s}
    BY <1>5
  <2> QED BY <2>1, <2>2
<1>7. {i \in Starts(FALSE) : i < n + 1} = {i \in Starts(FALSE) : i < s}
  <2>1. {i \in Starts(FALSE) : i < n + 1} =
            {i \in Starts(FALSE) : i < s} \cup ({s} \cap Starts(FALSE))
    BY <1>1, StartsMore
  <2>2. {s} \cap Starts(FALSE) = {}
    BY <1>5
  <2> QED BY <2>1, <2>2
<1>8. Filed(<<f>> \o files, contents, n + 1)
  <2>1. Filed(files, contents, s)
    BY <1>1 DEF Delivered
  <2>2. /\ f.key = events[s].key
        /\ contents[f.path] = PartData(events[s].part)
        /\ f.size = Len(contents[f.path])
    BY <1>3, <1>4
  <2> QED BY <1>2, <1>6, <2>1, <2>2, FiledMore
<1>9. Formed(form, n + 1)
  BY <1>1, <1>7, FormedSame DEF Delivered
<1>10. Delivered(n + 1)'
  BY <1>8, <1>9, PartsFrame
<1>11. ASSUME n + 1 <= Len(events) PROVE Settled(n)'
  <2>1. ~AfterText(events[n + 1].part)
    BY <1>n, <1>1, <1>3, <1>11, NotAfterText
  <2> QED BY <1>10, <2>1, PartsFrame
<1> QED BY <1>10, <1>11

\* The same for the commit of a text.
LEMMA TextSettled ==
    ASSUME events \in Seq(Event), Iterates(events), NEW n \in Nat,
           n <= Len(events), DealtWith(n), is_file = FALSE, key # Empty,
           n = Len(events) \/ events[n + 1].off = 0, form \in Seq(FormEntry),
           key \in Keys \cup {Empty}, value \in Seq(Token),
           form' = Append(form, <<key, CString(value)>>), key' = Empty,
           is_file' = FALSE, value' = <<>>, value_len' = 0,
           UNCHANGED <<events, contents, files>>
    PROVE  Delivered(n + 1)' /\ (n + 1 <= Len(events) => Settled(n)')
<1>n. Len(events) \in Nat /\ DOMAIN events = 1 .. Len(events)
  OBVIOUS
<1>1. PICK s \in 1 .. n : Begins(s, n) /\ Assembled(s, n) /\ Delivered(s)
  BY DEF DealtWith, NoPart
<1>2. s \in 1 .. Len(events) /\ n \in 0 .. Len(events)
  <2>1. PICK m \in Nat : m = Len(events) /\ n <= m
    BY <1>n
  <2>2. s \in 1 .. m /\ n \in 0 .. m
    BY ONLY <2>1, s \in 1 .. n, n \in Nat
  <2> QED BY <2>1, <2>2
<1> DEFINE d == DataUpTo(events, events[s].part, n)
<1>3. /\ events[s].key = key /\ events[s].file = FALSE
      /\ events[s].off = 0 /\ events[s].key # None
      /\ \A i \in DOMAIN d : d[i] # Nul
      /\ AfterText(events[s].part) =>
            value = IF d = <<>> THEN <<>> ELSE Append(d, Nul)
  BY <1>1 DEF Assembled, Begins
<1>4. d = PartData(events[s].part) /\ d \in Seq(Token)
  BY <1>2, PartOver, DataSteps
<1> HIDE DEF d
<1>5. AfterText(events[s].part) => CString(value) = PartData(events[s].part)
  <2>1. CString(Append(d, Nul)) = d /\ CString(<<>>) = <<>>
    BY <1>3, <1>4, CStringIs
  <2> QED BY <1>3, <1>4, <2>1
<1>6. s \in Starts(FALSE) /\ s \notin Starts(TRUE)
  BY <1>n, <1>2, <1>3 DEF Starts
<1>7. {i \in Starts(FALSE) : i < n + 1} = {i \in Starts(FALSE) : i < s} \cup {s}
  <2>1. {i \in Starts(FALSE) : i < n + 1} =
            {i \in Starts(FALSE) : i < s} \cup ({s} \cap Starts(FALSE))
    BY <1>1, StartsMore
  <2>2. {s} \cap Starts(FALSE) = {s}
    BY <1>6
  <2> QED BY <2>1, <2>2
<1>8. {i \in Starts(TRUE) : i < n + 1} = {i \in Starts(TRUE) : i < s}
  <2>1. {i \in Starts(TRUE) : i < n + 1} =
            {i \in Starts(TRUE) : i < s} \cup ({s} \cap Starts(TRUE))
    BY <1>1, StartsMore
  <2>2. {s} \cap Starts(TRUE) = {}
    BY <1>6
  <2> QED BY <2>1, <2>2
<1>9. Formed(form', n + 1)
  <2> DEFINE e == <<key, CString(value)>>
  <2>1. Formed(form, s)
    BY <1>1 DEF Delivered
  <2>2. e \in FormEntry
    <3>1. CString(value) \in Seq(Token)
      BY CStringType
    <3> QED BY <3>1 DEF FormEntry
  <2>3. e[1] = events[s].key /\ e[2] = CString(value)
    BY <1>3
  <2>4. AfterText(events[s].part) => e[2] = PartData(events[s].part)
    BY <1>5, <2>3
  <2>5. form' = Append(form, e)
    OBVIOUS
  <2> HIDE DEF e
  <2>6. Formed(Append(form, e), n + 1)
    BY <1>2, <1>7, <2>1, <2>2, <2>3, <2>4, FormedMore
  <2> QED BY <2>5, <2>6
<1>10. Filed(files, contents, n + 1)
  BY <1>1, <1>8, FiledSame DEF Delivered
<1>11. Delivered(n + 1)'
  BY <1>9, <1>10, PartsFrame
<1>12. Settled(n)'
  BY <1>11, PartsFrame
<1> QED BY <1>11, <1>12

\* Every step brings the parts on, or loses or refuses something.
LEMMA NextProgress ==
    ASSUME TypeOK, FieldShape, TempFilesOwned, AllArrived, Grounds, Progress,
           [Next]_vars
    PROVE  Progress'
<1> USE DEF reqVars, arrival, bodyVars, procVars, resultVars, fieldVars,
            diskVars
<1>t. /\ events \in Seq(Event) /\ files \in Seq(File)
      /\ form \in Seq(FormEntry) /\ contents \in [TmpNames -> Seq(Token)]
      /\ key \in Keys \cup {Empty} /\ value \in Seq(Token) /\ value_len \in Nat
      /\ tmp_path \in TmpNames \cup {None}
  BY DEF TypeOK, FormEntry
<1>b. /\ is_file \in BOOLEAN /\ is_multipart \in BOOLEAN
      /\ body_too_large \in BOOLEAN
  BY DEF TypeOK
<1>c. /\ Len(events) \in Nat /\ sent \in Nat /\ pending \in Nat
      /\ sent <= Len(events) /\ pending <= sent /\ faults \in Nat
  BY Counters
<1>g. /\ ctype = "multipart" => Iterates(events)
      /\ pc \in {"wait", "last", "finish", "ready"} => pending = 0
      /\ pc = "idle" =>
            form = <<>> /\ key = Empty /\ value = <<>> /\ value_len = 0
      /\ \A f \in TmpNames \ tmp_files : contents[f] = <<>>
  BY DEF Grounds
\* The event at hand.
<1>e. ASSUME NEW n \in Nat, n = sent - pending,
             pc \in {"parse", "settle", "open", "append"}
      PROVE  /\ n + 1 <= Len(events) /\ CurrentEvent = events[n + 1]
             /\ events[n + 1] \in Event /\ pending > 0
  <2>1. pending > 0
    BY <1>e DEF FieldShape
  <2>2. n + 1 <= Len(events)
    BY ONLY <1>c, <1>e, <2>1
  <2>3. CurrentEvent = events[n + 1]
    BY <1>e DEF CurrentEvent
  <2> QED BY <1>t, <2>1, <2>2, <2>3, CurrentEventType
\* It is enough to show Stage' where nothing has failed, in which case nothing
\* had before.
<1>f. faults' # 0 \/ body_too_large' \/ ~is_multipart' => Progress'
  BY DEF Progress, Clean
<1>s. ASSUME NEW n \in Nat, n = sent' - pending', Stage(n)' PROVE Progress'
  BY <1>s DEF Progress
<1>p. ASSUME is_multipart, faults = 0, ~body_too_large
      PROVE  \E n \in Nat : n = sent - pending /\ Stage(n)
  BY <1>p DEF Progress, Clean
\* The steps that touch neither the field nor what is delivered.
<1>u. ASSUME NEW n, UNCHANGED <<events, fieldVars, resultVars, contents>>
      PROVE  /\ Delivered(n + 1)' <=> Delivered(n + 1)
             /\ DealtWith(n)' <=> DealtWith(n)
             /\ Settled(n)' <=> Settled(n)
             /\ Continued(n)' <=> Continued(n)
  BY <1>u, PartsUntouched
<1>1. ASSUME NEW r \in Requests, Begin(r) PROVE Progress'
  <2> SUFFICES ASSUME is_multipart' PROVE Progress'
    BY <1>f
  <2>1. events' \in Seq(Event) /\ ctype' = "multipart" /\ post_processor'
    BY <1>1, ConstantsAssumption DEF Begin
  <2>2. files' = <<>> /\ ~is_file' /\ sent' = 0 /\ pending' = 0 /\ pc' = "wait"
    BY <1>1 DEF Begin, FieldShape
  <2>3. form' = <<>> /\ key' = Empty /\ value' = <<>> /\ value_len' = 0
    BY <1>1, <1>g DEF Begin
  <2>4. DealtWith(0)'
    BY <2>1, <2>2, <2>3, BeginsEmpty
  <2>5. Stage(0)'
    BY <2>1, <2>2, <2>4, StageIs
  <2> QED BY <1>s, <2>2, <2>5
<1>2. ASSUME NEW r \in Requests, BeginNoMemory(r) PROVE Progress'
  <2>1. faults' # 0
    BY <1>2, <1>c DEF BeginNoMemory, Fails
  <2> QED BY <1>f, <2>1
<1>3. ASSUME NEW k \in 1 .. Len(events), ChunkParsed(k) PROVE Progress'
  <2> SUFFICES ASSUME is_multipart', faults' = 0, ~body_too_large'
               PROVE  Progress'
    BY <1>f
  <2>1. PICK n \in Nat : n = sent - pending /\ Stage(n)
    BY <1>3, <1>p DEF ChunkParsed
  <2>2. DealtWith(n) /\ ctype = "multipart" /\ post_processor
    BY <1>3, <2>1 DEF ChunkParsed, Arrives, Stage
  <2>3. /\ DealtWith(n)' /\ ctype' = "multipart" /\ post_processor'
        /\ pc' = "parse"
    BY <1>3, <1>u, <2>2 DEF ChunkParsed
  <2>4. n = sent' - pending'
    <3>1. sent' = sent + k /\ pending' = k /\ pending = 0
      BY <1>3, <1>g DEF ChunkParsed, Arrives
    <3> QED BY <1>c, <2>1, <3>1
  <2>5. Stage(n)'
    BY <2>3, StageIs
  <2> QED BY <1>s, <2>4, <2>5
<1>4. ASSUME NEW k \in 1 .. Len(events), ChunkTooLarge(k) PROVE Progress'
  BY <1>4, <1>f DEF ChunkTooLarge
<1>5. ASSUME NEW k \in 1 .. Len(events), RawTooLarge(k) PROVE Progress'
  BY <1>5, <1>f DEF RawTooLarge
<1>6. ASSUME NEW k \in 1 .. Len(events), RawAppend(k) PROVE Progress'
  <2> SUFFICES ASSUME is_multipart', faults' = 0, ~body_too_large'
               PROVE  Progress'
    BY <1>f
  <2>1. PICK n \in Nat : n = sent - pending /\ Stage(n)
    BY <1>6, <1>p DEF RawAppend
  <2>2. post_processor
    BY <1>6, <2>1 DEF RawAppend, Arrives, Stage
  <2> QED BY <1>6, <2>2 DEF RawAppend, Parsing
<1>7. ASSUME NEW k \in 1 .. Len(events), RawNoMemory(k) PROVE Progress'
  <2>1. faults' # 0
    BY <1>7, <1>c DEF RawNoMemory, Fails
  <2> QED BY <1>f, <2>1
<1>8. CASE IterateSkip
  <2> SUFFICES ASSUME is_multipart', faults' = 0, ~body_too_large'
               PROVE  Progress'
    BY <1>f
  <2>1. PICK n \in Nat : n = sent - pending /\ Stage(n)
    BY <1>8, <1>p DEF IterateSkip
  <2>2. DealtWith(n) /\ ctype = "multipart" /\ post_processor
    BY <1>8, <2>1 DEF IterateSkip, Stage
  <2>3. n + 1 <= Len(events) /\ events[n + 1].key = None /\ pending > 0
    BY <1>8, <1>e, <2>1 DEF IterateSkip
  <2>4. DealtWith(n + 1)
    BY <1>t, <1>g, <2>2, <2>3, SkipKeeps
  <2>5. DealtWith(n + 1)' /\ ctype' = "multipart" /\ post_processor'
    BY <1>8, <1>u, <2>2, <2>4 DEF IterateSkip
  <2>6. pc' \in {"wait", "parse"} /\ n + 1 = sent' - pending'
    BY <1>8, <1>c, <2>1, <2>3 DEF IterateSkip, EventDone
  <2>7. Stage(n + 1)'
    BY <2>5, <2>6, StageIs
  <2> QED BY <1>s, <2>6, <2>7
<1>9. CASE Iterate
  <2> SUFFICES ASSUME is_multipart', faults' = 0, ~body_too_large'
               PROVE  Progress'
    BY <1>f
  <2>1. PICK n \in Nat : n = sent - pending /\ Stage(n)
    BY <1>9, <1>p DEF Iterate
  <2>2. DealtWith(n) /\ ctype = "multipart" /\ post_processor
    BY <1>9, <2>1 DEF Iterate, Stage
  <2>3. /\ n + 1 <= Len(events) /\ events[n + 1].key # None
        /\ pc' = IF events[n + 1].off = 0 THEN "settle" ELSE "append"
    BY <1>9, <1>e, <2>1 DEF Iterate
  <2>4. /\ DealtWith(n)' /\ ctype' = "multipart" /\ post_processor'
        /\ n = sent' - pending' /\ events' = events
    BY <1>9, <1>u, <2>1, <2>2 DEF Iterate
  <2>5. CASE events[n + 1].off = 0
    <3>1. Stage(n)'
      BY <2>3, <2>4, <2>5, StageIs
    <3> QED BY <1>s, <2>4, <3>1
  <2>6. CASE events[n + 1].off # 0
    <3>1. Continued(n)
      BY <1>t, <1>g, <2>2, <2>3, <2>6, FieldGoesOn
    <3>2. Continued(n)'
      BY <1>9, <1>u, <3>1 DEF Iterate
    <3>3. Stage(n)'
      BY <2>3, <2>4, <2>6, <3>2, StageIs
    <3> QED BY <1>s, <2>4, <3>3
  <2> QED BY <2>5, <2>6
<1>10. CASE OpenText
  <2> SUFFICES ASSUME is_multipart', faults' = 0, ~body_too_large'
               PROVE  Progress'
    BY <1>f
  <2>1. PICK n \in Nat : n = sent - pending /\ Stage(n)
    BY <1>10, <1>p DEF OpenText
  <2>2. /\ Settled(n) /\ ctype = "multipart" /\ post_processor
        /\ events[n + 1].off = 0
    BY <1>10, <2>1 DEF OpenText, Stage
  <2>3. /\ n + 1 <= Len(events) /\ CurrentEvent = events[n + 1]
        /\ events[n + 1] \in Event
    BY <1>10, <1>e, <2>1 DEF OpenText
  <2>4. events[n + 1].key # None /\ events[n + 1].file = FALSE
    <3>1. events[n + 1].file \in BOOLEAN
      BY <2>3 DEF Event
    <3> QED BY <1>10, <2>3, <3>1 DEF OpenText, FieldShape
  <2>5. /\ key' = events[n + 1].key /\ is_file' = FALSE
        /\ UNCHANGED <<events, value, value_len, contents, files, form>>
    BY <1>10, <2>3 DEF OpenText
  <2>6. Continued(n)'
    BY <1>t, <1>g, <2>2, <2>3, <2>4, <2>5, TextOpened
  <2>7. /\ ctype' = "multipart" /\ post_processor' /\ pc' = "append"
        /\ n = sent' - pending'
    BY <1>10, <2>1, <2>2 DEF OpenText
  <2>8. Stage(n)'
    BY <2>6, <2>7, StageIs
  <2> QED BY <1>s, <2>7, <2>8
<1>11. ASSUME NEW f \in TmpNames, OpenFile(f) PROVE Progress'
  <2> SUFFICES ASSUME is_multipart', faults' = 0, ~body_too_large'
               PROVE  Progress'
    BY <1>f
  <2>1. PICK n \in Nat : n = sent - pending /\ Stage(n)
    BY <1>11, <1>p DEF OpenFile
  <2>2. /\ Settled(n) /\ ctype = "multipart" /\ post_processor
        /\ events[n + 1].off = 0
    BY <1>11, <2>1 DEF OpenFile, Stage
  <2>3. /\ n + 1 <= Len(events) /\ CurrentEvent = events[n + 1]
        /\ events[n + 1] \in Event
    BY <1>11, <1>e, <2>1 DEF OpenFile
  <2>4. events[n + 1].key # None /\ events[n + 1].file = TRUE
    <3>1. events[n + 1].file \in BOOLEAN
      BY <2>3 DEF Event
    <3> QED BY <1>11, <2>3, <3>1 DEF OpenFile, FieldShape
  <2>5. /\ key' = events[n + 1].key /\ is_file' = TRUE /\ tmp_path' = f
        /\ value_len' = 0 /\ UNCHANGED <<events, contents, files, form>>
    BY <1>11, <2>3 DEF OpenFile
  <2>6. contents[f] = <<>>
    BY <1>11, <1>g DEF OpenFile
  <2>7. Continued(n)'
    BY <1>t, <1>g, <2>2, <2>3, <2>4, <2>5, <2>6, FileOpened
  <2>8. /\ ctype' = "multipart" /\ post_processor' /\ pc' = "append"
        /\ n = sent' - pending'
    BY <1>11, <2>1, <2>2 DEF OpenFile
  <2>9. Stage(n)'
    BY <2>7, <2>8, StageIs
  <2> QED BY <1>s, <2>8, <2>9
<1>12. CASE OpenFileFailed
  BY <1>12, <1>f DEF OpenFileFailed, EventFailed
<1>13. CASE AppendText
  <2> SUFFICES ASSUME is_multipart', faults' = 0, ~body_too_large'
               PROVE  Progress'
    BY <1>f
  <2>1. PICK n \in Nat : n = sent - pending /\ Stage(n)
    BY <1>13, <1>p DEF AppendText
  <2>2. Continued(n) /\ ctype = "multipart" /\ post_processor
    BY <1>13, <2>1 DEF AppendText, Stage
  <2>3. /\ n + 1 <= Len(events) /\ CurrentEvent = events[n + 1]
        /\ pending > 0
    BY <1>13, <1>e, <2>1 DEF AppendText
  <2>4. /\ is_file = FALSE
        /\ value' = IF events[n + 1].data = <<>> THEN value
                    ELSE Written(value, value_len, events[n + 1].data)
        /\ value_len' = value_len + Len(events[n + 1].data)
        /\ UNCHANGED <<events, key, is_file, contents, files, form>>
    BY <1>13, <1>b, <2>3 DEF AppendText
  <2>5. DealtWith(n + 1)'
    BY <1>t, <1>g, <2>2, <2>3, <2>4, TextAppended
  <2>6. /\ ctype' = "multipart" /\ post_processor'
        /\ pc' \in {"wait", "parse"} /\ n + 1 = sent' - pending'
    BY <1>13, <1>c, <2>1, <2>2, <2>3 DEF AppendText, EventDone
  <2>7. Stage(n + 1)'
    BY <2>5, <2>6, StageIs
  <2> QED BY <1>s, <2>6, <2>7
<1>14. CASE AppendFile
  <2> SUFFICES ASSUME is_multipart', faults' = 0, ~body_too_large'
               PROVE  Progress'
    BY <1>f
  <2>1. PICK n \in Nat : n = sent - pending /\ Stage(n)
    BY <1>14, <1>p DEF AppendFile
  <2>2. Continued(n) /\ ctype = "multipart" /\ post_processor
    BY <1>14, <2>1 DEF AppendFile, Stage
  <2>3. /\ n + 1 <= Len(events) /\ CurrentEvent = events[n + 1]
        /\ pending > 0
    BY <1>14, <1>e, <2>1 DEF AppendFile
  <2>4. /\ is_file = TRUE
        /\ contents' = [contents EXCEPT ![tmp_path] = @ \o events[n + 1].data]
        /\ value_len' = value_len + Len(events[n + 1].data)
        /\ UNCHANGED <<events, key, is_file, tmp_path, files, form>>
    BY <1>14, <1>b, <2>3 DEF AppendFile
  <2>5. tmp_path \in TmpNames /\ tmp_path \notin Spooled
    BY <1>14, <1>t DEF AppendFile, FieldShape, TempFilesOwned
  <2>6. DealtWith(n + 1)'
    BY <1>t, <1>g, <2>2, <2>3, <2>4, <2>5, FileAppended
  <2>7. /\ ctype' = "multipart" /\ post_processor'
        /\ pc' \in {"wait", "parse"} /\ n + 1 = sent' - pending'
    BY <1>14, <1>c, <2>1, <2>2, <2>3 DEF AppendFile, EventDone
  <2>8. Stage(n + 1)'
    BY <2>6, <2>7, StageIs
  <2> QED BY <1>s, <2>7, <2>8
<1>15. CASE AppendFailed \/ Malformed
  BY <1>15, <1>f DEF AppendFailed, Malformed, EventFailed
\* What a commit is made of, and what it must leave.
<1>v. ASSUME NEW n \in Nat, n = sent - pending, Committing, Stage(n)
      PROVE  /\ DealtWith(n) /\ ctype = "multipart" /\ post_processor
             /\ n <= Len(events) /\ (n = Len(events) \/ events[n + 1].off = 0)
             /\ multipart_field
             /\ pc = "last" => n = Len(events)
             /\ pc = "settle" => n + 1 <= Len(events) /\ events[n + 1].off = 0
  <2>1. DealtWith(n) /\ ctype = "multipart" /\ post_processor /\ multipart_field
    BY <1>v DEF Committing, Stage, FieldShape
  <2>2. n <= Len(events)
    BY ONLY <1>c, <1>v
  <2>3. CASE pc = "settle"
    <3>1. events[n + 1].off = 0
      BY <1>v, <2>3 DEF Stage
    <3> QED BY <1>e, <1>v, <2>1, <2>2, <2>3, <3>1
  <2>4. CASE pc = "last"
    <3>1. n = Len(events)
      BY <1>c, <1>g, <1>v, <2>4 DEF AllArrived
    <3> QED BY <2>1, <2>2, <2>4, <3>1
  <2> QED BY <1>v, <2>3, <2>4 DEF Committing
<1>w. ASSUME NEW n \in Nat, n = sent - pending, Committing, Stage(n),
             Delivered(n + 1)', n + 1 <= Len(events) => Settled(n)',
             SettleReturns, UNCHANGED <<reqVars, arrival, procVars>>
      PROVE  Progress'
  <2>1. /\ ctype' = "multipart" /\ post_processor' /\ n = sent' - pending'
        /\ events' = events
    BY <1>v, <1>w
  <2>2. CASE pc = "settle"
    <3>1. pc' = "open" /\ Settled(n)' /\ events'[n + 1].off = 0
      BY <1>v, <1>w, <2>1, <2>2 DEF SettleReturns
    <3>2. Stage(n)'
      BY <2>1, <3>1, StageIs
    <3> QED BY <1>s, <2>1, <3>2
  <2>3. CASE pc = "last"
    <3>1. pc' = "finish"
      BY <2>3, <1>w DEF SettleReturns
    <3>2. Stage(n)'
      BY <1>w, <2>1, <3>1, StageIs
    <3> QED BY <1>s, <2>1, <3>2
  <2> QED BY <1>w, <2>2, <2>3 DEF Committing
\* A discard that does not belong to a refused body is the last one.
<1>d. ASSUME Discarding, SettleReturns,
             UNCHANGED <<is_multipart, faults, body_too_large, arrival>>
      PROVE  Progress'
  <2> SUFFICES ASSUME is_multipart, faults = 0, ~body_too_large PROVE Progress'
    BY <1>d, <1>f
  <2>1. PICK n \in Nat : n = sent - pending /\ Stage(n)
    BY <1>p
  <2>2. pc = "cleanup"
    BY <1>d, <2>1 DEF Discarding, Stage
  <2>3. pc' = "free" /\ n = sent' - pending'
    BY <1>d, <2>1, <2>2 DEF SettleReturns
  <2>4. Stage(n)'
    BY <2>3 DEF Stage
  <2> QED BY <1>s, <2>3, <2>4
<1>16. CASE SettleNothing
  <2>1. CASE Discarding
    BY <1>16, <1>d, <2>1 DEF SettleNothing
  <2>2. CASE Committing
    <3> SUFFICES ASSUME is_multipart', faults' = 0, ~body_too_large'
                 PROVE  Progress'
      BY <1>f
    <3>1. PICK n \in Nat : n = sent - pending /\ Stage(n)
      BY <1>16, <1>p DEF SettleNothing
    <3>2. /\ DealtWith(n) /\ ctype = "multipart" /\ n <= Len(events)
          /\ multipart_field
          /\ n = Len(events) \/ events[n + 1].off = 0
      BY <1>v, <2>2, <3>1
    <3>3. key = Empty /\ is_file = FALSE
      BY <1>16, <1>b, <3>2 DEF SettleNothing, NoField
    <3>4. UNCHANGED <<events, key, is_file, value, value_len, contents, files,
                      form>>
      BY <1>16 DEF SettleNothing
    <3>5. Delivered(n + 1)' /\ (n + 1 <= Len(events) => Settled(n)')
      BY <1>t, <1>g, <3>2, <3>3, <3>4, NothingSettled
    <3>6. SettleReturns /\ UNCHANGED <<reqVars, arrival, procVars>>
      BY <1>16 DEF SettleNothing
    <3> QED BY <1>w, <2>2, <3>1, <3>5, <3>6
  <2> QED BY <1>16, <2>1, <2>2 DEF SettleNothing
<1>17. CASE SettleFile
  <2> SUFFICES ASSUME is_multipart', faults' = 0, ~body_too_large'
               PROVE  Progress'
    BY <1>f
  <2>1. PICK n \in Nat : n = sent - pending /\ Stage(n)
    BY <1>17, <1>p DEF SettleFile
  <2>2. Committing /\ is_file = TRUE
    BY <1>17, <1>b DEF SettleFile
  <2>3. /\ DealtWith(n) /\ ctype = "multipart" /\ n <= Len(events)
        /\ n = Len(events) \/ events[n + 1].off = 0
    BY <1>v, <2>1, <2>2
  <2> DEFINE f == [key |-> key, path |-> tmp_path, size |-> value_len]
  <2>4. f \in File /\ f.key = key /\ f.path = tmp_path /\ f.size = value_len
    <3>1. tmp_path \in TmpNames
      BY <1>t, <2>2 DEF FieldShape, Committing
    <3> QED BY <1>t, <3>1 DEF File
  <2>5. /\ files' = <<f>> \o files /\ key' = Empty /\ is_file' = FALSE
        /\ UNCHANGED <<events, value, value_len, contents, form>>
    BY <1>17 DEF SettleFile, FileCleared
  <2> HIDE DEF f
  <2>6. Delivered(n + 1)' /\ (n + 1 <= Len(events) => Settled(n)')
    BY <1>t, <1>g, <2>2, <2>3, <2>4, <2>5, FileSettled
  <2>7. SettleReturns /\ UNCHANGED <<reqVars, arrival, procVars>>
    BY <1>17 DEF SettleFile
  <2> QED BY <1>w, <2>1, <2>2, <2>6, <2>7
<1>18. CASE SettleFileNoMemory
  <2>1. faults' # 0
    BY <1>18, <1>c DEF SettleFileNoMemory, Fails
  <2> QED BY <1>f, <2>1
<1>19. CASE DiscardFile
  BY <1>19, <1>d DEF DiscardFile
<1>20. CASE SettleText
  <2> SUFFICES ASSUME is_multipart', faults' = 0, ~body_too_large'
               PROVE  Progress'
    BY <1>f
  <2>1. PICK n \in Nat : n = sent - pending /\ Stage(n)
    BY <1>20, <1>p DEF SettleText
  <2>2. Committing /\ is_file = FALSE /\ key # Empty
    BY <1>20, <1>b DEF SettleText, NoField
  <2>3. /\ DealtWith(n) /\ ctype = "multipart" /\ n <= Len(events)
        /\ n = Len(events) \/ events[n + 1].off = 0
    BY <1>v, <2>1, <2>2
  <2>4. /\ form' = Append(form, <<key, CString(value)>>) /\ key' = Empty
        /\ is_file' = FALSE /\ value' = <<>> /\ value_len' = 0
        /\ UNCHANGED <<events, contents, files>>
    BY <1>20, <2>2 DEF SettleText, TextCleared
  <2>5. Delivered(n + 1)' /\ (n + 1 <= Len(events) => Settled(n)')
    BY <1>t, <1>g, <2>2, <2>3, <2>4, TextSettled
  <2>6. SettleReturns /\ UNCHANGED <<reqVars, arrival, procVars>>
    BY <1>20 DEF SettleText
  <2> QED BY <1>w, <2>1, <2>2, <2>5, <2>6
<1>21. CASE SettleTextNoMemory
  <2>1. faults' # 0
    BY <1>21, <1>c DEF SettleTextNoMemory, Fails
  <2> QED BY <1>f, <2>1
<1>22. CASE DiscardText
  BY <1>22, <1>d DEF DiscardText
<1>23. CASE Drop
  <2> SUFFICES ASSUME is_multipart', faults' = 0, ~body_too_large'
               PROVE  Progress'
    BY <1>f
  <2>1. PICK n \in Nat : n = sent - pending /\ Stage(n)
    BY <1>23, <1>p DEF Drop
  <2> QED BY <1>23, <2>1 DEF Drop, Stage
<1>24. CASE Finish
  <2> SUFFICES ASSUME is_multipart', faults' = 0, ~body_too_large'
               PROVE  Progress'
    BY <1>f
  <2>1. PICK n \in Nat : n = sent - pending /\ Stage(n)
    BY <1>24, <1>p DEF Finish
  <2>2. DealtWith(n) /\ ctype = "multipart" /\ post_processor
    BY <1>24, <2>1 DEF Finish, Stage
  <2>3. /\ DealtWith(n)' /\ ctype' = "multipart" /\ post_processor'
        /\ n = sent' - pending' /\ pc' = "last"
    BY <1>24, <1>u, <2>1, <2>2 DEF Finish, Parsing
  <2>4. Stage(n)'
    BY <2>3, StageIs
  <2> QED BY <1>s, <2>3, <2>4
<1>25. CASE FinishForm
  <2> SUFFICES ASSUME is_multipart', faults' = 0, ~body_too_large'
               PROVE  Progress'
    BY <1>f
  <2>1. PICK n \in Nat : n = sent - pending /\ Stage(n)
    BY <1>25, <1>p DEF FinishForm
  <2>2. Delivered(n + 1) /\ ctype = "multipart"
    BY <1>25, <2>1 DEF FinishForm, Stage
  <2>3. /\ events' = events /\ files' = files /\ contents' = contents
        /\ form' = form /\ ctype' = "multipart" /\ pc' = "ready"
        /\ n = sent' - pending'
    BY <1>25, <2>1, <2>2 DEF FinishForm
  <2>4. Delivered(n + 1)'
    BY <2>2, <2>3, PartsFrame DEF Delivered
  <2>5. Stage(n)'
    BY <2>3, <2>4, StageIs
  <2> QED BY <1>s, <2>3, <2>5
<1>26. CASE RequestCompleted
  <2> SUFFICES ASSUME is_multipart', faults' = 0, ~body_too_large'
               PROVE  Progress'
    BY <1>f
  <2>1. PICK n \in Nat : n = sent - pending /\ Stage(n)
    BY <1>26, <1>p DEF RequestCompleted
  <2>2. pc' = "cleanup" /\ n = sent' - pending'
    BY <1>26, <2>1 DEF RequestCompleted
  <2>3. Stage(n)'
    BY <2>2 DEF Stage
  <2> QED BY <1>s, <2>2, <2>3
<1>27. CASE Free
  BY <1>27, <1>f DEF Free
<1>28. CASE UNCHANGED vars
  <2> SUFFICES ASSUME is_multipart', faults' = 0, ~body_too_large'
               PROVE  Progress'
    BY <1>f
  <2>1. PICK n \in Nat : n = sent - pending /\ Stage(n)
    BY <1>28, <1>p DEF vars
  <2>2. /\ Delivered(n + 1)' <=> Delivered(n + 1)
        /\ DealtWith(n)' <=> DealtWith(n)
        /\ Settled(n)' <=> Settled(n)
        /\ Continued(n)' <=> Continued(n)
    BY <1>28, <1>u DEF vars
  <2>3. /\ pc' = pc /\ ctype' = ctype /\ post_processor' = post_processor
        /\ events' = events /\ n = sent' - pending'
    BY <1>28, <2>1 DEF vars
  <2>4. Stage(n)'
    BY <2>1, <2>2, <2>3 DEF Stage
  <2> QED BY <1>s, <2>3, <2>4
<1> QED
  BY <1>1, <1>2, <1>3, <1>4, <1>5, <1>6, <1>7, <1>8, <1>9, <1>10, <1>11, <1>12,
     <1>13, <1>14, <1>15, <1>16, <1>17, <1>18, <1>19, <1>20, <1>21, <1>22,
     <1>23, <1>24, <1>25, <1>26, <1>27, <1>28
  DEF Next, ChunkArrives, Settle

\* No part has been delivered before the first request.
LEMMA InitParts == Init => PartsInv
<1> SUFFICES ASSUME Init PROVE PartsInv
  OBVIOUS
<1>1. Grounds
  BY DEF Init, Grounds
<1>2. Progress
  BY DEF Init, Progress, Clean
<1> QED BY <1>1, <1>2 DEF PartsInv

\* For every body, however it is cut, on which nothing fails: the handler finds
\* every upload and every named field once, in the order sent, uploads with the
\* bytes sent and fields too unless they follow an upload or a nameless field.
THEOREM PartsAreDelivered == Spec => []PartsDelivered
<1>1. UploadInv /\ LimitInv /\ PartsInv => PartsDelivered
  <2> SUFFICES ASSUME TypeOK, AllArrived, Grounds, Progress, Handling,
                      is_multipart, faults = 0
               PROVE  /\ Filed(files, contents, Len(events) + 1)
                      /\ Formed(form, Len(events) + 1)
    <3>1. ASSUME TypeOK, Filed(files, contents, Len(events) + 1)
          PROVE  FilesExact
      <4>1. events \in Seq(Event) /\ files \in Seq(File)
        BY <3>1 DEF TypeOK
      <4>2. \A max_out \in 1 .. Len(files) + 1 : max_out \in Nat
        BY <4>1
      <4> QED BY <3>1, <4>1, <4>2, FilesAreRight DEF FilesExact
    <3>2. ASSUME TypeOK, Formed(form, Len(events) + 1)
          PROVE  FormKeepsFields
      <4>1. events \in Seq(Event) /\ form \in Seq(FormEntry)
        BY <3>2 DEF TypeOK, FormEntry
      <4> QED BY <3>2, <4>1, FormIsRight DEF FormKeepsFields
    <3>3. ~(Handling /\ is_multipart /\ faults = 0) => PartsDelivered
      BY DEF PartsDelivered, FilesExact, FormKeepsFields
    <3> QED
      BY <3>1, <3>2, <3>3 DEF UploadInv, LimitInv, PartsInv, PartsDelivered
  <2>1. PICK n \in Nat : n = sent - pending /\ Stage(n)
    BY DEF Progress, Clean, Handling
  <2>2. n = Len(events)
    BY <2>1, Counters DEF Handling, AllArrived, Grounds
  <2>3. Delivered(n + 1)
    BY <2>1 DEF Stage, Handling
  <2> QED BY <2>2, <2>3 DEF Delivered
<1>2. UploadInv /\ LimitInv /\ PartsInv /\ [Next]_vars => PartsInv'
  BY NextGrounds, NextProgress DEF UploadInv, LimitInv, PartsInv
<1>3. UploadInv /\ LimitInv /\ [Next]_vars => LimitInv'
  BY NextLimit DEF UploadInv
<1> QED
  BY <1>1, <1>2, <1>3, InitUpload, NextUpload, InitLimit, InitParts, PTL
  DEF Spec
=============================================================================
