------------------------------- MODULE Upload -------------------------------
(***************************************************************************)
(* The body of one HTTP request on its way to the handler (src/papago.c):  *)
(* the calls MHD makes to mhd_handler, the raw body buffer, the multipart  *)
(* field being assembled, spooled files, and request_completed.            *)
(*                                                                         *)
(* MHD serves a connection on one thread, so nothing interleaves with a    *)
(* request; what varies is how the body is cut into chunks, where it       *)
(* ends, and which call fails.  pc says how far the thread has come.       *)
(*                                                                         *)
(* A body is a sequence of events.  For a multipart body an event is one   *)
(* call libmicrohttpd makes to multipart_iterator, and it calls with       *)
(* off = 0 once for every part.  For any other body an event is one byte.  *)
(* A chunk is some number of events; an event is the unit of length.       *)
(***************************************************************************)
EXTENDS Integers, FiniteSets, SequencesExt

CONSTANTS
    Requests,        \* records [ctype, events] the clients send
    Keys,            \* field names
    TmpNames,        \* names mkstemp can choose
    max_body_size,   \* server->config.max_body_size
    MaxFaults,       \* bound: allocations and file operations that fail
    Empty,           \* the field name ""
    None             \* no file name; the key NULL

\* The bytes of an event; a string's terminator; a byte never written.
Token == Nat \X Nat
Nul == <<0, 0>>
Junk == <<0, 1>>
Byte(e) == <<e.part, e.off>>

\* An event is the unit of length, so what it carries is of that length, or
\* nothing for the call that announces an empty part.
Piece == {data \in Seq(Token) : Len(data) <= 1}
Event == [part : Nat \ {0}, key : Keys \cup {Empty, None}, file : BOOLEAN,
          off : Nat, data : Piece]
ContentTypes == {"multipart", "urlencoded", "other"}

\* How libmicrohttpd calls the iterator: part after part, each beginning with
\* off = 0.  A text with a terminator in it is not considered.
Iterates(evs) ==
    \A i \in DOMAIN evs :
        /\ evs[i].off = 0 => \A j \in 1 .. i - 1 : evs[j].part < evs[i].part
        /\ evs[i].off # 0 => /\ i # 1
                             /\ evs[i - 1].part = evs[i].part
                             /\ evs[i - 1].key = evs[i].key
                             /\ evs[i - 1].file = evs[i].file
        /\ ~evs[i].file => \A j \in DOMAIN evs[i].data : evs[i].data[j] # Nul

ASSUME ConstantsAssumption ==
    /\ Requests \subseteq [ctype : ContentTypes, events : Seq(Event)]
    /\ \A r \in Requests : r.ctype = "multipart" => Iterates(r.events)
    /\ max_body_size \in Nat
    /\ MaxFaults \in Nat
    /\ Empty \notin Keys /\ None \notin Keys \cup TmpNames \cup {Empty}

VARIABLES
    pc,
    ctype, events,   \* the request being served
    sent,            \* events of its body that have arrived
    pending,         \* events of the current chunk not yet processed
    \* papago_request_t
    body, body_length, body_too_large,
    is_multipart, post_processor, multipart_field,
    form,            \* <<key, value>> pairs
    files,           \* records [key, path, size], newest first
    \* multipart_field_t
    key, is_file,
    value,           \* the buffer; <<>> is NULL
    value_len, tmp_path,
    \* the file system
    tmp_files, contents,
    faults

reqVars == <<ctype, events>>
arrival == <<sent, pending>>
bodyVars == <<body, body_length>>
procVars == <<is_multipart, post_processor, multipart_field>>
resultVars == <<form, files>>
fieldVars == <<key, is_file, value, value_len, tmp_path>>
diskVars == <<tmp_files, contents>>
vars == <<pc, reqVars, arrival, bodyVars, body_too_large, procVars, resultVars,
          fieldVars, diskVars, faults>>

Init ==
    /\ pc = "idle"
    /\ ctype = "other" /\ events = <<>>
    /\ sent = 0 /\ pending = 0
    /\ body = <<>> /\ body_length = 0 /\ body_too_large = FALSE
    /\ is_multipart = FALSE /\ post_processor = FALSE
    /\ multipart_field = FALSE
    /\ form = <<>> /\ files = <<>>
    /\ key = Empty /\ is_file = FALSE
    /\ value = <<>> /\ value_len = 0 /\ tmp_path = None
    /\ tmp_files = {} /\ contents = [n \in TmpNames |-> <<>>]
    /\ faults = 0

\* An allocation, mkstemp, fdopen or fwrite fails here, or the client sent
\* what is no multipart body.
Fails == faults < MaxFaults /\ faults' = faults + 1

-----------------------------------------------------------------------------
(* mhd_handler: the first call, and the calls with upload data             *)

\* The first call allocates the request, and for multipart/form-data the
\* field and the post-processor.
Begin(r) ==
    /\ pc = "idle"
    /\ pc' = "wait"
    /\ ctype' = r.ctype /\ events' = r.events
    /\ is_multipart' = (r.ctype = "multipart")
    /\ post_processor' = is_multipart' /\ multipart_field' = is_multipart'
    /\ UNCHANGED <<arrival, bodyVars, body_too_large, resultVars, fieldVars,
                   diskVars, faults>>

\* One of the two is not to be had: the body is then collected raw.
BeginNoMemory(r) ==
    /\ pc = "idle" /\ r.ctype = "multipart"
    /\ Fails
    /\ pc' = "wait"
    /\ ctype' = r.ctype /\ events' = r.events
    /\ UNCHANGED <<arrival, bodyVars, body_too_large, procVars, resultVars,
                   fieldVars, diskVars>>

\* k more events arrive, and the handler is called with them.
Arrives(k) ==
    /\ pc = "wait" /\ sent + k <= Len(events)
    /\ sent' = sent + k

Parsing == is_multipart /\ post_processor

\* Within the limit: the chunk goes to MHD_post_process.
ChunkParsed(k) ==
    /\ Arrives(k) /\ Parsing
    /\ body_length + k <= max_body_size
    /\ body_length' = body_length + k
    /\ pending' = k
    /\ pc' = "parse"
    /\ UNCHANGED <<reqVars, body, body_too_large, procVars, resultVars,
                   fieldVars, diskVars, faults>>

\* Past the limit: the open field is discarded and parsing ends.
ChunkTooLarge(k) ==
    /\ Arrives(k) /\ Parsing
    /\ body_length + k > max_body_size
    /\ body_length' = body_length + k
    /\ body_too_large' = TRUE
    /\ pc' = "abort"
    /\ UNCHANGED <<reqVars, pending, body, procVars, resultVars, fieldVars,
                   diskVars, faults>>

\* Mutant of RawTooLarge: a body of exactly the limit is refused.
RawTooLargeAtLimit(k) ==
    /\ Arrives(k) /\ ~Parsing
    /\ body_length + k >= max_body_size
    /\ body' = <<>> /\ body_length' = 0
    /\ body_too_large' = TRUE
    /\ UNCHANGED <<pc, reqVars, pending, procVars, resultVars, fieldVars,
                   diskVars, faults>>

\* A raw body past the limit is thrown away; what follows starts from zero.
RawTooLarge(k) ==
    /\ Arrives(k) /\ ~Parsing
    /\ body_length + k > max_body_size
    /\ body' = <<>> /\ body_length' = 0
    /\ body_too_large' = TRUE
    /\ UNCHANGED <<pc, reqVars, pending, procVars, resultVars, fieldVars,
                   diskVars, faults>>

\* realloc to body_length + k, and the chunk copied in at body_length: bytes
\* below it that no chunk wrote are junk.
RawAppend(k) ==
    /\ Arrives(k) /\ ~Parsing
    /\ body_length + k <= max_body_size
    /\ body' = [i \in 1 .. (body_length + k) |->
                   IF i > body_length THEN Byte(events[sent + i - body_length])
                   ELSE IF i <= Len(body) THEN body[i] ELSE Junk]
    /\ body_length' = body_length + k
    /\ UNCHANGED <<pc, reqVars, pending, body_too_large, procVars, resultVars,
                   fieldVars, diskVars, faults>>

\* realloc fails: the chunk is taken and dropped.
RawNoMemory(k) ==
    /\ Arrives(k) /\ ~Parsing
    /\ body_length + k <= max_body_size
    /\ Fails
    /\ UNCHANGED <<pc, reqVars, pending, bodyVars, body_too_large, procVars,
                   resultVars, fieldVars, diskVars>>

-----------------------------------------------------------------------------
(* multipart_iterator, once for each event of the chunk                    *)

CurrentEvent == events[sent - pending + 1]

\* The event is dealt with; after the last one MHD_post_process returns.
EventDone ==
    /\ pending' = pending - 1
    /\ pc' = IF pending = 1 THEN "wait" ELSE "parse"

\* MHD_NO: MHD_post_process fails and mhd_handler gives the body up.
EventFailed ==
    /\ body_too_large' = TRUE
    /\ pc' = "abort"

\* The bytes are not those of a multipart body: MHD_post_process fails by
\* itself, without a call of the iterator.
Malformed ==
    /\ pc = "parse"
    /\ Fails
    /\ EventFailed
    /\ UNCHANGED <<reqVars, arrival, bodyVars, procVars, resultVars, fieldVars,
                   diskVars>>

\* A part without a name.
IterateSkip ==
    /\ pc = "parse" /\ CurrentEvent.key = None
    /\ EventDone
    /\ UNCHANGED <<reqVars, sent, bodyVars, body_too_large, procVars,
                   resultVars, fieldVars, diskVars, faults>>

\* off = 0 settles the field before it; otherwise the open field goes on.
Iterate ==
    /\ pc = "parse" /\ CurrentEvent.key # None
    /\ pc' = IF CurrentEvent.off = 0 THEN "settle" ELSE "append"
    /\ UNCHANGED <<reqVars, arrival, bodyVars, body_too_large, procVars,
                   resultVars, fieldVars, diskVars, faults>>

OpenText ==
    /\ pc = "open" /\ ~CurrentEvent.file
    /\ key' = CurrentEvent.key /\ is_file' = FALSE
    /\ pc' = "append"
    /\ UNCHANGED <<reqVars, arrival, bodyVars, body_too_large, procVars,
                   resultVars, value, value_len, tmp_path, diskVars, faults>>

OpenFile(n) ==
    /\ pc = "open" /\ CurrentEvent.file
    /\ n \notin tmp_files
    /\ key' = CurrentEvent.key /\ is_file' = TRUE
    /\ value_len' = 0
    /\ tmp_path' = n
    /\ tmp_files' = tmp_files \cup {n}
    /\ pc' = "append"
    /\ UNCHANGED <<reqVars, arrival, bodyVars, body_too_large, procVars,
                   resultVars, value, contents, faults>>

\* mkstemp fails, or fdopen does and the file is unlinked again.
OpenFileFailed ==
    /\ pc = "open" /\ CurrentEvent.file
    /\ Fails
    /\ key' = CurrentEvent.key /\ is_file' = TRUE
    /\ value_len' = 0
    /\ EventFailed
    /\ UNCHANGED <<reqVars, arrival, bodyVars, procVars, resultVars, value,
                   tmp_path, diskVars>>

\* buf after memcpy(buf + at, data, size) and the terminator, reallocated to
\* hold them: what lies below at and was never written is junk.
Written(buf, at, data) ==
    [i \in 1 .. (at + Len(data) + 1) |->
        IF i > at + Len(data) THEN Nul
        ELSE IF i > at THEN data[i - at]
        ELSE IF i <= Len(buf) THEN buf[i] ELSE Junk]

AppendText ==
    LET data == CurrentEvent.data IN
    /\ pc = "append" /\ ~is_file
    /\ value' = IF data = <<>> THEN value ELSE Written(value, value_len, data)
    /\ value_len' = value_len + Len(data)
    /\ EventDone
    /\ UNCHANGED <<reqVars, sent, bodyVars, body_too_large, procVars,
                   resultVars, key, is_file, tmp_path, diskVars, faults>>

AppendFile ==
    LET data == CurrentEvent.data IN
    /\ pc = "append" /\ is_file
    /\ contents' = [contents EXCEPT ![tmp_path] = @ \o data]
    /\ value_len' = value_len + Len(data)
    /\ EventDone
    /\ UNCHANGED <<reqVars, sent, bodyVars, body_too_large, procVars,
                   resultVars, key, is_file, value, tmp_path, tmp_files,
                   faults>>

\* fwrite comes up short, or realloc fails.
AppendFailed ==
    /\ pc = "append" /\ CurrentEvent.data # <<>>
    /\ Fails
    /\ EventFailed
    /\ UNCHANGED <<reqVars, arrival, bodyVars, procVars, resultVars, fieldVars,
                   diskVars>>

-----------------------------------------------------------------------------
(* multipart_proc_current_field, called from four places                   *)

\* Called with commit = true, and with commit = false.
Committing == pc \in {"settle", "last"}
Discarding == pc \in {"abort", "cleanup"}

\* Where the caller goes on.
SettleReturns ==
    pc' = IF pc = "settle" THEN "open"
          ELSE IF pc = "last" THEN "finish"
          ELSE IF pc = "abort" THEN "drop" ELSE "free"

\* No field, or a text field without a name: an early return.
NoField == ~multipart_field \/ (key = Empty /\ ~is_file)

SettleNothing ==
    /\ Committing \/ Discarding
    /\ NoField
    /\ SettleReturns
    /\ UNCHANGED <<reqVars, arrival, bodyVars, body_too_large, procVars,
                   resultVars, fieldVars, diskVars, faults>>

\* unlink of every name in S.
Unlink(S) ==
    /\ tmp_files' = tmp_files \ S
    /\ contents' = [n \in TmpNames |-> IF n \in S THEN <<>> ELSE contents[n]]

\* The file is closed and its field cleared; value_len keeps its size.
FileCleared ==
    /\ key' = Empty /\ is_file' = FALSE /\ tmp_path' = None
    /\ UNCHANGED <<value, value_len>>

\* Mutant of SettleFile: files are appended to the list.
SettleFileAtTail ==
    /\ Committing /\ ~NoField /\ is_file
    /\ files' = files \o <<[key |-> key, path |-> tmp_path,
                            size |-> value_len]>>
    /\ FileCleared
    /\ SettleReturns
    /\ UNCHANGED <<reqVars, arrival, bodyVars, body_too_large, procVars, form,
                   diskVars, faults>>

SettleFile ==
    /\ Committing /\ ~NoField /\ is_file
    /\ files' = <<[key |-> key, path |-> tmp_path, size |-> value_len]>>
                    \o files
    /\ FileCleared
    /\ SettleReturns
    /\ UNCHANGED <<reqVars, arrival, bodyVars, body_too_large, procVars, form,
                   diskVars, faults>>

\* The record cannot be allocated: the file is removed.
SettleFileNoMemory ==
    /\ Committing /\ ~NoField /\ is_file
    /\ Fails
    /\ Unlink({tmp_path})
    /\ FileCleared
    /\ SettleReturns
    /\ UNCHANGED <<reqVars, arrival, bodyVars, body_too_large, procVars,
                   resultVars>>

\* Mutant of DiscardFile: the temporary file is left behind.
DiscardFileKept ==
    /\ Discarding /\ ~NoField /\ is_file
    /\ FileCleared
    /\ SettleReturns
    /\ UNCHANGED <<reqVars, arrival, bodyVars, body_too_large, procVars,
                   resultVars, diskVars, faults>>

DiscardFile ==
    /\ Discarding /\ ~NoField /\ is_file
    /\ Unlink({tmp_path})
    /\ FileCleared
    /\ SettleReturns
    /\ UNCHANGED <<reqVars, arrival, bodyVars, body_too_large, procVars,
                   resultVars, faults>>

\* The C string a buffer holds: the bytes before the first terminator.
CString(buf) ==
    SubSeq(buf, 1,
           Cardinality({i \in 1 .. Len(buf) : \A j \in 1 .. i : buf[j] # Nul}))

TextCleared ==
    /\ key' = Empty
    /\ value' = <<>> /\ value_len' = 0
    /\ UNCHANGED <<is_file, tmp_path>>

\* add_kv copies the string.
SettleText ==
    /\ Committing /\ ~NoField /\ ~is_file
    /\ form' = Append(form, <<key, CString(value)>>)
    /\ TextCleared
    /\ SettleReturns
    /\ UNCHANGED <<reqVars, arrival, bodyVars, body_too_large, procVars, files,
                   diskVars, faults>>

\* add_kv has no memory and its result is not looked at.
SettleTextNoMemory ==
    /\ Committing /\ ~NoField /\ ~is_file
    /\ Fails
    /\ TextCleared
    /\ SettleReturns
    /\ UNCHANGED <<reqVars, arrival, bodyVars, body_too_large, procVars,
                   resultVars, diskVars>>

DiscardText ==
    /\ Discarding /\ ~NoField /\ ~is_file
    /\ TextCleared
    /\ SettleReturns
    /\ UNCHANGED <<reqVars, arrival, bodyVars, body_too_large, procVars,
                   resultVars, diskVars, faults>>

\* After an abort the post-processor is destroyed; the rest of the chunk is
\* never seen and later chunks are collected raw.
Drop ==
    /\ pc = "drop"
    /\ post_processor' = FALSE
    /\ pending' = 0
    /\ pc' = "wait"
    /\ UNCHANGED <<reqVars, sent, bodyVars, body_too_large, is_multipart,
                   multipart_field, resultVars, fieldVars, diskVars, faults>>

-----------------------------------------------------------------------------
(* mhd_handler: the call after the last chunk, and request_completed       *)

Finish ==
    /\ pc = "wait" /\ sent = Len(events)
    /\ pc' = IF Parsing THEN "last" ELSE "finish"
    /\ UNCHANGED <<reqVars, arrival, bodyVars, body_too_large, procVars,
                   resultVars, fieldVars, diskVars, faults>>

\* form_body_parser on a body whose bytes each stand for one key and value.
FormPairs(bytes) == [i \in 1 .. Len(bytes) |-> <<Empty, <<bytes[i]>>>>]

\* The field is freed and a urlencoded body parsed.  The middleware and, if
\* the body was not too large, the handler run in the state this leads to.
FinishForm ==
    /\ pc = "finish"
    /\ post_processor' = FALSE /\ multipart_field' = FALSE
    /\ key' = Empty /\ is_file' = FALSE
    /\ value' = <<>> /\ value_len' = 0 /\ tmp_path' = None
    /\ form' = IF form = <<>> /\ ctype = "urlencoded" THEN FormPairs(body)
                                                      ELSE form
    /\ pc' = "ready"
    /\ UNCHANGED <<reqVars, arrival, bodyVars, body_too_large, is_multipart,
                   files, diskVars, faults>>

\* MHD is done with the request: it was answered, or the connection ended.
RequestCompleted ==
    /\ pc \in {"wait", "ready"}
    /\ post_processor' = FALSE
    /\ pc' = "cleanup"
    /\ UNCHANGED <<reqVars, arrival, bodyVars, body_too_large, is_multipart,
                   multipart_field, resultVars, fieldVars, diskVars, faults>>

\* free_file_uploads, and everything else the request owns.
Free ==
    /\ pc = "free"
    /\ pc' = "idle"
    /\ ctype' = "other" /\ events' = <<>>
    /\ sent' = 0 /\ pending' = 0
    /\ body' = <<>> /\ body_length' = 0 /\ body_too_large' = FALSE
    /\ is_multipart' = FALSE /\ post_processor' = FALSE
    /\ multipart_field' = FALSE
    /\ form' = <<>> /\ files' = <<>>
    /\ key' = Empty /\ is_file' = FALSE
    /\ value' = <<>> /\ value_len' = 0 /\ tmp_path' = None
    /\ Unlink({files[i].path : i \in 1 .. Len(files)})
    /\ UNCHANGED faults

ChunkArrives ==
    \E k \in 1 .. Len(events) :
        \/ ChunkParsed(k) \/ ChunkTooLarge(k)
        \/ RawTooLarge(k) \/ RawAppend(k) \/ RawNoMemory(k)

Settle ==
    \/ SettleNothing
    \/ SettleFile \/ SettleFileNoMemory \/ DiscardFile
    \/ SettleText \/ SettleTextNoMemory \/ DiscardText

Next ==
    \/ \E r \in Requests : Begin(r) \/ BeginNoMemory(r)
    \/ ChunkArrives
    \/ Malformed \/ IterateSkip \/ Iterate
    \/ OpenText \/ (\E n \in TmpNames : OpenFile(n)) \/ OpenFileFailed
    \/ AppendText \/ AppendFile \/ AppendFailed
    \/ Settle
    \/ Drop \/ Finish \/ FinishForm
    \/ RequestCompleted \/ Free

Spec == Init /\ [][Next]_vars

-----------------------------------------------------------------------------
(* Properties                                                              *)

File == [key : Keys \cup {Empty}, path : TmpNames, size : Nat]

\* Types of the request, of the field under assembly and of the file system.
TypeOK ==
    /\ pc \in {"idle", "wait", "parse", "settle", "open", "append", "abort",
              "drop", "last", "finish", "ready", "cleanup", "free"}
    /\ ctype \in ContentTypes /\ events \in Seq(Event)
    /\ sent \in 0 .. Len(events) /\ pending \in 0 .. sent
    /\ body \in Seq(Token) /\ body_length \in Nat
    /\ body_too_large \in BOOLEAN /\ is_multipart \in BOOLEAN
    /\ post_processor \in BOOLEAN /\ multipart_field \in BOOLEAN
    /\ form \in Seq((Keys \cup {Empty}) \X Seq(Token)) /\ files \in Seq(File)
    /\ key \in Keys \cup {Empty} /\ is_file \in BOOLEAN
    /\ value \in Seq(Token) /\ value_len \in Nat
    /\ tmp_path \in TmpNames \cup {None}
    /\ tmp_files \in SUBSET TmpNames /\ contents \in [TmpNames -> Seq(Token)]
    /\ faults \in 0 .. MaxFaults

\* The temporary files of the committed uploads.
Spooled == {files[i].path : i \in 1 .. Len(files)}

\* Whatever fails and wherever the client goes away, the temporary files on
\* disk are exactly the request's: each has one owner that will unlink it,
\* an upload in req->files or the open field, and none outlives the request.
TempFilesOwned ==
    /\ tmp_files = Spooled \cup ({tmp_path} \ {None})
    /\ tmp_path \notin Spooled
    /\ \A i, j \in 1 .. Len(files) : files[i].path = files[j].path => i = j
    /\ pc = "idle" => tmp_files = {}

\* How far the thread and the field under assembly can be apart.  A file is
\* open only while its field is, under a live post-processor until cleanup;
\* it has no name only between a failed mkstemp and the discard.
FieldShape ==
    /\ post_processor => multipart_field
    /\ pc \in {"parse", "settle", "open", "append", "abort", "drop"} => Parsing
    /\ pc \in {"parse", "settle", "open", "append"} => pending > 0
    /\ pc \in {"settle", "open"} => CurrentEvent.key # None
    /\ is_file =>
          /\ pc \in {"wait", "parse", "settle", "append", "abort", "last",
                     "cleanup"}
          /\ pc # "cleanup" => Parsing
          /\ multipart_field
          /\ tmp_path = None => pc = "abort"
    /\ ~is_file => tmp_path = None
    /\ pc = "idle" => files = <<>> /\ sent = 0 /\ pending = 0

\* The handler runs now: before() middleware let the request through.
Handling == pc = "ready" /\ ~body_too_large

\* Reference: the bytes the client sent in part p, with the first n of evs and
\* in all; the places where the named parts that are files, or are not, begin;
\* and the number that place i has among those in S.
DataUpTo(evs, p, n) ==
    LET upTo[m \in 0 .. n] ==
            IF m = 0 THEN <<>>
            ELSE IF evs[m].part = p THEN upTo[m - 1] \o evs[m].data
            ELSE upTo[m - 1]
    IN  upTo[n]
PartData(p) == DataUpTo(events, p, Len(events))
Starts(isFile) ==
    {i \in DOMAIN events :
        LET e == events[i] IN e.off = 0 /\ e.key # None /\ e.file = isFile
                              /\ (isFile \/ e.key # Empty)}
Number(i, S) == Cardinality({j \in S : j <= i})

\* The files of a name, the oldest of which is the last in req->files.
papago_req_files(k, max_out) ==
    LET named == {o \in DOMAIN files : files[o].key = k}
        count == Cardinality(named)
    IN  [i \in 1 .. (IF count > max_out THEN max_out ELSE count) |->
            files[CHOOSE o \in named :
                      Cardinality({q \in named : q >= o}) = i]]

\* req->files and papago_req_files: nothing lost or invented, every file
\* with its own bytes and size, and the list asked for in the order sent.
FilesExact ==
    (Handling /\ is_multipart /\ faults = 0) =>
        \A k \in Keys \cup {Empty}, max_out \in 1 .. Len(files) + 1 :
            LET out == papago_req_files(k, max_out)
                sentFiles == {i \in Starts(TRUE) : events[i].key = k}
                count == Cardinality(sentFiles)
            IN  /\ Len(out) = IF count > max_out THEN max_out ELSE count
                /\ \A i \in sentFiles :
                      LET n == Number(i, sentFiles) IN
                      n <= max_out =>
                          /\ contents[out[n].path] = PartData(events[i].part)
                          /\ out[n].size = Len(contents[out[n].path])

\* Every text field of a multipart body reaches the handler as one form
\* entry with its own bytes, in the order sent.
FormExact ==
    (Handling /\ is_multipart /\ faults = 0) =>
        LET texts == Starts(FALSE)
        IN  /\ Len(form) = Cardinality(texts)
            /\ \A i \in texts : form[Number(i, texts)] =
                                  <<events[i].key, PartData(events[i].part)>>

\* The part iterated before part p, if its key was not NULL, was a text field
\* with a name, or p is the first.
AfterText(p) ==
    \A i \in 1 .. Len(events) :
        LET e == events[i] IN
        (/\ e.part < p /\ e.key # None
         /\ \A j \in (i + 1) .. Len(events) :
                events[j].part < p => events[j].part = e.part
                                      \/ events[j].key = None)
        => ~e.file /\ e.key # Empty

\* What does hold of the form: one entry for each named text field, and the
\* right bytes in the ones that come first or follow another text field.
FormKeepsFields ==
    (Handling /\ is_multipart /\ faults = 0) =>
        LET texts == Starts(FALSE)
        IN  /\ Len(form) = Cardinality(texts)
            /\ \A i \in texts :
                  LET entry == form[Number(i, texts)] IN
                  /\ entry[1] = events[i].key
                  /\ AfterText(events[i].part) =>
                        entry[2] = PartData(events[i].part)

\* A body collected raw reaches the handler whole: all bytes sent, in order,
\* however they were cut into chunks.
RawBodyExact ==
    (Handling /\ ~is_multipart /\ faults = 0) =>
        body = [i \in 1 .. Len(events) |-> Byte(events[i])]

\* The handler is kept from a request exactly when its body is over the
\* limit, although a raw body's length is counted from zero again after it.
TooLargeExact ==
    (pc = "ready" /\ faults = 0) =>
        (body_too_large <=> Len(events) > max_body_size)

\* The total size of a list of uploads, added up from the oldest.
TotalSize(fs) ==
    LET sum[i \in 0 .. Len(fs)] ==
            IF i = 0 THEN 0 ELSE sum[i - 1] + fs[Len(fs) + 1 - i].size
    IN  sum[Len(fs)]

\* The bytes a request has on disk.
Held == TotalSize(files) + (IF is_file THEN value_len ELSE 0)

\* The limit also bounds what a request may hold while it is being read: the
\* bytes spooled to disk, and the bytes of the raw body.
HeldBounded ==
    /\ Held <= max_body_size
    /\ Len(body) <= max_body_size

\* What multipart_iterator and multipart_field_finish hand over: every upload
\* and every field is there once, in the order sent, with the bytes sent.
PartsDelivered == FilesExact /\ FormKeepsFields

\* What mhd_handler makes of the chunks it is called with: the whole body or a
\* refusal, by the limit alone, which also bounds what is held meanwhile.
BodyLimited == RawBodyExact /\ TooLargeExact /\ HeldBounded
=============================================================================
