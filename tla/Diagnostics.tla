------------------------------ MODULE Diagnostics ------------------------------
(***************************************************************************)
(* DiagnosticsService with its built-in upload (setDiagnosticsReader) over the *)
(* FTP client of FtpMbedTLS.cpp.  GetDiagnostics schedules an upload; loop()    *)
(* begins it, drives the transfer, and reports every change of the status with *)
(* a DiagnosticsStatusNotification.                                         *)
(*                                                                         *)
(* A transfer has a control connection, on which the server answers each command *)
(* in one way or another, and a data connection, which takes any part of what is *)
(* in the buffer.  The file is put together chunk by chunk: a preamble, the     *)
(* output of the diagnosticsReader, a postamble, and each file on the flash      *)
(* under a heading.  A byte of it is <<piece, position>>; a byte of a heading    *)
(* has a negative position.                                                 *)
(***************************************************************************)
EXTENDS Integers, Sequences, SequencesExt

CONSTANTS
    Secure,           \* the location is ftps://
    DataBufSize,      \* data_buf_size; more than a heading
    PreambleLen, ReaderLen, PostambleLen, HeadingLen,
    FileLengths,      \* of the files in the order found; -1 if one cannot be opened
    InitialDelay, UploadTimeout, TransitionDelay,
    RetryIntervals, MaxRetries,
    Word,             \* 2^w, of the unsigned retries
    OneAtATime,       \* the server does not ask for diagnostics while they are uploaded
    LastTime, MaxRequests

VARIABLES
    now,
    retries, retryInterval, nextTry,
    uploadIssued, uploadFailure, lastReportedStatus,
    upload,           \* ftpUpload and what its callbacks share with the service
    requests

dgVars == <<now, retries, retryInterval, nextTry, uploadIssued, uploadFailure,
            lastReportedStatus, upload, requests>>

Smaller(a, b) == IF a < b THEN a ELSE b
Piece(p, from, n) == [k \in 1 .. n |-> <<p, from + k>>]

-----------------------------------------------------------------------------
(* The file reader.  A state of it is what has been transferred of each part;  *)
(* out is the chunk so far, and full says that nothing more goes into it.       *)

Room(r) == IF r.full THEN 0 ELSE DataBufSize - Len(r.out)

\* What is read from a buffer that has been freed is none of the pieces.
Live(r, p) == IF r.freed THEN 0 ELSE p

FromPreamble(r) ==
    LET n == Smaller(Room(r), PreambleLen - r.preamble)
    IN  [r EXCEPT !.out = @ \o Piece(Live(r, 1), r.preamble, n), !.preamble = @ + n]
FromReader(r) ==
    LET n == Smaller(Room(r), ReaderLen - r.reader)
    IN  [r EXCEPT !.out = @ \o Piece(2, r.reader, n), !.reader = @ + n]
FromPostamble(r) ==
    LET n == Smaller(Room(r), PostambleLen - r.postamble)
    IN  [r EXCEPT !.out = @ \o Piece(Live(r, 3), r.postamble, n), !.postamble = @ + n]

Heading(f) == [k \in 1 .. HeadingLen |-> <<3 + f, -k>>]
\* Mutant: a heading that fills the buffer up is written.
WithHeadingExact(r) ==
    IF r.offset > 0 THEN r
    ELSE IF HeadingLen > Room(r) THEN [r EXCEPT !.full = TRUE]
    ELSE [r EXCEPT !.out = @ \o Heading(Last(r.files))]

\* The heading is written with some of the file, or the next time.
WithHeading(r) ==
    IF r.offset > 0 THEN r
    ELSE IF HeadingLen >= Room(r) THEN [r EXCEPT !.full = TRUE]
    ELSE [r EXCEPT !.out = @ \o Heading(Last(r.files))]

\* The file at the back of the list is taken off it when its end has been read.
FromFile(r) ==
    IF r.files = <<>> \/ Room(r) = 0 THEN r
    ELSE IF FileLengths[Last(r.files)] < 0 THEN [r EXCEPT !.files = Front(@), !.offset = 0]
    ELSE LET h == WithHeading(r)
             n == Smaller(Room(h), FileLengths[Last(r.files)] - h.offset)
             s == [h EXCEPT !.out = @ \o Piece(3 + Last(r.files), h.offset, n), !.offset = @ + n]
         IN  IF h.full THEN h
             ELSE IF n < Room(h) THEN [s EXCEPT !.files = Front(@), !.offset = 0]
             ELSE s

FullReport == [preamble |-> 0, reader |-> 0, postamble |-> 0, offset |-> 0, full |-> FALSE, freed |-> FALSE,
               files |-> [f \in 1 .. Len(FileLengths) |-> f], out |-> <<>>]

Chunk(r) ==
    FoldLeft(LAMBDA x, f : FromFile(x),
             FromPostamble(FromReader(FromPreamble([r EXCEPT !.out = <<>>, !.full = FALSE]))),
             r.files)

\* What the server is to receive.
Content ==
    Piece(1, 0, PreambleLen) \o Piece(2, 0, ReaderLen) \o Piece(3, 0, PostambleLen)
    \o FoldLeft(LAMBDA c, f : IF FileLengths[f] < 0 THEN c
                              ELSE c \o Heading(f) \o Piece(3 + f, 0, FileLengths[f]),
                <<>>, Reverse(FullReport.files))

-----------------------------------------------------------------------------
(* The FTP transfer.                                                        *)

NoUpload == [present |-> FALSE, ctrl |-> FALSE, cmd |-> "connect", tls |-> FALSE, data |-> "closed",
             accepted |-> FALSE, onClose |-> FALSE, buf |-> <<>>, sent |-> <<>>,
             report |-> FullReport, status |-> "NotUploaded"]

\* postFile() has opened the control connection.
Posted == [NoUpload EXCEPT !.present = TRUE, !.ctrl = TRUE, !.onClose = TRUE]

IsActive(u) == u.ctrl \/ u.data # "closed"

\* The onClose of setDiagnosticsReader.
Closed(u, status) ==
    IF ~u.onClose THEN u
    ELSE [u EXCEPT !.onClose = FALSE, !.status = status, !.report = FullReport]

close_ctrl(u) ==
    LET v == [u EXCEPT !.ctrl = FALSE, !.tls = FALSE]
    IN  IF u.ctrl /\ u.data = "closed" THEN Closed(v, "UploadFailed") ELSE v

close_data(u, status) == Closed([u EXCEPT !.data = "closed", !.accepted = FALSE], status)

\* The message may be lost, which ends the control connection.
send_cmd(u, cmd) == {[u EXCEPT !.cmd = cmd], close_ctrl(u)}

\* The connection fails, or the session cannot be reused, which leaves it unsecured unless
\* one before has been secured.
connect_data(u) ==
    send_cmd([u EXCEPT !.data = "open"], "STOR") \union send_cmd(u, "QUIT")
    \union (IF Secure /\ u.data # "open"
            THEN send_cmd([u EXCEPT !.data = "unsecured"], "QUIT") ELSE {})

NextCommand == [connect |-> IF Secure THEN "AUTH" ELSE "USER", AUTH |-> "USER",
                USER |-> "PASS", PASS |-> "CWD", CWD |-> "PASV"]

\* 530 is taken after each command, once the policy on TLS is met.  Not modelled: a server
\* that says so while it is taking the report.
LogsInAgain(u) == u.cmd \notin {"connect", "AUTH"} /\ (Secure => u.tls) /\ ~u.accepted

\* What becomes of the transfer with no reply, with the end of the connection or 221, with a
\* reply that ends the transfer (226 and all errors), with 530, which starts over with USER,
\* and with the reply that takes it on: 227 opens the data connection, 150 accepts it.
process_ctrl(u) ==
    {u, close_ctrl(u)}
    \union (IF u.cmd = "QUIT" THEN {} ELSE send_cmd(u, "QUIT"))
    \union (IF LogsInAgain(u) THEN send_cmd(u, "USER") ELSE {})
    \union (IF u.cmd = "PASV" THEN connect_data(u)
            ELSE IF u.cmd = "STOR" /\ u.data # "closed" THEN {[u EXCEPT !.accepted = TRUE]}
            ELSE IF u.cmd \in DOMAIN NextCommand
                 THEN send_cmd([u EXCEPT !.tls = @ \/ u.cmd = "AUTH"], NextCommand[u.cmd])
            ELSE {})

\* One part of the buffer is written, or none of it, or the connection is lost.
process_data(u) ==
    LET r == Chunk(u.report)
        w == IF u.buf # <<>> THEN u ELSE [u EXCEPT !.report = r, !.buf = r.out]
    IN  IF u.data = "closed" \/ ~u.accepted THEN {u}
        ELSE IF u.data = "unsecured" THEN send_cmd(close_data(u, "UploadFailed"), "QUIT")
        ELSE IF w.buf = <<>> THEN {close_data(w, "Uploaded")}
        ELSE {w} \union send_cmd(close_data(w, "UploadFailed"), "QUIT")
             \union {[w EXCEPT !.sent = @ \o SubSeq(w.buf, 1, n),
                               !.buf = SubSeq(w.buf, n + 1, Len(w.buf))] : n \in 1 .. Len(w.buf)}

ftp_loop(u) ==
    IF u.ctrl THEN UNION {process_data(v) : v \in process_ctrl(u)} ELSE process_data(u)

\* ftpUpload.reset()
Reset(u) ==
    [NoUpload EXCEPT !.sent = u.sent, !.status = Closed(u, "UploadFailed").status]

\* DiagnosticsService::loop() runs the transfer twice, or takes it away when it is over.
Driven(u) ==
    IF ~u.present THEN {u}
    ELSE LET once == IF IsActive(u) THEN ftp_loop(u) ELSE {u}
         IN  UNION {IF IsActive(v) THEN ftp_loop(v) ELSE {Reset(v)} : v \in once}

\* onUpload(): there is no memory or no connection, or the transfer begins.  It replaces one
\* that has not ended, whose onClose takes the new report away.
onUpload(u) ==
    {[Reset(u) EXCEPT !.status = "UploadFailed"]}
    \union (IF u.onClose THEN {[Posted EXCEPT !.report.freed = TRUE, !.report.files = <<>>]}
            ELSE {Posted})

-----------------------------------------------------------------------------
(* The service.                                                             *)

getDiagnosticsStatus(u) ==
    IF uploadFailure THEN "UploadFailed"
    ELSE IF ~uploadIssued THEN "Idle"
    ELSE IF u.status = "NotUploaded" THEN "Uploading" ELSE u.status

\* The routine after the notification, as far as it is under way.
Routine(u) ==
    [upload |-> u, retries |-> retries, nextTry |-> nextTry,
     issued |-> uploadIssued, failure |-> uploadFailure]

Issued(s) ==
    IF s.issued THEN {s}
    ELSE {[s EXCEPT !.upload = v, !.issued = TRUE, !.failure = FALSE] : v \in onUpload(s.upload)}

Succeeded(s) ==
    IF s.upload.status = "Uploaded" THEN [s EXCEPT !.issued = FALSE, !.retries = 0] ELSE s

\* The number of retries wraps when a success is found too late.
Failed(s) ==
    IF now - s.nextTry < UploadTimeout /\ s.upload.status # "UploadFailed" THEN s
    ELSE LET left == (s.retries - 1) % Word
         IN  [s EXCEPT
                !.upload = Reset(@),
                !.nextTry = IF retryInterval <= UploadTimeout + TransitionDelay
                            THEN now + TransitionDelay ELSE @ + retryInterval,
                !.retries = left,
                !.failure = @ \/ left = 0]

Tried(u) ==
    IF retries = 0 \/ now < nextTry THEN {Routine(u)}
    ELSE {Failed(Succeeded(s)) : s \in Issued(Routine(u))}

Loop ==
    /\ \E u \in Driven(upload) :
          /\ lastReportedStatus' = getDiagnosticsStatus(u)
          /\ \E s \in Tried(u) :
                /\ upload' = s.upload /\ retries' = s.retries /\ nextTry' = s.nextTry
                /\ uploadIssued' = s.issued /\ uploadFailure' = s.failure
    /\ UNCHANGED <<now, retryInterval, requests>>

\* GetDiagnostics, requestDiagnosticsUpload()
GetDiagnostics ==
    /\ requests < MaxRequests /\ requests' = requests + 1
    /\ OneAtATime => ~upload.onClose
    /\ \E n \in 0 .. MaxRetries, i \in RetryIntervals : retries' = n /\ retryInterval' = i
    /\ nextTry' = now + InitialDelay
    /\ uploadIssued' = FALSE
    /\ UNCHANGED <<now, uploadFailure, lastReportedStatus, upload>>

Tick ==
    /\ now < LastTime /\ now' = now + 1
    /\ UNCHANGED <<retries, retryInterval, nextTry, uploadIssued, uploadFailure,
                   lastReportedStatus, upload, requests>>

Init ==
    /\ now = 0 /\ nextTry = 0 /\ retries = 0 /\ retryInterval = 0 /\ requests = 0
    /\ uploadIssued = FALSE /\ uploadFailure = FALSE /\ lastReportedStatus = "Idle"
    /\ upload = NoUpload

Next == Loop \/ GetDiagnostics \/ Tick

-----------------------------------------------------------------------------
(* Properties.                                                             *)

TypeOK ==
    /\ now \in 0 .. LastTime /\ retries \in 0 .. Word - 1
    /\ uploadIssued \in BOOLEAN /\ uploadFailure \in BOOLEAN
    /\ lastReportedStatus \in {"Idle", "Uploading", "Uploaded", "UploadFailed"}
    /\ upload.data \in {"closed", "open", "unsecured"}
    /\ Len(upload.buf) <= DataBufSize
    /\ IsActive(upload) => upload.present

\* When the service has done with an upload, it has reported it as Uploaded, and the server has
\* the whole report: every file once and in full under its heading, however the chunks were
\* cut and the connection took them.
UploadCompleted ==
    [][(uploadIssued /\ ~uploadIssued' /\ requests' = requests)
            => lastReportedStatus' = "Uploaded" /\ upload'.sent = Content]_dgVars
===============================================================================
