----------------------------- MODULE ByteTransfer -----------------------------
(***************************************************************************)
(* The bytes of a file on their way from an upload (napfile_read,          *)
(* napfile_sendfile of send.c) to a download (nap_getfilestart,            *)
(* nap_getfile of files.c): offsets, counts and how a transfer that ended  *)
(* early is taken up again at the length of what has been written.         *)
(*                                                                         *)
(* A byte of the file is its offset, a digit of the size sent before it is *)
(* Digit, the "1" an accepting client begins with is Hello.  The other     *)
(* client may be this program too, or one that seeks rightly.              *)
(***************************************************************************)
EXTENDS Integers, Sequences, FiniteSets

CONSTANTS
    FileSizes,  \* pairs: the size the download expects, the size of the file
    Digits,     \* gf->count, the number of digits of the size
    Chunk,      \* the most bytes read or written at once
    SizeSplit,  \* whether the digits may come in parts
    Seekers,    \* which clients upload: "this", "other"
    MaxResumes  \* bound: times the transfer is taken up again

ASSUME ByteTransferAssumption ==
    /\ FileSizes \subseteq Nat \X Nat /\ Digits \in Nat \ {0} /\ Chunk \in Nat \ {0}
    /\ SizeSplit \in BOOLEAN /\ Seekers \subseteq {"this", "other"} /\ MaxResumes \in Nat

Hello == -1
Digit == -2

VARIABLES
    seeker,    \* which client uploads
    expected,  \* gf->filesize of the download
    actual,    \* gf->filesize of the upload, and the length of its file
    sending,   \* where the upload is
    offset,    \* the position in the uploaded file
    wire,      \* bytes sent and not yet read
    open,      \* whether the upload's end of the connection is open
    getting,   \* where the download is
    resume,    \* gf->resume, the same on both sides
    received,  \* gf->received of the download
    file,      \* the file written, a byte for each offset
    resumes    \* times taken up again

byteVars == <<seeker, expected, actual, sending, offset, wire, open, getting, resume,
              received, file, resumes>>

ByteTransferTypeOK ==
    /\ seeker \in {"this", "other"} /\ <<expected, actual>> \in FileSizes
    /\ sending \in {"request", "data", "ended"}
    /\ offset \in 0 .. actual
    /\ wire \in Seq({Hello, Digit} \cup 0 .. actual) /\ open \in BOOLEAN
    /\ getting \in {"start", "size", "data", "normal", "premature"}
    /\ resume \in Nat /\ received \in Nat
    /\ file \in Seq({Digit} \cup 0 .. actual)
    /\ resumes \in 0 .. MaxResumes

ByteTransferInit ==
    /\ seeker \in Seekers
    /\ \E pair \in FileSizes : expected = pair[1] /\ actual = pair[2]
    /\ sending = "request" /\ offset = 0 /\ wire = <<Hello>> /\ open = TRUE
    /\ getting = "start" /\ resume = 0 /\ received = 0 /\ file = <<>> /\ resumes = 0

Fewer(a, b) == IF a < b THEN a ELSE b

----------------------------------------------------------------------------
(* The upload *)

sizes == <<seeker, expected, actual>>
download == <<getting, resume, received, file>>
upload == <<sending, offset, open>>

\* lseek(gf->write, SEEK_SET, gf->resume) takes the offset 0 and the resume offset
\* for what it counts from: 0 the start, 1 where one is (the start), 2 the end;
\* 3 finds the first data, 4 the first hole (the end); no other is valid.
Seek(n) ==
    IF seeker = "other" THEN n ELSE IF n \in {2, 4} THEN actual ELSE 0

\* napfile_read(): the request is answered with the size, unless it begins
\* beyond the end.
NapfileRead ==
    /\ sending = "request"
    /\ IF resume >= actual
         THEN sending' = "ended" /\ open' = FALSE /\ UNCHANGED <<offset, wire>>
         ELSE /\ sending' = "data" /\ offset' = Seek(resume)
              /\ wire' = wire \o [i \in 1 .. Digits |-> Digit] /\ UNCHANGED open
    /\ UNCHANGED <<sizes, download, resumes>>

\* Mutant: what send() did not take is not gone back for.
SentUnchecked(n, rc) ==
    /\ wire' = wire \o [i \in 1 .. rc |-> offset + i - 1]
    /\ offset' = offset + n

\* n bytes are read and send() takes rc of them; the rest is read again.
Sent(n, rc) ==
    /\ wire' = wire \o [i \in 1 .. rc |-> offset + i - 1]
    /\ offset' = offset + rc

NapfileSendfile ==
    /\ sending = "data" /\ offset < actual
    /\ LET numread == Fewer(Chunk, actual - offset) IN
       \E rc \in 1 .. numread : Sent(numread, rc)
    /\ UNCHANGED <<sizes, sending, open, download, resumes>>

\* The end of the file, or an error.
UploadEnds ==
    /\ sending # "ended"
    /\ sending' = "ended" /\ open' = FALSE
    /\ UNCHANGED <<sizes, offset, wire, download, resumes>>

----------------------------------------------------------------------------
(* The download *)

\* The transfer is over for the download, which closes its end.
Finish(how) ==
    /\ getting' = how /\ wire' = <<>>
    /\ sending' = "ended" /\ open' = FALSE

NapGetfilestart ==
    /\ getting = "start" /\ wire # <<>>
    /\ getting' = "size" /\ wire' = Tail(wire)
    /\ UNCHANGED <<sizes, upload, resume, received, file, resumes>>

\* nap_getfile() while gf->count is set: as many bytes are taken as the expected
\* size has digits.  If n, fewer, have come these are taken and forgotten.  A byte
\* of the file may look like a digit.
NapGetfileSize ==
    /\ getting = "size"
    /\ \E n \in 1 .. Fewer(Digits, Len(wire)) :
         /\ n < Digits => SizeSplit
         /\ \/ /\ wire' = SubSeq(wire, n + 1, Len(wire))
               /\ getting' = IF n = Digits THEN "data" ELSE "size"
               /\ UNCHANGED <<sending, open>>
            \/ /\ n = Digits /\ \E i \in 1 .. Digits : wire[i] # Digit
               /\ Finish("premature")
    /\ UNCHANGED <<sizes, offset, resume, received, file, resumes>>

\* Mutant: the count is not cut at the expected size.
CountUncut(n) == n

\* No more is read than the expected size has room for.
Count(n) == IF n + received + resume > expected THEN expected - received - resume ELSE n

\* The n bytes that have come are read and written; the output was positioned at gf->resume.
NapGetfile ==
  \E n \in 1 .. Fewer(Chunk, Len(wire)) :
    LET rc == Count(n)
    IN /\ getting = "data" /\ rc > 0
       /\ file' = [i \in 1 .. resume + received + rc |->
                      IF i <= resume + received THEN file[i]
                                                ELSE wire[i - resume - received]]
       /\ received' = received + rc
       /\ IF received' + resume >= expected
            THEN Finish("normal")
            ELSE /\ wire' = SubSeq(wire, rc + 1, Len(wire))
                 /\ UNCHANGED <<getting, sending, open>>
       /\ UNCHANGED <<sizes, offset, resume, resumes>>

\* Nothing is left to read, and nothing comes; or nothing is wanted.
NapGetfileEnds ==
    /\ getting = "data"
    /\ \/ wire = <<>> /\ ~ open
       \/ wire # <<>> /\ Count(Fewer(Chunk, Len(wire))) = 0
    /\ Finish(IF received + resume >= expected THEN "normal" ELSE "premature")
    /\ UNCHANGED <<sizes, offset, resume, received, file, resumes>>

\* A read or a write fails, the user deletes the transfer, or it has not begun in
\* time.
DownloadFails ==
    /\ getting \in {"start", "size", "data"}
    /\ Finish("premature")
    /\ UNCHANGED <<sizes, offset, resume, received, file, resumes>>

----------------------------------------------------------------------------

\* cmd_getfile() again: gf->resume is the length of the file there is.
ResumeTransfer ==
    /\ getting = "premature" /\ resumes < MaxResumes
    /\ resumes' = resumes + 1
    /\ resume' = Len(file) /\ received' = 0
    /\ getting' = "start" /\ sending' = "request" /\ offset' = 0
    /\ wire' = <<Hello>> /\ open' = TRUE
    /\ UNCHANGED <<sizes, file>>

ByteTransferNext ==
    \/ NapfileRead \/ NapfileSendfile \/ UploadEnds
    \/ NapGetfilestart \/ NapGetfileSize \/ NapGetfile \/ NapGetfileEnds \/ DownloadFails
    \/ ResumeTransfer

ByteTransferSpec == ByteTransferInit /\ [][ByteTransferNext]_byteVars

----------------------------------------------------------------------------
(* Property *)

\* What has been written is the file's beginning, each byte in its place, however
\* often the transfer was cut off and taken up again; and a transfer that ended
\* normally has written as much as was expected.
BytesInPlace ==
    /\ \A i \in DOMAIN file : file[i] = i - 1
    /\ getting = "normal" => Len(file) = expected
=============================================================================
