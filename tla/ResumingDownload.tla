--------------------------- MODULE ResumingDownload ---------------------------
(***************************************************************************)
(* The download of the guest images: InitDownload::init asks for a cookie, *)
(* for the confirmation of a large file and then for the file, each        *)
(* through Cmd::http, and unpacks the file while ResumingReader reads it.  *)
(*                                                                         *)
(* External are the server, which may redirect, refuse, stall or ignore    *)
(* the Range header; and xz and tar, which unpack exactly the file's bytes *)
(* in their order or fail.                                                 *)
(***************************************************************************)
EXTENDS Integers, Sequences

CONSTANTS FileLength,    \* bytes of the file
          MaxHops,       \* requests http makes before it gives up; 10 in the code
          MaxTimeouts    \* bound: times the server stalls

ASSUME DownloadAssumption ==
  FileLength \in Nat \ {0} /\ MaxHops \in Nat \ {0} /\ MaxTimeouts \in Nat

VARIABLES stage,      \* the request under way, or "reading", "unpacked", "panicked"
          hops,       \* redirections followed in it
          honours,    \* the server honours Range
          current,    \* ResumingReader.current
          position,   \* where in the file the body of the response stands
          delivered,  \* the bytes read, each named by its place in the file
          timeouts

download == <<stage, hops, honours, current, position, delivered, timeouts>>

Requests == {"cookie", "confirm", "file"}
Ended == {"unpacked", "panicked"}

DownloadTypeOK ==
  /\ stage \in {"off", "reading"} \cup Requests \cup Ended
  /\ hops \in 0 .. MaxHops
  /\ honours \in BOOLEAN
  /\ position \in 0 .. FileLength
  /\ delivered \in Seq(1 .. FileLength) /\ current = Len(delivered)
  /\ timeouts \in 0 .. MaxTimeouts

DownloadInit ==
  /\ stage = "off" /\ hops = 0 /\ honours \in BOOLEAN
  /\ current = 0 /\ position = 0 /\ delivered = <<>> /\ timeouts = 0

Begin ==
  /\ stage' = "cookie" /\ hops' = 0 /\ current' = 0 /\ position' = 0 /\ delivered' = <<>>
  /\ UNCHANGED <<honours, timeouts>>

-----------------------------------------------------------------------------
TooMany(n) == n = MaxHops

\* http: one more of at most MaxHops requests.
Redirected ==
  /\ stage \in Requests
  /\ hops' = hops + 1
  /\ stage' = IF TooMany(hops') THEN "panicked" ELSE stage
  /\ UNCHANGED <<honours, current, position, delivered, timeouts>>

\* Any other status and any failure to send panic; so do a missing cookie, a
\* page without confirmation and a response without Content-Length.
Refused ==
  /\ stage \in Requests
  /\ stage' = "panicked"
  /\ UNCHANGED <<hops, honours, current, position, delivered, timeouts>>

\* Mutant: the restarted request asks for the whole file again.
FromTheStart == 0

\* Range: bytes={current}-
Offset == current

\* A server that ignores Range sends the whole file: 200 is a success as 206 is.
Succeeded ==
  /\ stage \in Requests
  /\ hops' = 0
  /\ CASE stage = "cookie" -> stage' = "confirm" /\ UNCHANGED position
       [] stage = "confirm" -> stage' = "file" /\ UNCHANGED position
       [] stage = "file" -> stage' = "reading" /\ position' = IF honours THEN Offset ELSE 0
  /\ UNCHANGED <<honours, current, delivered, timeouts>>

\* ResumingReader::read, when some of the body is there.
ReadSome ==
  /\ stage = "reading" /\ position < FileLength
  /\ \E n \in 1 .. FileLength - position :
       /\ delivered' = delivered \o [k \in 1 .. n |-> position + k]
       /\ current' = current + n
       /\ position' = position + n
  /\ UNCHANGED <<stage, hops, honours, timeouts>>

\* A timeout restarts the request where the reading stopped.
TimedOut ==
  /\ stage = "reading" /\ timeouts < MaxTimeouts
  /\ timeouts' = timeouts + 1
  /\ stage' = "file" /\ hops' = 0
  /\ UNCHANGED <<honours, current, position, delivered>>

\* Any other failure, or an Interrupted that xz or tar passes on, panics.
Broke ==
  /\ stage = "reading"
  /\ stage' = "panicked"
  /\ UNCHANGED <<hops, honours, current, position, delivered, timeouts>>

\* The end of the body: xz and tar accept the file, and nothing else.
Unpacked ==
  /\ stage = "reading" /\ position = FileLength
  /\ stage' = IF delivered = [k \in 1 .. FileLength |-> k] THEN "unpacked" ELSE "panicked"
  /\ UNCHANGED <<hops, honours, current, position, delivered, timeouts>>

DownloadStep == Redirected \/ Refused \/ Succeeded \/ ReadSome \/ TimedOut \/ Broke \/ Unpacked

-----------------------------------------------------------------------------
(* However often the download is restarted, its readers get the file's     *)
(* bytes in order, none twice and none left out, as long as the server     *)
(* honours Range.                                                          *)
DownloadedOnce == honours => \A k \in DOMAIN delivered : delivered[k] = k
=============================================================================
