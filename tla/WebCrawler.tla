------------------------------ MODULE WebCrawler ------------------------------
(***************************************************************************)
(* crawl_page of generators/web_crawler.py: one page, fetched and          *)
(* extracted under one deadline and a cap on its body.                     *)
(*                                                                         *)
(* The body is counted in blocks, of which Cap fit under max_bytes.  A     *)
(* reply is                                                                *)
(*   status    "2xx", "3xx" or "other"                                     *)
(*   identity  it is not compressed                                        *)
(*   length    its Content-Length, None, or Invalid                        *)
(*   coding    its Transfer-Encoding: "none", "chunked" or "other"         *)
(*   size      the blocks of the page, as the server has it                *)
(*   sent      the blocks that come through before the end of the stream   *)
(* What is extracted of the text is left out, but that it may raise.       *)
(***************************************************************************)
EXTENDS Integers, FiniteSetsExt

CONSTANTS None,
          Invalid,      \* a Content-Length that is no number
          Replies,      \* what the server may answer
          Cap,          \* max_bytes
          Timeout,      \* timeout
          MaxAddresses  \* bound: addresses of a host

\* validate_limits
ASSUME CrawlerAssumption ==
  /\ Cap \in Nat \ {0}
  /\ Timeout \in Nat \ {0}
  /\ MaxAddresses \in Nat \ {0}
  /\ None \notin Int /\ Invalid \notin Int \cup {None}

\* A Content-Length that is a number is that of the page.
ASSUME RepliesAssumption ==
  \A r \in Replies :
    /\ r.identity \in BOOLEAN
    /\ r.size \in Nat /\ r.sent \in 0 .. r.size
    /\ r.length \in {None, Invalid, r.size}

VARIABLES
  at,        \* where crawl_page is
  left,      \* deadline.remaining()
  untried,   \* addresses not tried yet
  reply,     \* the response, or None
  got,       \* len(body)
  complete,  \* result["response_complete"]
  succeeded  \* result["execution_status"] is "succeeded"

page == <<at, left, untried, reply, got, complete, succeeded>>

PageInit ==
  /\ at = "resolve"
  /\ left = Timeout
  /\ untried = 0
  /\ reply = None
  /\ got = 0
  /\ complete = FALSE
  /\ succeeded = FALSE

Waiting == at \in {"resolve", "connect", "request", "headers", "body"}

\* An exception: the connection is closed, and what has come is extracted.
Fail ==
  /\ at' = "extract"
  /\ UNCHANGED <<left, untried, reply, got, complete, succeeded>>

Elapse ==
  /\ at # "over"
  /\ left > 0
  /\ left' = left - 1
  /\ UNCHANGED <<at, untried, reply, got, complete, succeeded>>

\* Each wait ends when the deadline does, since each sets its own timeout to
\* what remains.
TimesOut ==
  /\ Waiting
  /\ left = 0
  /\ Fail

\* An OSError or an HTTPException.  In "connect" it is one of socket.socket,
\* after which no other address is tried.
Breaks ==
  /\ Waiting
  /\ left > 0
  /\ Fail

----------------------------------------------------------------------------
(* The connection                                                           *)

\* A host name is resolved by a daemon thread, a numeric address at once.
Resolve(numeric) ==
  /\ at = "resolve" /\ left > 0
  /\ untried' \in 1 .. (IF numeric THEN 1 ELSE MaxAddresses)
  /\ at' = "connect"
  /\ UNCHANGED <<left, reply, got, complete, succeeded>>

Connects ==
  /\ at = "connect" /\ left > 0
  /\ at' = "request"
  /\ UNCHANGED <<left, untried, reply, got, complete, succeeded>>

\* The next address is tried; the error of the last one is raised.
Refused ==
  /\ at = "connect" /\ left > 0
  /\ untried' = untried - 1
  /\ at' = IF untried = 1 THEN "extract" ELSE "connect"
  /\ UNCHANGED <<left, reply, got, complete, succeeded>>

\* The TLS handshake, and conn.request
SendRequest ==
  /\ at = "request" /\ left > 0
  /\ at' = "headers"
  /\ UNCHANGED <<left, untried, reply, got, complete, succeeded>>

----------------------------------------------------------------------------
(* The response                                                             *)

Acceptable(r) ==
  /\ r.status # "3xx"
  /\ r.identity
  /\ r.length # Invalid
  /\ r.coding = "none" \/ (r.coding = "chunked" /\ r.length = None)

GetResponse ==
  /\ at = "headers" /\ left > 0
  /\ reply' \in Replies
  /\ at' = IF Acceptable(reply') THEN "body" ELSE "extract"
  /\ UNCHANGED <<left, untried, got, complete, succeeded>>

\* http.client gives no more of a body than its Content-Length.
Readable == IF reply.length = None THEN reply.sent ELSE Min({reply.sent, reply.length})

\* response.read1: any part of what there is, under the cap
ReadBody ==
  /\ at = "body" /\ left > 0
  /\ got' \in got + 1 .. Min({Cap, Readable})
  /\ UNCHANGED <<at, left, untried, reply, complete, succeeded>>

\* The loop ends with the body; at the cap only if its length is known.
\* http.client raises IncompleteRead for a chunked body that is cut short.
BodyEnds ==
  IF got = Cap THEN reply.length = Cap
  ELSE got = Readable /\ (reply.coding = "chunked" => reply.sent = reply.size)

CapReached == got = Cap /\ reply.length # Cap

\* Mutant of LengthAgrees: the end of the stream is the end of the body.
AnyLength == TRUE

LengthAgrees == reply.length \in {None, got}

EndBody ==
  /\ at = "body" /\ left > 0
  /\ BodyEnds
  /\ complete' = LengthAgrees
  /\ succeeded' = (LengthAgrees /\ reply.status = "2xx")
  /\ at' = "extract"
  /\ UNCHANGED <<left, untried, reply, got>>

Truncated ==
  /\ at = "body" /\ left > 0
  /\ CapReached
  /\ Fail

----------------------------------------------------------------------------

\* Extraction, which may raise if there is a body, and the last look at the
\* deadline
Extract ==
  /\ at = "extract"
  /\ at' = "over"
  /\ \/ succeeded' = (succeeded /\ left > 0)
     \/ got > 0 /\ succeeded' = FALSE
  /\ UNCHANGED <<left, untried, reply, got, complete>>

PageStep(numeric) ==
  \/ Elapse \/ TimesOut \/ Breaks
  \/ Resolve(numeric) \/ Connects \/ Refused \/ SendRequest
  \/ GetResponse \/ ReadBody \/ EndBody \/ Truncated
  \/ Extract

\* What needs no answer of the network
PageGoesOn == Elapse \/ TimesOut \/ Truncated \/ Extract

PageTypeOK ==
  /\ at \in {"resolve", "connect", "request", "headers", "body", "extract", "over"}
  /\ left \in 0 .. Timeout
  /\ untried \in 0 .. MaxAddresses
  /\ reply \in Replies \cup {None}
  /\ got \in 0 .. Cap
  /\ {complete, succeeded} \subseteq BOOLEAN
=============================================================================
