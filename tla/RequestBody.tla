---------------------------- MODULE RequestBody ----------------------------
(***************************************************************************)
(* How request bodies are taken in (internal/httpapi/v1/bodybudget.go,     *)
(* audio.go, internal/router/replay.go): a slot to read with, the global   *)
(* budget of bytes in flight, reserved and given back by atomic operations *)
(* on one counter, and the temporary files an audio upload leaves behind.  *)
(* A unit of bytes is what the tests below tell apart; removing a file     *)
(* does not fail.                                                          *)
(***************************************************************************)
EXTENDS Naturals, FiniteSets, FiniteSetsExt

CONSTANTS
  Uploads,        \* requests with a body
  BodyLimit,      \* the endpoint's limit
  ReadWindow,     \* bodyBudgetChunkSize
  ChunkedReserve, \* chunkedReserveBytes
  MaxInFlight,    \* maxInFlightBodyBytes
  MaxReads,       \* maxConcurrentBodyReads
  Lengths         \* the lengths requests state; -1 stands for a chunked body

ASSUME BodyAssumption ==
  /\ IsFiniteSet(Uploads)
  /\ BodyLimit \in Nat /\ MaxInFlight \in Nat /\ MaxReads \in Nat
  /\ ReadWindow \in Nat \ {0} /\ ChunkedReserve \in Nat \ {0}
  /\ \A length \in Lengths : length \in Nat \/ length = -1

VARIABLES
  inFlight, \* inFlightBodyBytes
  reads,    \* the slots taken in bodyReadSemaphore
  upload    \* per request: its state and its lease

bodyVars == <<inFlight, reads, upload>>

Waiting == [at |-> "new", kind |-> "json", length |-> 0, bytes |-> 0, want |-> 0, saw |-> 0,
            held |-> 0, slot |-> FALSE, files |-> {}, answer |-> "none"]

\* An answered request; what it was answered is of no further use.
Over == [Waiting EXCEPT !.at = "done"]

BodyInit ==
  /\ inFlight = 0 /\ reads = 0
  /\ upload = [u \in Uploads |-> Waiting]

At(u, where) == upload[u].at = where
Chunked(u) == upload[u].length = -1

(***************************************************************************)
(* acquireBodyLease.                                                       *)
(***************************************************************************)
\* What is reserved before a byte is read.
FirstReservation(length) ==
  IF length = -1 THEN ChunkedReserve ELSE IF length = 0 THEN 1 ELSE length

Arrive(u, kind, length) ==
  /\ At(u, "new")
  /\ LET come == [Waiting EXCEPT !.kind = kind, !.length = length] IN
     CASE length > BodyLimit ->
            /\ upload' = [upload EXCEPT ![u] = Over]
            /\ UNCHANGED reads
       [] length <= BodyLimit /\ reads = MaxReads ->
            /\ upload' = [upload EXCEPT ![u] = Over]
            /\ UNCHANGED reads
       [] OTHER ->
            /\ upload' = [upload EXCEPT ![u] =
                 [come EXCEPT !.at = "load", !.slot = TRUE, !.want = FirstReservation(length)]]
            /\ reads' = reads + 1
  /\ UNCHANGED inFlight

\* How far the next read may reach: one byte past the limit shows that it is passed.
Window(held) == Min({ReadWindow, BodyLimit + 1 - held})

(***************************************************************************)
(* tryReserve and the first reservation: load, then compare and swap.      *)
(***************************************************************************)
Fits(u) == inFlight + upload[u].want <= MaxInFlight

Load(u) ==
  /\ At(u, "load") /\ Fits(u)
  /\ upload' = [upload EXCEPT ![u].at = "swap", ![u].saw = inFlight]
  /\ UNCHANGED <<inFlight, reads>>

\* The counter moved in between: load it again.
SwapFails(u) ==
  /\ At(u, "swap") /\ inFlight # upload[u].saw
  /\ upload' = [upload EXCEPT ![u].at = "load", ![u].saw = 0]
  /\ UNCHANGED <<inFlight, reads>>

\* Slip: the counter is stored without comparing it.
AnySwap(u) == TRUE

MaySwap(u) == inFlight = upload[u].saw

Swap(u) ==
  /\ At(u, "swap") /\ MaySwap(u)
  /\ inFlight' = upload[u].saw + upload[u].want
  /\ LET first == upload[u].bytes = 0 IN
     upload' = [upload EXCEPT ![u].bytes = @ + upload[u].want,
                              ![u].at = IF first /\ Chunked(u) THEN "load" ELSE "reading",
                              ![u].want = IF first /\ Chunked(u) THEN Window(0) ELSE @,
                              ![u].saw = 0]
  /\ UNCHANGED reads

SlotGivenUp(u) == FALSE

\* The budget is used up: before the first byte the slot goes back at once.
Refused(u) ==
  /\ At(u, "load") /\ ~Fits(u)
  /\ IF upload[u].bytes = 0
       THEN /\ upload' = [upload EXCEPT ![u] = [Over EXCEPT !.slot = SlotGivenUp(u)]]
            /\ reads' = IF upload'[u].slot THEN reads ELSE reads - 1
       ELSE /\ upload' = [upload EXCEPT ![u].at = "read", ![u].answer = "no budget", ![u].held = 0]
            /\ UNCHANGED reads
  /\ UNCHANGED inFlight

(***************************************************************************)
(* Reading.                                                                *)
(***************************************************************************)
\* releaseReserved: the part of the window that was not filled goes back.
Unfilled(u, n) == upload[u].want - n

\* One read of a chunked body: n bytes and how the reader goes on.
ReadChunk(u, n, how) ==
  LET held == upload[u].held + n IN
  /\ At(u, "reading") /\ Chunked(u)
  /\ n <= upload[u].want
  /\ n = 0 /\ how = "more" => upload[u].kind = "json"
  /\ inFlight' = inFlight - Unfilled(u, n)
  /\ LET next == [upload[u] EXCEPT !.bytes = @ - Unfilled(u, n), !.held = held, !.want = Window(held)] IN
     upload' = [upload EXCEPT ![u] =
       CASE held > BodyLimit -> [next EXCEPT !.at = "read", !.answer = "too large", !.held = 0]
         [] held <= BodyLimit /\ how = "fails" -> [next EXCEPT !.at = "read", !.answer = "unreadable", !.held = 0]
         [] held <= BodyLimit /\ (how = "eof" \/ (how = "more" /\ n = 0)) -> [next EXCEPT !.at = "read"]
         [] OTHER -> [next EXCEPT !.at = "load"]]
  /\ UNCHANGED reads

\* A body of stated length is read whole; the deadline or the client may end it early.
ReadBounded(u, ok) ==
  /\ At(u, "reading") /\ ~Chunked(u)
  /\ upload' = [upload EXCEPT ![u].at = "read",
                              ![u].held = IF ok THEN upload[u].length ELSE 0,
                              ![u].answer = IF ok THEN "none" ELSE "unreadable"]
  /\ UNCHANGED <<inFlight, reads>>

Failed(u) == upload[u].answer # "none"

(***************************************************************************)
(* After the last read.                                                    *)
(***************************************************************************)
\* NewReplayableBodyFromReader: a small file is kept in memory, and a copy that
\* fails leaves nothing behind.
SourceFiles(large) == IF large THEN {"source"} ELSE {}

\* ParseMultipart: large parts are in files of the form, a large audio file is
\* copied to one of its own; a form that does not parse keeps only its files.
ParseMultipart(u, form, source, parses) ==
  /\ At(u, "read") /\ upload[u].kind = "audio"
  /\ source => parses
  /\ Failed(u) => ~parses
  /\ upload' = [upload EXCEPT ![u].at = "parsed",
       ![u].files = (IF form THEN {"form"} ELSE {}) \cup SourceFiles(source),
       ![u].answer = IF parses THEN "none" ELSE IF @ = "too large" THEN @ ELSE "invalid audio"]
  /\ UNCHANGED <<inFlight, reads>>

\* What the lease is set to: the payload's size, or what the wrapper charged.
Actual(u) ==
  IF upload[u].kind = "audio" THEN (IF Chunked(u) THEN upload[u].bytes - ChunkedReserve ELSE upload[u].bytes)
  ELSE upload[u].held

\* A JSON body is reconciled and then gives up its slot, an upload the other way
\* round; then the form's files go.
Settled(u) ==
  [upload[u] EXCEPT !.files = @ \ {"form"},
     !.at = CASE Failed(u) -> "closing"
              [] ~Failed(u) /\ upload[u].kind = "json" -> "serving"
              [] OTHER -> "encode"]

Reconcile(u) ==
  LET last == upload[u].kind = "audio" IN
  /\ At(u, IF last THEN "settling" ELSE "read")
  /\ inFlight' = inFlight + Actual(u) - upload[u].bytes
  /\ upload' = [upload EXCEPT ![u] =
       [(IF last THEN Settled(u) ELSE [upload[u] EXCEPT !.at = "settling"]) EXCEPT !.bytes = Actual(u)]]
  /\ UNCHANGED reads

ReleaseSlot(u) ==
  LET last == upload[u].kind = "json" IN
  /\ At(u, IF last THEN "settling" ELSE "parsed")
  /\ reads' = reads - 1
  /\ upload' = [upload EXCEPT ![u] =
       [(IF last THEN Settled(u) ELSE [upload[u] EXCEPT !.at = "settling"]) EXCEPT !.slot = FALSE]]
  /\ UNCHANGED inFlight

\* CaptureStreamedReplay: a failed capture is removed, a good one stays.
Captured(files, ok) == IF ok THEN files \cup {"replay"} ELSE files

\* EncodeUpstream: the replay takes the source's place.  The model may also be
\* unknown, which ends the request the same way.
EncodeUpstream(u, ok) ==
  /\ At(u, "encode")
  /\ upload' = [upload EXCEPT ![u].files = Captured(@, ok) \ (IF ok THEN {"source"} ELSE {}),
                              ![u].at = IF ok THEN "serving" ELSE "closing",
                              ![u].answer = IF ok THEN @ ELSE "error"]
  /\ UNCHANGED <<inFlight, reads>>

\* The request is answered; the deferred calls run.
Serve(u) ==
  /\ At(u, "serving")
  /\ upload' = [upload EXCEPT ![u].at = "closing", ![u].answer = "served"]
  /\ UNCHANGED <<inFlight, reads>>

FilesAfterClose(u) == {}

Release(u) ==
  /\ At(u, "closing")
  /\ inFlight' = inFlight - upload[u].bytes
  /\ upload' = [upload EXCEPT ![u] = [Over EXCEPT !.files = FilesAfterClose(u)]]
  /\ UNCHANGED reads

BodyStep(u) ==
  \/ \E kind \in {"json", "audio"}, length \in Lengths : Arrive(u, kind, length)
  \/ Load(u) \/ SwapFails(u) \/ Swap(u) \/ Refused(u)
  \/ \E n \in 0 .. ReadWindow, how \in {"more", "eof", "fails"} : ReadChunk(u, n, how)
  \/ \E ok \in BOOLEAN : ReadBounded(u, ok) \/ EncodeUpstream(u, ok)
  \/ \E form, source, parses \in BOOLEAN : ParseMultipart(u, form, source, parses)
  \/ Reconcile(u) \/ ReleaseSlot(u) \/ Serve(u) \/ Release(u)

BodyNext == \E u \in Uploads : BodyStep(u)

(***************************************************************************)
(* Properties.                                                             *)
(***************************************************************************)
\* The bytes that the leases stand for, each with its request.
Leased == UNION {{u} \X (1 .. upload[u].bytes) : u \in Uploads}

\* The counter is the sum of the leases, never above the budget, and every lease
\* covers what its request holds in memory, although it is extended, trimmed and
\* reconciled without a lock (bodybudget.go:78-156).
BudgetIsExact ==
  /\ inFlight = Cardinality(Leased)
  /\ inFlight <= MaxInFlight
  /\ \A u \in Uploads : upload[u].held <= upload[u].bytes

\* A request that has been answered has given back its slot, its bytes and its
\* temporary files, on every error path (bodybudget.go:146-194, audio.go:95-165).
NothingKept ==
  /\ reads = Cardinality({u \in Uploads : upload[u].slot})
  /\ \A u \in Uploads : At(u, "done") => ~upload[u].slot /\ upload[u].bytes = 0 /\ upload[u].files = {}

\* The budget is what is in memory and nothing of it is kept by a finished request.
BudgetIsKept == BudgetIsExact /\ NothingKept
=============================================================================
