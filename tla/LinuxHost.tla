----------------------------- MODULE LinuxHost ------------------------------
(***************************************************************************)
(* The Linux Vulkan host: a main thread that answers the browser's framed  *)
(* messages on stdin and ends the process when nobody has used it for a    *)
(* while, a thread that serves frames to pages over loopback HTTP, one     *)
(* connection at a time, and the GPU both share under a mutex.             *)
(*                                                                         *)
(* Time is counted in ticks: the idle clock counts up to IdleBudget, a     *)
(* deadline counts down to 0.  The browser reads what the host writes to   *)
(* stdout, so a reply there is part of the action that ends in it.         *)
(***************************************************************************)
EXTENDS Integers

CONSTANTS
  IdleBudget,    \* ticks without use before the host exits (--idle-timeout)
  RequestBudget, \* ticks a page has to send one request (REQUEST_BUDGET_MS)
  LineCap,       \* pieces of one unfinished line the buffer of a connection holds
  MaxBody,       \* pieces a frame's pixels may arrive in
  MaxPieces      \* pieces a message on stdin may arrive in

ASSUME LinuxHostAssumption ==
  /\ IdleBudget \in Nat \ {0} /\ RequestBudget \in Nat \ {0} /\ LineCap \in Nat \ {0}
  /\ MaxBody \in Nat /\ MaxPieces \in Nat \ {0}

VARIABLES
  main,     \* the main thread: its step, its deadline, the pieces or warm frames it has behind it
  http,     \* the accept thread: its step, its deadline, the request it reads, the reply it sends
  peer,     \* the page at the other end of the connection
  shut,     \* stop() has shut the connection down
  connFd,   \* conn_fd_ holds the connection
  listener, \* the listening socket
  stopping, \* stop_
  gpu,      \* the mutex, and the frame its owner records
  gpuUp,    \* the models are loaded and the instance lives
  weights,  \* weightsGpu_ is set; the copy it stands for has been made
  idle      \* ticks since the last activity

hostVars == <<main, http, peer, shut, connFd, listener, stopping, gpu, gpuUp, weights, idle>>
mainVars == <<listener, stopping, gpuUp>>
connVars == <<http, peer, shut, connFd>>
gpuVars == <<gpu, weights>>

At(step) == [step |-> step, left |-> 0, got |-> 0]

Served(step) ==
  [step |-> step, left |-> 0, held |-> 0, rest |-> 0, keep |-> FALSE, frame |-> FALSE]

Free == [owner |-> "none", engine |-> "none", clone |-> FALSE]

NoWeights == [latched |-> FALSE, written |-> FALSE]

HostInit ==
  /\ main = At("init") /\ http = Served("off") /\ peer = "none"
  /\ shut = FALSE /\ connFd = FALSE /\ stopping = FALSE /\ gpuUp = FALSE
  /\ listener = "none" /\ gpu = Free /\ weights = NoWeights /\ idle = 0

-----------------------------------------------------------------------------
(* One frame on the GPU (run_gpu_frame)                                    *)

\* "ncnn": the weights of the hand-written engine are not touched, because it was not asked
\* for, is not ready, or the frame is tiled.  "tried": it failed after its weights were looked
\* after, and ncnn takes the frame over.  "srvgg": it serves the frame.
Engines == {"ncnn", "tried", "srvgg"}

\* The weights are latched the moment their copy is recorded.
Latched(w, engine) == IF engine = "ncnn" THEN w ELSE [w EXCEPT !.latched = TRUE]

Records(w, engine) == engine # "ncnn" /\ ~w.latched

\* How the recorded frame ends: it fails before the submit, the submit fails, the frame is
\* served, or its download was no good.
Ends == {"lost", "failed", "done", "unusable"}

\* The weights after it: a failed submit re-arms the upload, a submit makes the copy.
After(w, frame, end) ==
  CASE end = "lost" -> w
    [] end = "failed" -> IF frame.engine = "ncnn" THEN w ELSE NoWeights
    [] OTHER -> [w EXCEPT !.written = @ \/ frame.clone]

\* A thread takes the mutex and records its frame.
Record(thread) ==
  /\ gpu.owner = "none"
  /\ \E engine \in Engines :
       /\ gpu' = [owner |-> thread, engine |-> engine, clone |-> Records(weights, engine)]
       /\ weights' = Latched(weights, engine)

\* The frame ends and the mutex is released.
Submit(thread, end) ==
  /\ gpu.owner = thread
  /\ gpu' = Free
  /\ weights' = After(weights, gpu, end)

-----------------------------------------------------------------------------
(* Startup (main, GpuRuntime)                                              *)

\* No Vulkan device: the process ends.
InitDevice ==
  /\ main.step = "init"
  /\ \E found \in BOOLEAN : main' = At(IF found THEN "load" ELSE "exited")
  /\ UNCHANGED <<mainVars, connVars, gpuVars, idle>>

\* A model or an allocator that cannot be had ends the process as well.
LoadModels ==
  /\ main.step = "load"
  /\ \E loaded \in BOOLEAN :
       /\ main' = At(IF loaded THEN "warm" ELSE "exited")
       /\ gpuUp' = loaded
  /\ UNCHANGED <<listener, stopping, connVars, gpuVars, idle>>

\* Two tiny frames before anybody is served; the second only if the first went well.
WarmFrame ==
  /\ main.step = "warm"
  /\ \E engine \in Engines, end \in Ends :
       /\ weights' = After(Latched(weights, engine),
                           [engine |-> engine, clone |-> Records(weights, engine)], end)
       /\ main' = IF end = "done" /\ main.got = 0 THEN [main EXCEPT !.got = 1] ELSE At("start")
  /\ UNCHANGED <<mainVars, connVars, gpu, idle>>

WarmupSkipped ==
  /\ main.step = "warm" /\ main.got = 0
  /\ main' = At("start")
  /\ UNCHANGED <<mainVars, connVars, gpuVars, idle>>

\* HttpTransport.start: without a socket the host serves stdin alone.
StartHttp ==
  /\ main.step = "start"
  /\ idle' = 0
  /\ main' = At("loop")
  /\ \E bound \in BOOLEAN :
       /\ listener' = IF bound THEN "open" ELSE "none"
       /\ http' = Served(IF bound THEN "accept" ELSE "off")
  /\ UNCHANGED <<stopping, gpuUp, gpuVars, peer, shut, connFd>>

-----------------------------------------------------------------------------
(* The loop of the main thread                                             *)

\* The idle check; the wait that follows it and the read after that share one deadline.
LoopCheck ==
  /\ main.step = "loop"
  /\ main' = IF idle >= IdleBudget THEN At("stop")
                                   ELSE [At("poll") EXCEPT !.left = IdleBudget - idle]
  /\ UNCHANGED <<mainVars, connVars, gpuVars, idle>>

PollTimedOut ==
  /\ main.step = "poll" /\ main.left = 0
  /\ main' = At("loop")
  /\ UNCHANGED <<mainVars, connVars, gpuVars, idle>>

\* The browser has sent something, perhaps only the first bytes of a message.
PollReady ==
  /\ main.step = "poll"
  /\ main' = [main EXCEPT !.step = "read"]
  /\ UNCHANGED <<mainVars, connVars, gpuVars, idle>>

\* The browser is gone: a hang-up in the wait, the end of the file or an error in the read.
BrowserGone ==
  /\ main.step \in {"poll", "read"}
  /\ main' = At("stop")
  /\ UNCHANGED <<mainVars, connVars, gpuVars, idle>>

ReadPiece ==
  /\ main.step = "read" /\ main.left > 0 /\ main.got < MaxPieces
  /\ main' = [main EXCEPT !.got = @ + 1]
  /\ UNCHANGED <<mainVars, connVars, gpuVars, idle>>

\* mutant: the deadline is only looked at before the first piece
ReadTimedOutOnce ==
  /\ main.step = "read" /\ main.left = 0 /\ main.got = 0
  /\ main' = At("stop")
  /\ UNCHANGED <<mainVars, connVars, gpuVars, idle>>

\* No complete message by the deadline: the host ends, as if it had been idle.
ReadTimedOut ==
  /\ main.step = "read" /\ main.left = 0
  /\ main' = At("stop")
  /\ UNCHANGED <<mainVars, connVars, gpuVars, idle>>

\* An oversized message is drained and refused; it is no activity.
ReadOversize ==
  /\ main.step = "read" /\ main.left > 0
  /\ main' = At("loop")
  /\ UNCHANGED <<mainVars, connVars, gpuVars, idle>>

\* A complete message is activity.  A frame goes to the GPU; everything else, invalid
\* requests included, is answered at once.
ReadMessage ==
  /\ main.step = "read" /\ main.left > 0
  /\ idle' = 0
  /\ \E frame \in BOOLEAN : main' = At(IF frame THEN "lock" ELSE "loop")
  /\ UNCHANGED <<mainVars, connVars, gpuVars>>

MainRecords ==
  /\ main.step = "lock"
  /\ Record("main")
  /\ main' = At("gpu")
  /\ UNCHANGED <<mainVars, connVars, idle>>

MainSubmits ==
  /\ main.step = "gpu"
  /\ \E end \in Ends : Submit("main", end)
  /\ main' = At("loop")
  /\ UNCHANGED <<mainVars, connVars, idle>>

-----------------------------------------------------------------------------
(* Shutdown (HttpTransport.stop and the end of main)                       *)

\* stop_ and the listening socket, when there is one.
StopListening ==
  /\ main.step = "stop"
  /\ main' = At("hangup")
  /\ IF listener = "open" THEN listener' = "closed" /\ stopping' = TRUE
                          ELSE UNCHANGED <<listener, stopping>>
  /\ UNCHANGED <<gpuUp, connVars, gpuVars, idle>>

\* mutant: the connection being served is left alone
HangupNot ==
  /\ main.step = "hangup"
  /\ main' = At("join")
  /\ connFd' = FALSE
  /\ UNCHANGED <<mainVars, gpuVars, http, peer, shut, idle>>

\* The connection being served is shut down, which wakes its handler.
Hangup ==
  /\ main.step = "hangup"
  /\ main' = At("join")
  /\ shut' = (shut \/ connFd)
  /\ connFd' = FALSE
  /\ UNCHANGED <<mainVars, gpuVars, http, peer, idle>>

\* mutant: the accept thread is not waited for
JoinNot ==
  /\ main.step = "join"
  /\ main' = At("down")
  /\ UNCHANGED <<mainVars, connVars, gpuVars, idle>>

Join ==
  /\ main.step = "join" /\ http.step \in {"off", "ended"}
  /\ main' = At("down")
  /\ UNCHANGED <<mainVars, connVars, gpuVars, idle>>

\* The pipeline cache is saved, everything on the GPU is released, the process ends.
ShutDown ==
  /\ main.step = "down"
  /\ main' = At("exited")
  /\ gpuUp' = FALSE
  /\ weights' = NoWeights
  /\ UNCHANGED <<listener, stopping, connVars, gpu, idle>>

-----------------------------------------------------------------------------
(* The accept thread                                                       *)

\* A page connects.  Its socket is accepted before conn_fd_ says so.
Accept ==
  /\ http.step = "accept" /\ listener = "open"
  /\ http' = Served("accepted")
  /\ peer' = "reading"
  /\ UNCHANGED <<main, mainVars, gpuVars, shut, connFd, idle>>

AcceptEnds ==
  /\ http.step = "accept" /\ listener = "closed"
  /\ http' = Served("ended")
  /\ UNCHANGED <<main, mainVars, gpuVars, peer, shut, connFd, idle>>

\* A request is read against a budget of its own.
NextRequest == [Served("line") EXCEPT !.left = RequestBudget]

Store ==
  /\ http.step = "accepted"
  /\ connFd' = TRUE
  /\ http' = NextRequest
  /\ UNCHANGED <<main, mainVars, gpuVars, peer, shut, idle>>

\* fill() gets bytes: the socket is alive, the budget is not used up, nobody stops the host,
\* and there is room for them.
CanFill ==
  /\ ~stopping /\ ~shut /\ http.left > 0
  /\ peer \in {"reading", "deaf"} /\ http.held < LineCap

FillFails ==
  \/ stopping \/ shut \/ http.left = 0
  \/ peer = "gone" \/ http.held = LineCap

\* Bytes that do not finish a line.
LinePiece ==
  /\ http.step \in {"line", "headers"} /\ CanFill
  /\ http' = [http EXCEPT !.held = @ + 1]
  /\ UNCHANGED <<main, mainVars, gpuVars, peer, shut, connFd, idle>>

\* The request line; a malformed one is refused.
RequestLine ==
  /\ http.step = "line" /\ CanFill
  /\ \E wellFormed \in BOOLEAN :
       http' = IF wellFormed THEN [http EXCEPT !.step = "headers", !.held = 0] ELSE Served("reply")
  /\ UNCHANGED <<main, mainVars, gpuVars, peer, shut, connFd, idle>>

RequestLineFails ==
  /\ http.step = "line" /\ FillFails
  /\ http' = Served("close")
  /\ UNCHANGED <<main, mainVars, gpuVars, peer, shut, connFd, idle>>

\* mutant: every header line renews the budget
HeaderLineRenews ==
  /\ http.step = "headers" /\ CanFill
  /\ http' = [http EXCEPT !.held = 0, !.left = RequestBudget]
  /\ UNCHANGED <<main, mainVars, gpuVars, peer, shut, connFd, idle>>

\* A header line that is not the last one; one that came in a single piece changes nothing.
HeaderLine ==
  /\ http.step = "headers" /\ CanFill /\ http.held > 0
  /\ http' = [http EXCEPT !.held = 0]
  /\ UNCHANGED <<main, mainVars, gpuVars, peer, shut, connFd, idle>>

\* The blank line, or a read that failed: the loop over the headers just ends, and what has
\* been read so far decides.  A frame's pixels may be in the buffer already, unless it is empty.
HeadersEnd ==
  /\ http.step = "headers" /\ (CanFill \/ FillFails)
  /\ \/ \E keep \in BOOLEAN : http' = [Served("reply") EXCEPT !.keep = keep]  \* a preflight
     \/ http' = Served("reply")                                               \* refused
     \/ \E keep \in BOOLEAN, rest \in 0..MaxBody :
          /\ rest = 0 => CanFill \/ http.held > 0
          /\ http' = [http EXCEPT !.step = "body", !.held = 0, !.rest = rest, !.keep = keep]
  /\ UNCHANGED <<main, mainVars, gpuVars, peer, shut, connFd, idle>>

BodyPiece ==
  /\ http.step = "body" /\ http.rest > 0 /\ CanFill
  /\ http' = [http EXCEPT !.rest = @ - 1]
  /\ UNCHANGED <<main, mainVars, gpuVars, peer, shut, connFd, idle>>

BodyFails ==
  /\ http.step = "body" /\ http.rest > 0 /\ FillFails
  /\ http' = Served("close")
  /\ UNCHANGED <<main, mainVars, gpuVars, peer, shut, connFd, idle>>

BodyDone ==
  /\ http.step = "body" /\ http.rest = 0
  /\ http' = [Served("lock") EXCEPT !.keep = http.keep]
  /\ UNCHANGED <<main, mainVars, gpuVars, peer, shut, connFd, idle>>

HttpRecords ==
  /\ http.step = "lock"
  /\ Record("http")
  /\ http' = [http EXCEPT !.step = "gpu"]
  /\ UNCHANGED <<main, mainVars, peer, shut, connFd, idle>>

\* A served frame is activity; a failed one is answered with an error and ends the connection.
HttpSubmits ==
  /\ http.step = "gpu"
  /\ \E end \in Ends :
       /\ Submit("http", end)
       /\ IF end = "done"
            THEN http' = [http EXCEPT !.step = "reply", !.frame = TRUE] /\ idle' = 0
            ELSE http' = Served("reply") /\ UNCHANGED idle
  /\ UNCHANGED <<main, mainVars, peer, shut, connFd>>

\* send_all blocks while the page does not read a frame; a short text fits the socket's buffer.
SendEnds == http.frame => shut \/ peer # "deaf"

\* Whether the reply arrived is not looked at.
ReplyEnds ==
  /\ http.step = "reply" /\ SendEnds
  /\ http' = IF http.keep THEN NextRequest ELSE Served("close")
  /\ UNCHANGED <<main, mainVars, gpuVars, peer, shut, connFd, idle>>

\* conn_fd_ is cleared, the socket closed, and the next connection taken unless stopped.
ConnEnds ==
  /\ http.step = "close"
  /\ http' = Served(IF stopping THEN "ended" ELSE "accept")
  /\ connFd' = FALSE
  /\ peer' = "none"
  /\ shut' = FALSE
  /\ UNCHANGED <<main, mainVars, gpuVars, idle>>

-----------------------------------------------------------------------------
(* The page and the clock                                                  *)

PeerChanges ==
  /\ peer \in {"reading", "deaf"}
  /\ peer' \in {"reading", "deaf", "gone"} \ {peer}
  /\ UNCHANGED <<main, mainVars, gpuVars, http, shut, connFd, idle>>

Less(n) == IF n = 0 THEN 0 ELSE n - 1

Tick ==
  /\ main.step \notin {"init", "load", "warm", "start", "exited"}
  /\ idle < IdleBudget \/ main.left > 0 \/ http.left > 0
  /\ idle' = IF idle < IdleBudget THEN idle + 1 ELSE idle
  /\ main' = [main EXCEPT !.left = Less(@)]
  /\ http' = [http EXCEPT !.left = Less(@)]
  /\ UNCHANGED <<mainVars, gpuVars, peer, shut, connFd>>

-----------------------------------------------------------------------------
\* What the main thread does without waiting for the browser.
MainStep ==
  \/ InitDevice \/ LoadModels \/ WarmFrame \/ StartHttp
  \/ LoopCheck \/ PollTimedOut \/ ReadTimedOut \/ MainRecords \/ MainSubmits
  \/ StopListening \/ Hangup \/ Join \/ ShutDown

\* What the accept thread does without waiting for a page.
HttpStep ==
  \/ AcceptEnds \/ Store \/ RequestLineFails \/ (FillFails /\ HeadersEnd)
  \/ BodyFails \/ BodyDone \/ HttpRecords \/ HttpSubmits \/ ReplyEnds \/ ConnEnds

\* The browser and the pages.
Outside ==
  \/ WarmupSkipped
  \/ PollReady \/ BrowserGone \/ ReadPiece \/ ReadOversize \/ ReadMessage
  \/ Accept \/ LinePiece \/ RequestLine \/ HeaderLine \/ (CanFill /\ HeadersEnd) \/ BodyPiece
  \/ PeerChanges

HostNext == MainStep \/ HttpStep \/ Outside \/ Tick

HostSpec == HostInit /\ [][HostNext]_hostVars

\* Both threads keep running, a thread that waits for a mutex released again and again gets it,
\* and time passes; nobody outside owes the host anything.
FairSpec ==
  /\ HostSpec
  /\ WF_hostVars(MainStep) /\ SF_hostVars(MainRecords)
  /\ WF_hostVars(HttpStep) /\ SF_hostVars(HttpRecords)
  /\ WF_hostVars(Tick)

-----------------------------------------------------------------------------
MainSteps == {"init", "load", "warm", "start", "loop", "poll", "read", "lock", "gpu",
              "stop", "hangup", "join", "down", "exited"}
Reading == {"line", "headers", "body"}
HttpSteps == Reading \cup {"off", "accept", "accepted", "lock", "gpu", "reply", "close", "ended"}

\* Every variable has its type.
HostTypeOK ==
  /\ main \in [step : MainSteps, left : 0..IdleBudget, got : 0..MaxPieces]
  /\ http \in [step : HttpSteps, left : 0..RequestBudget, held : 0..LineCap, rest : 0..MaxBody,
               keep : BOOLEAN, frame : BOOLEAN]
  /\ peer \in {"none", "reading", "deaf", "gone"}
  /\ shut \in BOOLEAN /\ connFd \in BOOLEAN /\ stopping \in BOOLEAN /\ gpuUp \in BOOLEAN
  /\ listener \in {"none", "open", "closed"}
  /\ gpu \in [owner : {"none", "main", "http"}, engine : Engines \cup {"none"}, clone : BOOLEAN]
  /\ weights \in [latched : BOOLEAN, written : BOOLEAN]
  /\ idle \in 0..IdleBudget

\* Nobody works on the GPU, or can still come to it, once the main thread is past the point
\* where it saves the pipeline cache and takes everything down ("GPU idle"); and the two
\* threads never work on it at once.
GpuOwned ==
  /\ main.step = "gpu" \/ http.step = "gpu" => gpuUp
  /\ ~(main.step = "gpu" /\ http.step = "gpu")
  /\ main.step \in {"down", "exited"} => http.step \in {"off", "ended"} /\ gpu = Free

\* A frame the hand-written engine serves reads weights that an earlier submit has written or
\* that this frame's own command writes first.
ServedWithWeights ==
  gpu.engine = "srvgg" => weights.written \/ gpu.clone

\* A host that has begun to stop ends, whatever the connected page does.
StopFinishes ==
  main.step \in {"stop", "hangup", "join", "down"} ~> main.step = "exited"

\* No page keeps the accept thread reading one request for ever, however it trickles.
ReadersLetGo == http.step \in Reading ~> http.step \notin Reading

\* A host nobody uses any more ends, even with a message half sent or a page connected.
ForgottenHostExits == []<>(idle = 0) \/ <>(main.step = "exited")

\* A page that stops reading does not keep the accept thread for ever.
WedgedPageLetsGo == http.step = "reply" ~> http.step # "reply"
=============================================================================
