--------------------------- MODULE NativeTransport ---------------------------
(***************************************************************************)
(* The HTTP transport to the Vulkan host. The background's broker owns the *)
(* native-messaging port, whose process is the host, and answers with the  *)
(* host's loopback port and token; a page's client caches that endpoint and*)
(* posts frames to it, under a limit of requests in flight, from a ring of *)
(* upload buffers.                                                         *)
(*                                                                         *)
(* Sources: src/src/core/realesrgan-native-vulkan-client.ts and            *)
(* src/src/background/realesrgan-http-info.ts. The host, the browser's     *)
(* fetch and native messaging are external. A host process is a number: its*)
(* endpoint (port and token) is that number too.                           *)
(*                                                                         *)
(* In the page an action is one run-to-completion section. The ones marked *)
(* "task" start when the microtask queue is empty (Checkpoint); microtasks *)
(* run in the order they were queued; a caller may be either.              *)
(***************************************************************************)
EXTENDS Integers, Sequences, FiniteSets

CONSTANTS
  MaxCall,        \* bound: frames per behaviour, numbered as they are submitted
  Planar,         \* the calls of runFrame, whose bytes are their own
  Large,          \* frames beyond REALESRGAN_NATIVE_MAX_FRAME_DIM: the pipeline, which alone
                  \* calls runFrameRgba, does not come with one (realesrgan-pipeline.ts:569)
  MaxInFlight,    \* maxInFlight (8)
  UploadBuffers,  \* uploadBuffers.length (8)
  MaxHost         \* bound: host processes started per behaviour

ASSUME TransportAssumption ==
  /\ MaxCall \in Nat
  /\ Planar \subseteq 1..MaxCall /\ Large \subseteq Planar
  /\ MaxInFlight \in Nat \ {0}
  /\ UploadBuffers \in Nat /\ UploadBuffers >= MaxInFlight
  /\ MaxHost \in Nat

Call  == 1..MaxCall
Host  == 1..MaxHost
None  == 0          \* no endpoint, no port, no handshake
Empty == {}         \* the content of a buffer nobody wrote
Slot  == 0..(UploadBuffers - 1)

VARIABLES
  client,     \* "none", "creating", "ready", "absent": what create() returned
  disposed,
  inFlight,   \* inFlight
  waiters,    \* waiters: calls parked for a slot
  awaiters,   \* calls that await endpointPromise
  micro,      \* calls whose next microtask is queued
  pc,         \* progress of a call
  uploadSlot, \* uploadSlot
  buffer,     \* uploadBuffers: the call whose bytes each holds
  slot,       \* the buffer a call was given
  body,       \* the bytes its POST carried
  endpoint,   \* endpoint of the client
  ep,         \* the endpoint a call uses
  query,      \* endpointPromise: "none", "asked", "shaking" or "replied"
  reply,      \* the answer on its way back
  bPort,      \* port of the broker
  bInfo,      \* info of the broker
  bFresh,     \* now() - infoAt < INFO_TTL_MS
  shake,      \* the handshake inFlight waits for
  alive,      \* host processes, each with its port connected
  gone,       \* ports whose disconnect event is on its way
  started     \* host processes started so far

slotVars   == <<inFlight, waiters, micro>>
uploadVars == <<uploadSlot, buffer, slot, body>>
clientVars == <<client, disposed, slotVars, awaiters, pc, uploadVars, endpoint, ep>>
brokerVars == <<bPort, bInfo, bFresh, shake, alive, gone, started>>
vars       == <<clientVars, query, reply, brokerVars>>

NoShake == [host |-> None, first |-> FALSE, stale |-> FALSE]

Running  == {"await", "ready", "posted", "failing"}
Settled  == {"served", "failed"}
Progress == {"new", "parked", "woken"} \cup Running \cup Settled

\* The microtask queue is empty: the next task may run.
Checkpoint == micro = <<>>
\* c's microtask is the next one.
Turn(c)    == micro # <<>> /\ Head(micro) = c
\* The queue without c's turn, if this is it.
Others(c)  == IF pc[c] = "woken" THEN Tail(micro) ELSE micro
Holders    == {c \in Call : pc[c] \in Running}

Init ==
  /\ client = "none" /\ disposed = FALSE
  /\ inFlight = 0 /\ waiters = <<>> /\ awaiters = <<>> /\ micro = <<>>
  /\ pc = [c \in Call |-> "new"]
  /\ uploadSlot = 0 /\ buffer = [s \in Slot |-> Empty]
  /\ slot = [c \in Call |-> None] /\ body = [c \in Call |-> Empty]
  /\ endpoint = None /\ ep = [c \in Call |-> None]
  /\ query = "none" /\ reply = None
  /\ bPort = None /\ bInfo = None /\ bFresh = FALSE /\ shake = NoShake
  /\ alive = {} /\ gone = {} /\ started = 0

------------------------------------------------------------------------------
(* The client. *)

\* claimUploadBuffer and the copy into it, for the calls that need one.
Claim(c) ==
  IF c \in Planar
  THEN UNCHANGED <<uploadSlot, buffer, slot>>
  ELSE LET next == (uploadSlot + 1) % UploadBuffers
       IN /\ uploadSlot' = next
          /\ buffer' = [buffer EXCEPT ![next] = {c}]
          /\ slot' = [slot EXCEPT ![c] = next]

\* ensureEndpoint up to its first await: a cached endpoint is used at once,
\* a query in flight is shared.
EnsureEndpoint(c) ==
  IF endpoint # None
  THEN /\ pc' = [pc EXCEPT ![c] = "ready"]
       /\ ep' = [ep EXCEPT ![c] = endpoint]
       /\ micro' = Append(Others(c), c)
       /\ UNCHANGED <<query, awaiters>>
  ELSE /\ pc' = [pc EXCEPT ![c] = "await"]
       /\ query' = IF query = "none" THEN "asked" ELSE query
       /\ awaiters' = Append(awaiters, c)
       /\ micro' = Others(c)
       /\ UNCHANGED ep

\* runFrameInner rejects a frame beyond the host's limit.
Oversize(c) ==
  /\ pc' = [pc EXCEPT ![c] = "failing"]
  /\ micro' = Append(Others(c), c)
  /\ UNCHANGED <<ep, query, awaiters>>

\* withSlot's task: the buffer is claimed inside the slot, then runFrameInner
\* rejects an oversize frame or asks for the endpoint.
Enter(c) ==
  /\ inFlight' = inFlight + 1
  /\ Claim(c)
  /\ IF c \in Large THEN Oversize(c) ELSE EnsureEndpoint(c)
  /\ UNCHANGED body

\* mutant: The slot is checked after the wake-up without looking again.
TakeSlotOnce(c) ==
  \/ /\ disposed
     /\ pc' = [pc EXCEPT ![c] = "failed"]
     /\ micro' = Others(c)
     /\ UNCHANGED <<inFlight, waiters, uploadVars, ep, query, awaiters>>
  \/ /\ ~disposed /\ inFlight >= MaxInFlight /\ pc[c] = "new"
     /\ pc' = [pc EXCEPT ![c] = "parked"]
     /\ waiters' = Append(waiters, c)
     /\ micro' = Others(c)
     /\ UNCHANGED <<inFlight, uploadVars, ep, query, awaiters>>
  \/ /\ ~disposed /\ (inFlight < MaxInFlight \/ pc[c] = "woken")
     /\ Enter(c)
     /\ UNCHANGED waiters

\* mutant: The buffer is claimed by the caller before it waits for a slot.
ClaimOutside(c) ==
  \/ /\ disposed
     /\ pc' = [pc EXCEPT ![c] = "failed"]
     /\ micro' = Others(c)
     /\ UNCHANGED <<inFlight, waiters, uploadVars, ep, query, awaiters>>
  \/ /\ ~disposed /\ inFlight >= MaxInFlight
     /\ pc' = [pc EXCEPT ![c] = "parked"]
     /\ waiters' = Append(waiters, c)
     /\ micro' = Others(c)
     /\ (IF pc[c] = "new" THEN Claim(c) ELSE UNCHANGED <<uploadSlot, buffer, slot>>)
     /\ UNCHANGED <<inFlight, body, ep, query, awaiters>>
  \/ /\ ~disposed /\ inFlight < MaxInFlight
     /\ inFlight' = inFlight + 1
     /\ (IF pc[c] = "new" THEN Claim(c) ELSE UNCHANGED <<uploadSlot, buffer, slot>>)
     /\ EnsureEndpoint(c)
     /\ UNCHANGED <<waiters, body>>

\* One pass of withSlot's loop, by a caller or by a waiter that was woken.
TakeSlot(c) ==
  \/ /\ disposed
     /\ pc' = [pc EXCEPT ![c] = "failed"]
     /\ micro' = Others(c)
     /\ UNCHANGED <<inFlight, waiters, uploadVars, ep, query, awaiters>>
  \/ /\ ~disposed /\ inFlight >= MaxInFlight
     /\ pc' = [pc EXCEPT ![c] = "parked"]
     /\ waiters' = Append(waiters, c)
     /\ micro' = Others(c)
     /\ UNCHANGED <<inFlight, uploadVars, ep, query, awaiters>>
  \/ /\ ~disposed /\ inFlight < MaxInFlight
     /\ Enter(c)
     /\ UNCHANGED waiters

\* runFrame or runFrameRgba is called; bytes of the wrong length are refused
\* before a slot is taken.
Run(c) ==
  /\ client = "ready" /\ pc[c] = "new"
  /\ \A d \in 1..(c - 1) : pc[d] # "new"
  /\ \/ TakeSlot(c)
     \/ /\ c \notin Planar
        /\ pc' = [pc EXCEPT ![c] = "failed"]
        /\ UNCHANGED <<slotVars, awaiters, uploadVars, ep, query>>
  /\ UNCHANGED <<client, disposed, endpoint, reply, brokerVars>>

Recheck(c) ==
  /\ pc[c] = "woken" /\ Turn(c)
  /\ TakeSlot(c)
  /\ UNCHANGED <<client, disposed, endpoint, reply, brokerVars>>

\* fetch: the browser copies the bytes of the body when it is called.
Post(c) ==
  /\ pc[c] = "ready" /\ Turn(c)
  /\ micro' = Tail(micro)
  /\ pc' = [pc EXCEPT ![c] = "posted"]
  /\ body' = [body EXCEPT ![c] = IF c \in Planar THEN {c} ELSE buffer[slot[c]]]
  /\ UNCHANGED <<client, disposed, inFlight, waiters, awaiters, uploadSlot, buffer,
                 slot, endpoint, ep, query, reply, brokerVars>>

\* withSlot's finally: the slot is given back and one waiter woken, whatever
\* the outcome.
Release(c, outcome) ==
  LET rest == IF pc[c] = "failing" THEN Tail(micro) ELSE micro
  IN /\ inFlight' = inFlight - 1
     /\ IF waiters = <<>>
        THEN /\ pc' = [pc EXCEPT ![c] = outcome]
             /\ micro' = rest
             /\ UNCHANGED waiters
        ELSE /\ pc' = [pc EXCEPT ![c] = outcome, ![Head(waiters)] = "woken"]
             /\ micro' = Append(rest, Head(waiters))
             /\ waiters' = Tail(waiters)

\* No endpoint, or a frame beyond the host's limit.
Refuse(c) ==
  /\ pc[c] = "failing" /\ Turn(c)
  /\ Release(c, "failed")
  /\ UNCHANGED <<client, disposed, awaiters, uploadVars, endpoint, ep, query, reply, brokerVars>>

\* task: the whole body arrived, of the announced size.
Serve(c) ==
  /\ Checkpoint /\ pc[c] = "posted" /\ ep[c] \in alive
  /\ Release(c, "served")
  /\ UNCHANGED <<client, disposed, awaiters, uploadVars, endpoint, ep, query, reply, brokerVars>>

\* task: refused, timed out, an HTTP error, a body that stalls or is short.
Fail(c) ==
  /\ Checkpoint /\ pc[c] = "posted"
  /\ Release(c, "failed")
  /\ UNCHANGED <<client, disposed, awaiters, uploadVars, endpoint, ep, query, reply, brokerVars>>

\* task: 403, another host listens where the one of this token did.
Reject(c) ==
  /\ Checkpoint /\ pc[c] = "posted"
  /\ ep[c] \notin alive /\ alive # {}
  /\ endpoint' = None
  /\ Release(c, "failed")
  /\ UNCHANGED <<client, disposed, awaiters, uploadVars, ep, query, reply, brokerVars>>

\* task: endpointPromise settles. The calls that share it resume together.
Resolve(info) ==
  /\ query' = "none" /\ reply' = None
  /\ endpoint' = IF info # None THEN info ELSE endpoint
  /\ client' = IF client = "creating" THEN IF info # None THEN "ready" ELSE "absent"
               ELSE client
  /\ pc' = [c \in Call |-> IF pc[c] # "await" THEN pc[c]
                           ELSE IF info # None THEN "ready" ELSE "failing"]
  /\ ep' = [c \in Call |-> IF pc[c] = "await" THEN info ELSE ep[c]]
  /\ micro' = awaiters /\ awaiters' = <<>>
  /\ UNCHANGED <<disposed, inFlight, waiters, uploadVars, brokerVars>>

\* The background's reply; a failure reply is null to the client.
QueryReplied ==
  /\ Checkpoint /\ query = "replied"
  /\ Resolve(reply)

\* CAP_TIMEOUT_MS, or the message fails.
QueryLost ==
  /\ Checkpoint /\ query # "none"
  /\ Resolve(None)

\* create(): the endpoint is resolved before a client is returned.
Create ==
  /\ client \in {"none", "absent"}
  /\ client' = "creating"
  /\ query' = "asked"
  /\ UNCHANGED <<disposed, slotVars, awaiters, pc, uploadVars, endpoint, ep, reply, brokerVars>>

\* mutant: dispose() forgets the parked calls.
DisposeSilently ==
  /\ Checkpoint /\ client = "ready" /\ ~disposed
  /\ disposed' = TRUE
  /\ endpoint' = None
  /\ waiters' = <<>>
  /\ UNCHANGED <<client, pc, inFlight, micro, awaiters, uploadVars, ep, query, reply, brokerVars>>

\* task: dispose() wakes everybody who is parked.
Dispose ==
  /\ Checkpoint /\ client = "ready" /\ ~disposed
  /\ disposed' = TRUE
  /\ endpoint' = None
  /\ waiters' = <<>>
  /\ micro' = waiters
  /\ pc' = [c \in Call |-> IF pc[c] = "parked" THEN "woken" ELSE pc[c]]
  /\ UNCHANGED <<client, inFlight, awaiters, uploadVars, ep, query, reply, brokerVars>>

------------------------------------------------------------------------------
(* The broker. *)

\* invalidate(): a handshake in flight no longer belongs to this generation.
\* The port it drops, if any, disconnects.
Invalidate(port) ==
  /\ bInfo' = None /\ bFresh' = FALSE
  /\ bPort' = None
  /\ alive' = alive \ {port}

\* ensureEndpoint of the broker: over the port it has, or a new one. A connect
\* that throws is an answer too.
Handshake ==
  \/ /\ bPort # None
     /\ shake' = [host |-> bPort, first |-> FALSE, stale |-> FALSE]
     /\ UNCHANGED <<alive, started>>
  \/ /\ bPort = None /\ started < MaxHost
     /\ started' = started + 1
     /\ alive' = alive \cup {started + 1}
     /\ shake' = [host |-> started + 1, first |-> TRUE, stale |-> FALSE]

\* get() for the client's query: a fresh endpoint answers at once, otherwise
\* the query waits for the one handshake in flight.
Get ==
  /\ query = "asked"
  /\ \/ /\ bInfo # None /\ bFresh
        /\ query' = "replied" /\ reply' = bInfo
        /\ UNCHANGED <<shake, alive, started>>
     \/ /\ ~(bInfo # None /\ bFresh)
        /\ \/ /\ shake # NoShake /\ UNCHANGED <<shake, alive, started>>
              /\ query' = "shaking"
           \/ /\ shake = NoShake /\ Handshake
              /\ query' = "shaking"
           \/ /\ shake = NoShake /\ bPort = None
              /\ query' = "replied"
              /\ UNCHANGED <<shake, alive, started>>
        /\ UNCHANGED reply
  /\ UNCHANGED <<clientVars, bPort, bInfo, bFresh, gone>>

\* get() for the client of another document.
GetElsewhere ==
  /\ ~(bInfo # None /\ bFresh) /\ shake = NoShake
  /\ Handshake
  /\ UNCHANGED <<clientVars, query, reply, bPort, bInfo, bFresh, gone>>

Answer(info) ==
  /\ query' = IF query = "shaking" THEN "replied" ELSE query
  /\ reply' = IF query = "shaking" THEN info ELSE reply

\* The host's ready message, with an endpoint: it is cached at once; the port
\* is kept unless the broker was invalidated since the handshake began.
ShakeReady ==
  /\ shake # NoShake /\ shake.host \in alive
  /\ bInfo' = shake.host /\ bFresh' = TRUE
  /\ bPort' = IF shake.first /\ ~shake.stale THEN shake.host ELSE bPort
  /\ alive' = IF shake.first /\ shake.stale THEN alive \ {shake.host} ELSE alive
  /\ Answer(shake.host)
  /\ shake' = NoShake
  /\ UNCHANGED <<clientVars, gone, started>>

\* mutant: A first handshake that fails leaves its port connected.
ShakeFailedLeaks ==
  /\ shake # NoShake
  /\ IF ~shake.first /\ bPort = shake.host
     THEN Invalidate(bPort)
     ELSE UNCHANGED <<bPort, bInfo, bFresh, alive>>
  /\ Answer(None)
  /\ shake' = NoShake
  /\ UNCHANGED <<clientVars, gone, started>>

\* The handshake times out, cannot be posted, or an older host answers: a first
\* port is disconnected, a port that was kept is dropped.
ShakeFailed ==
  /\ shake # NoShake
  /\ IF shake.first
     THEN alive' = alive \ {shake.host} /\ UNCHANGED <<bPort, bInfo, bFresh>>
     ELSE IF bPort = shake.host
          THEN Invalidate(bPort)
          ELSE UNCHANGED <<bPort, bInfo, bFresh, alive>>
  /\ Answer(None)
  /\ shake' = NoShake
  /\ UNCHANGED <<clientVars, gone, started>>

\* A port's disconnect event: the listener of the connection, then the one of
\* a handshake over it.
PortGone(h) ==
  /\ h \in gone
  /\ gone' = gone \ {h}
  /\ IF bPort = h THEN Invalidate(None)
     ELSE UNCHANGED <<bPort, bInfo, bFresh, alive>>
  /\ IF shake.host = h
     THEN Answer(None) /\ shake' = NoShake
     ELSE /\ shake' = IF bPort = h THEN [shake EXCEPT !.stale = shake # NoShake] ELSE shake
          /\ UNCHANGED <<query, reply>>
  /\ UNCHANGED <<clientVars, started>>

\* The endpoint's TTL passes.
InfoExpires ==
  /\ bInfo # None /\ bFresh
  /\ bFresh' = FALSE
  /\ UNCHANGED <<clientVars, query, reply, bPort, bInfo, shake, alive, gone, started>>

\* The host exits or crashes.
HostExits(h) ==
  /\ h \in alive
  /\ alive' = alive \ {h}
  /\ gone' = gone \cup {h}
  /\ UNCHANGED <<clientVars, query, reply, bPort, bInfo, bFresh, shake, started>>

------------------------------------------------------------------------------
ClientStep(c) == Run(c) \/ Recheck(c) \/ Post(c) \/ Refuse(c)
HostStep(c)   == Serve(c) \/ Fail(c) \/ Reject(c)

Next ==
  \/ \E c \in Call : ClientStep(c) \/ HostStep(c)
  \/ Create \/ Dispose \/ QueryReplied \/ QueryLost
  \/ Get \/ GetElsewhere \/ ShakeReady \/ ShakeFailed \/ InfoExpires
  \/ \E h \in Host : PortGone(h) \/ HostExits(h)

\* Microtasks run; a POST is settled by the 6 s of its abort signal or of its
\* body guard, a query by its 10 s timeout.
Fairness ==
  /\ \A c \in Call : /\ WF_vars(Recheck(c)) /\ WF_vars(Post(c)) /\ WF_vars(Refuse(c))
                     /\ WF_vars(Fail(c))
  /\ WF_vars(QueryLost)

Spec == Init /\ [][Next]_vars /\ Fairness

------------------------------------------------------------------------------
TypeOK ==
  /\ client \in {"none", "creating", "ready", "absent"}
  /\ disposed \in BOOLEAN
  /\ inFlight \in Nat
  /\ waiters \in Seq(Call) /\ awaiters \in Seq(Call) /\ micro \in Seq(Call)
  /\ pc \in [Call -> Progress]
  /\ uploadSlot \in Slot /\ buffer \in [Slot -> SUBSET Call]
  /\ slot \in [Call -> Slot] /\ body \in [Call -> SUBSET Call]
  /\ endpoint \in Host \cup {None} /\ ep \in [Call -> Host \cup {None}]
  /\ query \in {"none", "asked", "shaking", "replied"}
  /\ reply \in Host \cup {None}
  /\ bPort \in Host \cup {None} /\ bInfo \in Host \cup {None} /\ bFresh \in BOOLEAN
  /\ shake \in [host : Host \cup {None}, first : BOOLEAN, stale : BOOLEAN]
  /\ alive \subseteq Host /\ gone \subseteq Host /\ started \in 0..MaxHost

\* realesrgan-native-vulkan-client.ts:333-346. The counter is exactly the calls
\* that hold a slot, never more than maxInFlight of them, whichever way they
\* ended and in whatever order waiters and newcomers raced for a freed slot.
SlotsExact ==
  /\ inFlight = Cardinality(Holders)
  /\ inFlight <= MaxInFlight

\* The same code. A slot that is free while calls are parked has a woken call on
\* its way to it: no wake-up is lost to a newcomer or to an error path.
NoStrandedWaiter ==
  waiters # <<>> =>
    MaxInFlight - inFlight <= Cardinality({c \in Call : pc[c] = "woken"})

\* :353-361. Requests finish out of order while buffers rotate in order; still
\* no POST carries the bytes of another frame.
BodyIsOwn == \A c \in Call : body[c] \subseteq {c}

\* realesrgan-http-info.ts:14-18. At most one host process runs, and a cached
\* endpoint is the one of the port the broker keeps.
OneHost ==
  /\ Cardinality(alive) <= 1
  /\ bInfo # None => bPort = bInfo

\* realesrgan-native-vulkan-client.ts:333-346 and dispose(). Every call settles:
\* nobody stays parked behind requests that failed, nor on a disposed client.
CallsSettle == \A c \in Call : pc[c] # "new" ~> pc[c] \in Settled

\* The comment on uploadBuffers (:276-280): "an in-flight POST never aliases the
\* buffer the next frame writes".
PostsDoNotAlias ==
  [][\A c \in Call : pc[c] = "posted" /\ c \notin Planar /\ pc'[c] = "posted"
       => buffer'[slot[c]] = buffer[slot[c]]]_vars

==============================================================================
